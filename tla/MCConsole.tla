----------------------------- MODULE MCConsole -----------------------------
(* Two processes that write more than the log holds, and up to four keys.   *)
EXTENDS Console, TLC

CONSTANTS w1, w2

Scene(script, on, first, second, bounds) ==
  [script |-> script, on |-> on, texts |-> (w1 :> first) @@ (w2 :> second), left |-> bounds,
   boot |-> FALSE]

Left(k, p, m) == [kernel |-> k, prints |-> p, modes |-> m]
Boards == {"serial", "usb"}

Writing ==
  {Scene(<<"c">>, "serial", <<1, 2, 2>>, <<1, 1, 2>>, Left(0, 0, 0)),
   Scene(<<"sig">>, "usb", <<1, 2, 2>>, <<1, 1, 2>>, Left(0, 0, 0)),
   Scene(<<>>, "serial", <<1, 2, 2>>, <<1, 1, 2>>, Left(2, 0, 0)),
   Scene(<<"c", "nl">>, "serial", <<1, 1>>, <<>>, Left(0, 1, 0))}

Typing ==
  {Scene(s, on, <<>>, <<>>, Left(0, 0, 0)) :
     s \in {<<"c", "sig", "c", "nl">>, <<"c", "eof", "c", "nl">>}, on \in Boards}
  \cup {Scene(<<"c", "c", "sig", "nl">>, "serial", <<>>, <<>>, Left(0, 0, 0))}
  \cup {Scene(s, "usb", <<>>, <<>>, Left(0, 0, 0)) :
          s \in {<<"c", "nl", "c", "c">>, <<"eof", "c", "kill">>, <<"bs", "c", "bs">>}}
  \cup {Scene(<<"c", "c", "nl">>, on, <<>>, <<>>, Left(0, 0, 2)) : on \in Boards}

Booting ==
  {[Scene(s, "serial", <<1, 1>>, <<>>, Left(0, 0, 0)) EXCEPT !.boot = TRUE] :
     s \in {<<"c", "nl">>, <<"c", "sig", "c">>}}

MCScenes == Booting \cup Writing \cup Typing
=============================================================================
