--------------------------- MODULE MCDemoPrograms ---------------------------
(***************************************************************************)
(* DemoPrograms for TLC: a header name of two letters, and responses with  *)
(* none, one or two headers of it, in either case, next to a longer name,  *)
(* a line without a name, an empty value and a length beyond a word.       *)
(***************************************************************************)
EXTENDS DemoPrograms

MCName == <<"c", "l">>

One == <<"c", "l", ":", "1">>
Two == <<"C", "l", ":", " ", "0", "2">>
Longer == <<"c", "l", "c", ":", "3">>
Large == <<"c", "l", ":", "1", "0", "0">>
Empty == <<"c", "l", ":">>
Other == <<"x">>

Text(lines) ==
    LET Join[i \in 0 .. Len(lines)] ==
            IF i = 0 THEN <<"h">> \o CRLF ELSE Join[i - 1] \o lines[i] \o CRLF
    IN  Join[Len(lines)] \o CRLF

MCResponses ==
    {Text(lines) \o <<"b", "b">> :
        lines \in {<<>>, <<One>>, <<Empty>>, <<Large>>, <<One, Other>>, <<Other, Two>>,
                   <<Two, One>>, <<Longer, One>>}}

MCRequests == {Text(<<>>), Text(<<Other>>), <<"h">> \o CRLF \o Other}
=============================================================================
