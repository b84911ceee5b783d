------------------------------- MODULE MCPure -------------------------------
(* The modules without a state of their own, tried one at a time: header    *)
(* fields (Header), values (Values), declarations of indexes (TableHandle). *)
(* Long header fields start with the byte 00, 7f, 80 or ff, with the        *)
(* lengths on both sides of the limits 55 and 255 that change the form of a *)
(* prefix; numbers have up to four digits.  Numbers of JavaScript come in   *)
(* halves, from below the least integer to above the greatest.              *)
EXTENDS Header, Values, TableHandle

MCFirstBytes == {<<0, 0>>, <<7, 15>>, <<8, 0>>, <<15, 15>>}

MCDoubles == {-20, -16, -15, -3, -1, 0, 1, 2, 7, 14, 15, 16, 17, 30, 31, 32, 33, 40}

Init == HeaderInit /\ ValueInit /\ TableInit

Next ==
    \/ ValueInit /\ TableInit /\ HeaderNext /\ UNCHANGED <<valueVars, declared>>
    \/ HeaderInit /\ TableInit /\ ValueNext /\ UNCHANGED <<fields, declared>>
    \/ HeaderInit /\ ValueInit /\ TableNext /\ UNCHANGED <<fields, valueVars>>

Spec == Init /\ [][Next]_<<fields, valueVars, declared>>
=============================================================================
