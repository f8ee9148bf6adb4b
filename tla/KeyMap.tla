-------------------------------- MODULE KeyMap --------------------------------
(***************************************************************************)
(* What a keyValPair_t promises to those who put options into it: a value  *)
(* for each keyword, or none, changed for one keyword at a time.           *)
(***************************************************************************)
CONSTANTS Words, Values, NoValue

VARIABLE map

Empty == [k \in Words |-> NoValue]
Init == map = Empty

Put(k, v) == map' = [map EXCEPT ![k] = v]
Take(k) == map' = [map EXCEPT ![k] = NoValue]
Clear == map' = Empty
Receive == map = Empty /\ map' \in [Words -> Values \cup {NoValue}]

Next == \/ \E k \in Words, v \in Values : Put(k, v)
        \/ \E k \in Words : Take(k)
        \/ Clear \/ Receive
Spec == Init /\ [][Next]_map
=============================================================================
