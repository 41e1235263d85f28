--------------------------------- MODULE Link ---------------------------------
(***************************************************************************)
(* What the game may assume of its connection, whatever the threads behind *)
(* it do: there is one link at a time; an attempt is made to one address   *)
(* and ends by being established or by failing; a link that was            *)
(* established is closed once; items go out only while it is established.  *)
(***************************************************************************)
CONSTANTS Addrs, Items

VARIABLES
    link,   \* "down", "attempt", "up" or "closing"
    addr,   \* address of the last attempt
    sent    \* kinds of item that went out on the link

lvars == <<link, addr, sent>>

Init == link = "down" /\ addr \in Addrs /\ sent = {}

Attempt ==
    /\ link = "down"
    /\ link' = "attempt"
    /\ addr' \in Addrs
    /\ UNCHANGED sent

Move(from, to) == link = from /\ link' = to /\ UNCHANGED addr

Establish == Move("attempt", "up") /\ UNCHANGED sent
Fail      == Move("attempt", "closing") /\ UNCHANGED sent
Lose      == Move("up", "closing") /\ UNCHANGED sent
Gone      == Move("closing", "down") /\ sent' = {}

SendOut(item) ==
    /\ Move("up", "up")
    /\ sent' = sent \cup {item}

Next ==
    \/ Attempt \/ Establish \/ Fail \/ Lose \/ Gone
    \/ \E item \in Items : SendOut(item)

Spec == Init /\ [][Next]_lvars

=============================================================================
