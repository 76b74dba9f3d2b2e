----------------------------- MODULE FramePool -----------------------------
(***************************************************************************)
(* What the physical frame allocator promises its callers, free lists and  *)
(* loops left out: memory is available or held, a request is served with   *)
(* an aligned block of available memory, and it is refused only when there *)
(* is no such block.                                                       *)
(***************************************************************************)
EXTENDS Integers

CONSTANTS Orders, Size,
          Addrs    \* where boot may add memory

VARIABLES avail,   \* the available addresses
          held,    \* the blocks that callers hold
          reply    \* what the last request returned

vars == <<avail, held, reply>>

Span(a, k) == a..(a + Size[k] - 1)

HeldAddrs == UNION {Span(b.addr, b.order) : b \in held}

(* The aligned blocks of an order that lie wholly in available memory.      *)
Servable(order) == {a \in avail : a % Size[order] = 0 /\ Span(a, order) \subseteq avail}

Init ==
  /\ avail = {}
  /\ held = {}
  /\ reply = "none"

(* Boot adds a block of memory that is neither available nor held.          *)
Add(a, order) ==
  /\ Span(a, order) \cap (avail \cup HeldAddrs) = {}
  /\ avail' = avail \cup Span(a, order)
  /\ UNCHANGED <<held, reply>>

Request ==
  /\ reply' = "none"
  /\ UNCHANGED <<avail, held>>

Serve(order) ==
  /\ \E a \in Servable(order) :
       /\ avail' = avail \ Span(a, order)
       /\ held' = held \cup {[addr |-> a, order |-> order]}
  /\ reply' = "ok"

Refuse(order) ==
  /\ Servable(order) = {}
  /\ reply' = "oom"
  /\ UNCHANGED <<avail, held>>

RefuseInvalid ==
  /\ reply' = "invalid"
  /\ UNCHANGED <<avail, held>>

Release(b) ==
  /\ held' = held \ {b}
  /\ avail' = avail \cup Span(b.addr, b.order)
  /\ reply' = "none"

Next ==
  \/ \E order \in Orders : \E a \in Addrs : Add(a, order)
  \/ Request
  \/ \E order \in Orders : Serve(order) \/ Refuse(order)
  \/ RefuseInvalid
  \/ \E b \in held : Release(b)

Spec == Init /\ [][Next]_vars
=============================================================================
