------------------------------ MODULE PageMap ------------------------------
(***************************************************************************)
(* What src/pt.c promises of the translations, without tables: each space  *)
(* (the kernel's, and one user's) gives every virtual page an entry, and a *)
(* call changes one page's entry at once, or fails.                        *)
(*                                                                         *)
(* The promise has a gap: while a call is under way, pages of its space    *)
(* that did not translate may come to read as whatever was in the pages    *)
(* that the call made tables of.                                           *)
(***************************************************************************)
CONSTANTS
  Kernel,     \* the kernel's space
  Spaces,     \* what a space may be
  VPages,     \* virtual pages
  Entry,      \* what they translate to
  Empty,      \* the entry of a page that does not translate
  Fresh,      \* what the entry of a page that was never mapped may be
  Boot,       \* the entries of the pages that are mapped from the start
  Requests    \* what callers ask for

VARIABLES
  map,        \* map[s][v]: the entry of page v in space s
  call        \* the call in progress

memory == <<map, call>>

Idle == [pc |-> "idle"]

Stopped == [pc |-> "stopped"]

Maps(spaces) == [spaces -> [VPages -> Entry]]

\* The kernel may stop before the first call.
Init ==
  /\ map \in Maps({Kernel})
  /\ \A v \in VPages :
       map[Kernel][v] \in IF v \in DOMAIN Boot THEN {Boot[v]} ELSE Fresh
  /\ call \in {Idle, Stopped}

\* The user's space begins with no page mapped.
NewSpace(s) ==
  /\ call = Idle
  /\ DOMAIN map = {Kernel}
  /\ s # Kernel
  /\ map' \in Maps({Kernel, s})
  /\ map'[Kernel] = map[Kernel]
  /\ \A v \in VPages : map'[s][v] \in Fresh
  /\ UNCHANGED call

NoSpace ==
  /\ call = Idle
  /\ DOMAIN map = {Kernel}
  /\ call' = Stopped
  /\ UNCHANGED map

Begin(s, req) ==
  /\ call = Idle
  /\ call' = [pc |-> "walk", space |-> s, req |-> req]
  /\ UNCHANGED map

\* The call has made room.
Grow ==
  /\ call.pc = "walk"
  /\ UNCHANGED call
  /\ map' \in Maps(DOMAIN map)
  /\ \A s \in DOMAIN map, v \in VPages :
       map'[s][v] # map[s][v] =>
         s = call.space /\ map[s][v] = Empty /\ map'[s][v] \in Fresh

\* The entry e after the request.
Result(e, req) ==
  CASE req.do = "map"   -> [frame |-> req.frame, attrs |-> req.flags]
    [] req.do = "set"   -> [frame |-> e.frame, attrs |-> e.attrs \union req.attrs]
    [] req.do = "clear" -> [frame |-> e.frame, attrs |-> e.attrs \ req.attrs]

Finish ==
  /\ call.pc = "walk"
  /\ map' = [map EXCEPT ![call.space][call.req.va] = Result(@, call.req)]
  /\ call' = Idle

\* Only a mapping for the user may fail and the kernel go on.
Fail ==
  /\ call.pc = "walk"
  /\ \/ call' = Stopped
     \/ call.req.do = "map" /\ call.space # Kernel /\ call' = Idle
  /\ UNCHANGED map

Next ==
  \/ \E s \in Spaces : NewSpace(s)
  \/ NoSpace
  \/ \E s \in DOMAIN map, req \in Requests : Begin(s, req)
  \/ Grow \/ Finish \/ Fail

Spec == Init /\ [][Next]_memory

=============================================================================
