------------------------------ MODULE PageTable ------------------------------
(***************************************************************************)
(* The page tables of src/pt.c as map_pa_to_va_pg() builds them: the       *)
(* kernel's, made by boot.S and described by init_mmu(), and the user's,   *)
(* made by usr_init().                                                     *)
(*                                                                         *)
(* The code finds its way through the tables by descriptors beside them    *)
(* (struct page_table_desc), the MMU by the entries alone; other cores run *)
(* on the same tables while core 0 changes them.  So a call is taken one   *)
(* level at a time.                                                        *)
(*                                                                         *)
(* A table is a page that has a descriptor, and names it.  Pages come from *)
(* the allocator as they are: nothing clears a new table, and an entry in  *)
(* it is empty or junk.                                                    *)
(***************************************************************************)
EXTENDS Integers

CONSTANTS
  Index,        \* the entries of a table
  First,        \* the entry 0
  Tables,       \* the pages that may become tables
  L1, L2, L3,   \* the kernel's first tables, at __kernel_pt
  Frames,       \* physical pages
  Frame0,       \* the one at address 0
  BootFrame,    \* what the entries of L3 map from the start
  Attrs,        \* attribute bits of entries
  KernelFlags,  \* INIT_PT_FLAGS and PTE_FLAGS_KERNEL_GENERIC
  Junk,         \* what the entries of an uncleared page may be besides empty
  Requests      \* what callers ask for

VPages == [1 .. 3 -> Index]

Entry == [frame : Frames, attrs : SUBSET Attrs]

Empty == [frame |-> Frame0, attrs |-> {}]

\* map: map the page to the frame (map_pa_to_va_pg); set, clear: change the
\* attributes of its entry (va_set_attr, va_clear_attr).  flags also go into
\* the entries of the tables that have to be made.
Request == [do : {"map", "set", "clear"}, va : VPages, frame : Frames,
            flags : SUBSET Attrs, attrs : SUBSET Attrs]

ASSUME PagesAssumption ==
  /\ First \in Index
  /\ Tables \subseteq Frames
  /\ Frame0 \in Frames \ Tables
  /\ BootFrame \in [Index -> Frames]
  /\ {L1, L2, L3} \subseteq Tables
  /\ L1 # L2 /\ L1 # L3 /\ L2 # L3

ASSUME EntriesAssumption ==
  /\ KernelFlags \subseteq Attrs
  /\ Junk \subseteq Entry
  /\ \A e \in Junk : e # Empty /\ e.frame \notin Tables
  /\ Requests \subseteq Request

VARIABLES
  entry,     \* entry[t][i]: entry i of the table in page t
  level,     \* level[t]: of its descriptor; 0 if it is no table
  children,  \* children[t]: the tables whose descriptors hang from t's
  wild,      \* the tables whose descriptor was left uninitialised
  user,      \* the user's level 1 table, once there is one
  op         \* the call in progress

vars == <<entry, level, children, wild, user, op>>

Uncleared == [Index -> {Empty} \union Junk]

Tops == {L1} \union user

Idle == [pc |-> "idle"]

Stopped == [pc |-> "stopped"]   \* kernel_panic(), or gone astray

Walking(top, table, req) == [pc |-> "walk", top |-> top, table |-> table, req |-> req]

Calls ==
  [pc : {"idle", "stopped"}]
    \union [pc : {"walk"}, top : Tables, table : Tables, req : Request]

-----------------------------------------------------------------------------
\* pt_entry(): an entry that refers to a page.
PtEntry(frame, flags) == [frame |-> frame, attrs |-> flags]

\* boot.S writes entry 0 of L1 and of L2 and all of L3.
BootEntries(c, d) ==
  [t \in Tables |->
     IF t = L1 THEN [c EXCEPT ![First] = PtEntry(L2, KernelFlags)]
     ELSE IF t = L2 THEN [d EXCEPT ![First] = PtEntry(L3, KernelFlags)]
     ELSE [i \in Index |-> IF t = L3 THEN PtEntry(BootFrame[i], KernelFlags) ELSE Empty]]

BootLevel(t) == IF t = L1 THEN 1 ELSE IF t = L2 THEN 2 ELSE IF t = L3 THEN 3 ELSE 0

\* init_mmu() has described them (extract_global_pt_info).  The first descriptor is
\* linked to a parent too, and that is NULL: where the store faults the kernel stops
\* here, and what is described then is of no account.
Init ==
  /\ \E c, d \in Uncleared : entry = BootEntries(c, d)
  /\ level = [t \in Tables |-> BootLevel(t)]
  /\ children = [t \in Tables |-> IF t = L1 THEN {L2} ELSE IF t = L2 THEN {L3} ELSE {}]
  /\ wild = {}
  /\ user = {}
  /\ op \in {Idle, Stopped}

-----------------------------------------------------------------------------
(* usr_init() *)

\* The user's level 1 table, its page not cleared either; nor is its descriptor,
\* whose child pointer may be anything.
UsrInit(t) ==
  /\ op = Idle
  /\ user = {}
  /\ level[t] = 0
  /\ \E c \in Uncleared : entry' = [entry EXCEPT ![t] = c]
  /\ level' = [level EXCEPT ![t] = 1]
  /\ user' = {t}
  /\ wild' \in {wild, wild \union {t}}
  /\ UNCHANGED <<children, op>>

\* No page is left, and the table is taken to be at address 0.
UsrInitFails ==
  /\ op = Idle
  /\ user = {}
  /\ op' = Stopped
  /\ UNCHANGED <<entry, level, children, wild, user>>

-----------------------------------------------------------------------------
(* map_pa_to_va_pg() *)

\* A call begins at the top descriptor: ioremap() and the user's pages, and the
\* walks of va_set_attr() and va_clear_attr().
Call(top, req) ==
  /\ op = Idle
  /\ op' = Walking(top, top, req)
  /\ UNCHANGED <<entry, level, children, wild, user>>

\* Mutant: the index of the level below.
Slot_Next == op.req.va[IF level[op.table] = 3 THEN 3 ELSE level[op.table] + 1]

\* The entry the loop looks at: the index of va for the level of the table.
Slot == op.req.va[level[op.table]]

Pte == entry[op.table][Slot]

\* Mutant: the loop goes one level further.
AtLeaf_Late == op.pc = "walk" /\ level[op.table] = 4

AtLeaf == op.pc = "walk" /\ level[op.table] = 3

Descending == op.pc = "walk" /\ ~ AtLeaf /\ op.table \notin wild

\* What becomes of a call that returns 0: ioremap() panics, the attributes are
\* written through NULL, only the user's mapping goes on.
Failed == IF op.req.do = "map" /\ op.top \in user THEN Idle ELSE Stopped

\* Mutant: the new descriptor is not linked to its parent.
NewTable_Unlinked(t) ==
  /\ Descending
  /\ Pte = Empty
  /\ level[t] = 0
  /\ \E c \in Uncleared :
       entry' = [entry EXCEPT ![t] = c, ![op.table][Slot] = PtEntry(t, op.req.flags)]
  /\ level' = [level EXCEPT ![t] = level[op.table] + 1]
  /\ op' = Walking(op.top, t, op.req)
  /\ UNCHANGED <<children, wild, user>>

\* Mutant: an entry in use is replaced.
NewTable_Replaces(t) ==
  /\ Descending
  /\ Pte # Empty
  /\ level[t] = 0
  /\ \E c \in Uncleared :
       entry' = [entry EXCEPT ![t] = c, ![op.table][Slot] = PtEntry(t, op.req.flags)]
  /\ level' = [level EXCEPT ![t] = level[op.table] + 1]
  /\ children' = [children EXCEPT ![op.table] = @ \union {t}]
  /\ op' = Walking(op.top, t, op.req)
  /\ UNCHANGED <<wild, user>>

\* Mutant: the page is a table already.
NewTable_Twice(t) ==
  /\ Descending
  /\ Pte = Empty
  /\ level[t] \in {0, level[op.table] + 1}
  /\ entry' = [entry EXCEPT ![op.table][Slot] = PtEntry(t, op.req.flags)]
  /\ level' = [level EXCEPT ![t] = level[op.table] + 1]
  /\ children' = [children EXCEPT ![op.table] = @ \union {t}]
  /\ op' = Walking(op.top, t, op.req)
  /\ UNCHANGED <<wild, user>>

\* Nothing there: create_pt() of the next level, and the entry and the descriptor
\* that lead to it.
NewTable(t) ==
  /\ Descending
  /\ Pte = Empty
  /\ level[t] = 0
  /\ \E c \in Uncleared :
       entry' = [entry EXCEPT ![t] = c, ![op.table][Slot] = PtEntry(t, op.req.flags)]
  /\ level' = [level EXCEPT ![t] = level[op.table] + 1]
  /\ children' = [children EXCEPT ![op.table] = @ \union {t}]
  /\ op' = Walking(op.top, t, op.req)
  /\ UNCHANGED <<wild, user>>

\* create_pt() gets no page, which is found before any descriptor is looked at.
NoPage ==
  /\ op.pc = "walk" /\ ~ AtLeaf
  /\ Pte = Empty
  /\ op' = Failed
  /\ UNCHANGED <<entry, level, children, wild, user>>

\* Mutant: the descriptor is found and forgotten.
Follow_Stays(t) ==
  /\ Descending
  /\ t \in children[op.table]
  /\ Pte.frame = t
  /\ UNCHANGED vars

\* pt_desc_get_from_parent() finds the child whose table the entry refers to.
Follow(t) ==
  /\ Descending
  /\ t \in children[op.table]
  /\ Pte.frame = t
  /\ op' = Walking(op.top, t, op.req)
  /\ UNCHANGED <<entry, level, children, wild, user>>

\* The entry refers to no child: it was junk.
NotFound ==
  /\ Descending
  /\ Pte # Empty
  /\ Pte.frame \notin children[op.table]
  /\ op' = Failed
  /\ UNCHANGED <<entry, level, children, wild, user>>

\* The child pointer is followed, to add the new table, once there is a page for it,
\* or to find one.  What is written to that page and to the entry before is left out:
\* the kernel is gone.
WalksOff ==
  /\ op.pc = "walk" /\ ~ AtLeaf
  /\ op.table \in wild
  /\ Pte = Empty => \E t \in Tables : level[t] = 0
  /\ op' = Stopped
  /\ UNCHANGED <<entry, level, children, wild, user>>

\* What the request makes of the entry e.
Written(e, req) ==
  CASE req.do = "map"   -> PtEntry(req.frame, req.flags)
    [] req.do = "set"   -> [e EXCEPT !.attrs = @ \union req.attrs]
    [] req.do = "clear" -> [e EXCEPT !.attrs = @ \ req.attrs]

WriteEntry ==
  /\ AtLeaf
  /\ entry' = [entry EXCEPT ![op.table][Slot] = Written(@, op.req)]
  /\ op' = Idle
  /\ UNCHANGED <<level, children, wild, user>>

-----------------------------------------------------------------------------
\* After a panic or a wild pointer the kernel is gone.
Halted == op = Stopped /\ UNCHANGED vars

Step ==
  \/ \E t \in Tables : NewTable(t) \/ Follow(t)
  \/ NoPage \/ NotFound \/ WalksOff \/ WriteEntry

Next ==
  \/ \E t \in Tables : UsrInit(t)
  \/ UsrInitFails
  \/ \E top \in Tops, req \in Requests : Call(top, req)
  \/ Step
  \/ Halted

Spec == Init /\ [][Next]_vars

\* Nothing takes the place of a call in progress for ever.
FairSpec == Spec /\ WF_vars(Step)

-----------------------------------------------------------------------------
(* Properties *)

\* Every variable has its type; there are three levels.
TypeOK ==
  /\ entry \in [Tables -> [Index -> Entry]]
  /\ level \in [Tables -> 0 .. 3]
  /\ children \in [Tables -> SUBSET Tables]
  /\ wild \subseteq Tables
  /\ user \subseteq Tables
  /\ op \in Calls

\* What the MMU finds for page v from the table top: the last entry of its walk,
\* empty when it faults on the way; junk on the way leads out of the tables.
Walk(top, v) ==
  LET e1 == entry[top][v[1]]
      e2 == entry[e1.frame][v[2]]
  IN  IF e1.frame \notin Tables THEN e1
      ELSE IF e2.frame \notin Tables THEN e2
      ELSE entry[e2.frame][v[3]]

\* Entry i of table t, of level 1 or 2, refers to the table u.
Refers(t, i, u) == level[t] \in {1, 2} /\ entry[t][i].frame = u

\* The descriptors describe the entries: the children of a table are the tables
\* its entries refer to, one level down.  Else pt_desc_get_from_parent() would
\* not find what the MMU walks through, or find what it does not.
DescsAgree ==
  \A t, u \in Tables :
    /\ u \in children[t] <=> \E i \in Index : Refers(t, i, u)
    /\ u \in children[t] => level[u] = level[t] + 1

\* No table is shared: one entry at most leads to it, so no write for one page,
\* or for the user, changes another page's translation behind its back.
OneParent ==
  \A t, s, u \in Tables : \A i, j \in Index :
    Refers(t, i, u) /\ Refers(s, j, u) => t = s /\ i = j

\* Where a call is by its descriptors, the MMU is too, at the same level of a walk
\* for the same page.
SamePath ==
  op.pc = "walk" =>
    LET v == op.req.va
    IN  \/ level[op.table] = 1 /\ op.table = op.top
        \/ level[op.table] = 2 /\ Refers(op.top, v[1], op.table)
        \/ /\ level[op.table] = 3
           /\ \E t \in Tables : Refers(op.top, v[1], t) /\ Refers(t, v[2], op.table)

\* Whatever a call does, at every moment every other page that translates goes on
\* translating as it did, for every core, through both top tables.
OnlyItsPage ==
  [][\A top \in Tops, v \in VPages :
       Walk(top, v) # Empty /\ Walk(top, v)' # Walk(top, v)
         => op.pc = "walk" /\ top = op.top /\ v = op.req.va]_vars

\* A call that returns va has made the MMU find what was asked for.
TakesEffect ==
  [][\A top \in Tops, v \in VPages :
       WriteEntry /\ top = op.top /\ v = op.req.va
         => Walk(top, v)' = Written(Walk(top, v), op.req)]_vars

\* What boot.S maps.
BootPages ==
  [v \in {w \in VPages : w[1] = First /\ w[2] = First} |->
     PtEntry(BootFrame[v[3]], KernelFlags)]

\* The spaces, as the MMU sees them.
Translations == [top \in Tops |-> [v \in VPages |-> Walk(top, v)]]

Calling == IF op.pc = "walk" THEN [pc |-> "walk", space |-> op.top, req |-> op.req] ELSE op

Memory == INSTANCE PageMap WITH
  Kernel <- L1, Spaces <- Tables, Fresh <- {Empty} \union Junk, Boot <- BootPages,
  map <- Translations, call <- Calling

\* With all their tables and descriptors, and one level at a time under the MMU's
\* eyes, the calls do what PageMap says: they change their page's entry at once
\* and no other page's, in their own space; they stop halfway with nothing
\* mapped or unmapped; and the kernel's space and the user's stay apart.
ImplementsMap == Memory!Spec

\* A call returns, or the kernel has stopped.
CallsReturn == op.pc = "walk" ~> op.pc # "walk"

=============================================================================
