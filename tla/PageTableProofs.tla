-------------------------- MODULE PageTableProofs --------------------------
(***************************************************************************)
(* Page tables of any size, in any number, whatever junk new pages hold.   *)
(*                                                                         *)
(* The tables are a forest: descriptors and entries agree on who is whose  *)
(* child (DescsAgree), a child is one level down and has one parent        *)
(* (OneParent), and the top tables are at level 1.  So the way to an       *)
(* entry of level 3 tells the page it translates, and what a call writes   *)
(* at the end of its way concerns its page only.                           *)
(***************************************************************************)
EXTENDS PageTable, TLAPS

\* The tables the MMU starts from are at level 1, and the user's is another than
\* the kernel's.
TopsFirst == L1 \notin user /\ \A top \in Tops : level[top] = 1

\* A call walks down from such a table.
FromTop == op.pc = "walk" => op.top \in Tops

Forest == DescsAgree /\ OneParent /\ TopsFirst

IInv == TypeOK /\ Forest /\ SamePath /\ FromTop

-----------------------------------------------------------------------------
(* Entries and pages *)

\* An entry of an uncleared page leads to no table.
LEMMA UnclearedLeadsNowhere ==
  ASSUME NEW c \in Uncleared, NEW i \in Index
  PROVE  c[i] \in Entry /\ c[i].frame \notin Tables
<1>1. c[i] \in {Empty} \union Junk
  BY DEF Uncleared
<1>2. Empty \in Entry /\ Empty.frame \notin Tables
  BY PagesAssumption DEF Empty, Entry
<1> QED BY <1>1, <1>2, EntriesAssumption

\* An uncleared page is a table's worth of entries.
LEMMA UnclearedType == Uncleared \subseteq [Index -> Entry]
BY PagesAssumption, EntriesAssumption DEF Uncleared, Empty, Entry

\* Pages with the same three indices are the same.
LEMMA PageByIndices ==
  ASSUME NEW v \in VPages, NEW w \in VPages, v[1] = w[1], v[2] = w[2], v[3] = w[3]
  PROVE  v = w
<1>1. \A i \in 1 .. 3 : i = 1 \/ i = 2 \/ i = 3
  BY SMT
<1>2. \A i \in 1 .. 3 : v[i] = w[i]
  BY <1>1
<1>3. v = [i \in 1 .. 3 |-> v[i]] /\ w = [i \in 1 .. 3 |-> w[i]]
  BY Zenon DEF VPages
<1> QED BY <1>2, <1>3

\* The three indices of a page.
LEMMA PageIndices ==
  ASSUME NEW v \in VPages
  PROVE  v[1] \in Index /\ v[2] \in Index /\ v[3] \in Index
BY SMT DEF VPages

\* A call that walks is at a table of level 1, 2 or 3, and Slot is the index of its
\* page for that level.
LEMMA WalkingAt ==
  ASSUME TypeOK, SamePath, op.pc = "walk"
  PROVE  /\ op.table \in Tables /\ op.top \in Tables /\ op.req \in Request
         /\ op.req.va \in VPages
         /\ level[op.table] \in {1, 2, 3}
         /\ Slot \in Index
<1>1. op \in [pc : {"walk"}, top : Tables, table : Tables, req : Request]
  BY DEF TypeOK, Calls
<1>2. op.table \in Tables /\ op.top \in Tables /\ op.req \in Request
  BY <1>1
<1>3. op.req.va \in VPages
  BY <1>2 DEF Request
<1>4. level[op.table] \in {1, 2, 3}
  BY DEF SamePath
<1>5. Slot \in Index
  BY <1>3, <1>4, PageIndices DEF Slot
<1> QED BY <1>2, <1>3, <1>4, <1>5

\* The tables that the MMU's walk goes through.
LEMMA WalkLevels ==
  ASSUME TypeOK, Forest, NEW top \in Tops, NEW v \in VPages,
         NEW t \in Tables, entry[top][v[1]].frame = t
  PROVE  /\ top \in Tables /\ level[top] = 1
         /\ Refers(top, v[1], t) /\ level[t] = 2
         /\ \A u \in Tables : entry[t][v[2]].frame = u =>
              Refers(t, v[2], u) /\ level[u] = 3
<1>1. top \in Tables /\ level[top] = 1
  BY PagesAssumption DEF Forest, TopsFirst, Tops, TypeOK
<1>2. Refers(top, v[1], t)
  BY <1>1 DEF Refers
<1>3. level[t] = 2
  BY <1>1, <1>2, PageIndices DEF Forest, DescsAgree
<1>4. ASSUME NEW u \in Tables, entry[t][v[2]].frame = u
      PROVE  Refers(t, v[2], u) /\ level[u] = 3
  <2>1. Refers(t, v[2], u)
    BY <1>3, <1>4 DEF Refers
  <2>2. level[u] = 2 + 1
    BY <1>3, <2>1, PageIndices DEF Forest, DescsAgree
  <2> QED BY <2>1, <2>2
<1> QED BY <1>1, <1>2, <1>3, <1>4

\* What a request makes of an entry is an entry.
LEMMA WrittenType ==
  ASSUME NEW e \in Entry, NEW req \in Request
  PROVE  Written(e, req) \in Entry
<1>1. CASE req.do = "map"
  <2>1. Written(e, req) = PtEntry(req.frame, req.flags)
    BY <1>1 DEF Written
  <2> QED BY <2>1 DEF PtEntry, Entry, Request
<1>2. CASE req.do = "set"
  <2>1. Written(e, req) = [e EXCEPT !.attrs = @ \union req.attrs]
    BY <1>2 DEF Written
  <2> QED BY <2>1 DEF Entry, Request
<1>3. CASE req.do = "clear"
  <2>1. Written(e, req) = [e EXCEPT !.attrs = @ \ req.attrs]
    BY <1>3 DEF Written
  <2> QED BY <2>1 DEF Entry, Request
<1> QED BY <1>1, <1>2, <1>3 DEF Request

-----------------------------------------------------------------------------
(* The invariant *)

\* The kernel's first three tables are one chain.
LEMMA InitIInv == Init => IInv
<1> SUFFICES ASSUME Init PROVE IInv
  OBVIOUS
<1>1. PICK c \in Uncleared, d \in Uncleared : entry = BootEntries(c, d)
  BY DEF Init
<1>2. (\A t \in Tables : level[t] = BootLevel(t)) /\ level \in [Tables -> 0 .. 3]
  BY SMT DEF Init, BootLevel
<1>3. /\ \A t \in Tables : children[t] = IF t = L1 THEN {L2} ELSE IF t = L2 THEN {L3} ELSE {}
      /\ children \in [Tables -> SUBSET Tables]
  BY PagesAssumption DEF Init
<1>4. /\ entry[L1] = [c EXCEPT ![First] = PtEntry(L2, KernelFlags)]
      /\ entry[L2] = [d EXCEPT ![First] = PtEntry(L3, KernelFlags)]
  BY <1>1, PagesAssumption DEF BootEntries
<1>5. c \in [Index -> Entry] /\ d \in [Index -> Entry]
  BY UnclearedType
<1>6. \A f \in Frames : PtEntry(f, KernelFlags) \in Entry
  BY EntriesAssumption DEF PtEntry, Entry
<1>7. \A t \in Tables : entry[t] \in [Index -> Entry]
  <2> TAKE t \in Tables
  <2>1. CASE t = L1
    BY <2>1, <1>4, <1>5, <1>6, PagesAssumption
  <2>2. CASE t = L2
    BY <2>2, <1>4, <1>5, <1>6, PagesAssumption
  <2>3. CASE t \notin {L1, L2}
    <3>1. entry[t] = [i \in Index |-> IF t = L3 THEN PtEntry(BootFrame[i], KernelFlags) ELSE Empty]
      BY <2>3, <1>1 DEF BootEntries
    <3>2. Empty \in Entry
      BY PagesAssumption DEF Empty, Entry
    <3> QED BY <3>1, <3>2, <1>6, PagesAssumption
  <2> QED BY <2>1, <2>2, <2>3
<1>8. TypeOK
  <2>1. entry \in [Tables -> [Index -> Entry]]
    BY <1>1, <1>7 DEF BootEntries
  <2> QED BY <2>1, <1>2, <1>3 DEF TypeOK, Init, Calls, Idle, Stopped
<1>9. \A t, u \in Tables, i \in Index :
        Refers(t, i, u) <=> i = First /\ ((t = L1 /\ u = L2) \/ (t = L2 /\ u = L3))
  <2> TAKE t, u \in Tables, i \in Index
  <2>1. c[i].frame \notin Tables /\ d[i].frame \notin Tables
    BY UnclearedLeadsNowhere
  <2>2. entry[L1][i].frame = IF i = First THEN L2 ELSE c[i].frame
    BY <1>4, <1>5, PagesAssumption DEF PtEntry
  <2>3. entry[L2][i].frame = IF i = First THEN L3 ELSE d[i].frame
    BY <1>4, <1>5, PagesAssumption DEF PtEntry
  <2> QED BY <2>1, <2>2, <2>3, <1>2, PagesAssumption DEF Refers, BootLevel
<1>10. DescsAgree
  BY <1>2, <1>3, <1>9, PagesAssumption DEF DescsAgree, BootLevel
<1>11. OneParent
  BY <1>9, PagesAssumption DEF OneParent
<1>12. TopsFirst
  BY <1>2, PagesAssumption DEF TopsFirst, Tops, Init, BootLevel
<1> QED BY <1>8, <1>10, <1>11, <1>12 DEF IInv, Forest, SamePath, FromTop, Init, Idle, Stopped

\* Steps that only begin, end or move on the call.
LEMMA OpOnly ==
  ASSUME IInv, UNCHANGED <<entry, level, children, wild, user>>,
         op' \in Calls, SamePath', FromTop'
  PROVE  IInv'
<1>1. TypeOK' /\ TopsFirst'
  BY DEF IInv, TypeOK, Forest, TopsFirst, Tops
<1>2. DescsAgree' /\ OneParent'
  BY DEF IInv, Forest, DescsAgree, OneParent, Refers
<1> QED BY <1>1, <1>2 DEF IInv, Forest

\* A call that is over, one way or the other.
LEMMA CallOver ==
  ASSUME IInv, UNCHANGED <<entry, level, children, wild, user>>, op' \in {Idle, Stopped}
  PROVE  IInv'
<1>1. op' \in Calls /\ SamePath' /\ FromTop'
  BY DEF Calls, Idle, Stopped, SamePath, FromTop
<1> QED BY <1>1, OpOnly

\* A call begins at the top.
LEMMA CallStep ==
  ASSUME IInv, NEW top \in Tops, NEW req \in Requests, Call(top, req)
  PROVE  IInv'
<1>1. top \in Tables /\ level[top] = 1 /\ req \in Request
  BY EntriesAssumption, PagesAssumption DEF IInv, TypeOK, Forest, TopsFirst, Tops
<1>2. op' = Walking(top, top, req) /\ UNCHANGED <<entry, level, children, wild, user>>
  BY DEF Call
<1>3. op' \in Calls
  BY <1>1, <1>2 DEF Walking, Calls
<1>4. SamePath' /\ FromTop'
  BY <1>1, <1>2 DEF Walking, SamePath, FromTop, Tops
<1> QED BY <1>2, <1>3, <1>4, OpOnly

\* A call goes down to a child, and so does the MMU.
LEMMA FollowStep ==
  ASSUME IInv, NEW t \in Tables, Follow(t)
  PROVE  IInv'
<1>1. /\ op.pc = "walk" /\ level[op.table] # 3
      /\ t \in children[op.table] /\ entry[op.table][Slot].frame = t
      /\ op' = Walking(op.top, t, op.req)
      /\ UNCHANGED <<entry, level, children, wild, user>>
  BY DEF Follow, Descending, AtLeaf, Pte
<1>2. /\ op.table \in Tables /\ level[op.table] \in {1, 2}
      /\ op.req.va \in VPages /\ Slot = op.req.va[level[op.table]] /\ Slot \in Index
  BY <1>1, WalkingAt DEF IInv, Slot
<1>3. op \in [pc : {"walk"}, top : Tables, table : Tables, req : Request]
  BY <1>1 DEF IInv, TypeOK, Calls
<1>4. /\ op' \in [pc : {"walk"}, top : Tables, table : Tables, req : Request]
      /\ op'.pc = "walk" /\ op'.top = op.top /\ op'.table = t /\ op'.req = op.req
  BY <1>1, <1>3 DEF Walking
<1>5. Refers(op.table, Slot, t) /\ level[t] = level[op.table] + 1
  BY <1>1, <1>2 DEF IInv, Forest, DescsAgree, Refers
<1>6. SamePath'
  <2>1. CASE level[op.table] = 1
    <3>1. op.table = op.top /\ Slot = op.req.va[1] /\ level[t] = 2
      BY <2>1, <1>1, <1>2, <1>5 DEF IInv, SamePath
    <3> QED BY <3>1, <1>1, <1>4, <1>5 DEF SamePath, Refers
  <2>2. CASE level[op.table] = 2
    <3>1. Refers(op.top, op.req.va[1], op.table) /\ Slot = op.req.va[2] /\ level[t] = 3
      BY <2>2, <1>1, <1>2, <1>5 DEF IInv, SamePath
    <3> QED BY <3>1, <1>1, <1>2, <1>4, <1>5 DEF SamePath, Refers
  <2> QED BY <2>1, <2>2, <1>2
<1>7. op' \in Calls /\ FromTop'
  BY <1>1, <1>4 DEF IInv, FromTop, Tops, Calls
<1> QED BY <1>1, <1>6, <1>7, OpOnly

\* The user's table is new: nothing leads to it, and it leads nowhere.
LEMMA UsrInitStep ==
  ASSUME IInv, NEW t \in Tables, UsrInit(t)
  PROVE  IInv'
<1>1. PICK c \in Uncleared : entry' = [entry EXCEPT ![t] = c]
  BY DEF UsrInit
<1>2. /\ level[t] = 0 /\ level' = [level EXCEPT ![t] = 1]
      /\ user = {} /\ user' = {t} /\ wild' \in {wild, wild \union {t}}
      /\ children' = children /\ op = Idle /\ op' = Idle
  BY DEF UsrInit
<1>3. TypeOK
  BY DEF IInv
<1>4. TypeOK'
  BY <1>1, <1>2, <1>3, UnclearedType DEF TypeOK, Calls, Idle
<1>5. \A s, u \in Tables, i \in Index : Refers(s, i, u)' <=> Refers(s, i, u)
  <2> TAKE s, u \in Tables, i \in Index
  <2>1. CASE s = t
    <3>1. entry'[s][i].frame \notin Tables
      BY <2>1, <1>1, <1>3, UnclearedLeadsNowhere DEF TypeOK
    <3> QED BY <3>1, <2>1, <1>2 DEF Refers
  <2>2. CASE s # t
    BY <2>2, <1>1, <1>2, <1>3 DEF Refers, TypeOK
  <2> QED BY <2>1, <2>2
<1>6. DescsAgree /\ OneParent /\ TopsFirst
  BY DEF IInv, Forest
<1>7. \A s, u \in Tables : u \in children[s] => s # t /\ u # t
  BY <1>2, <1>3, <1>6 DEF DescsAgree, Refers, TypeOK
<1>8. DescsAgree'
  <2> SUFFICES ASSUME NEW s \in Tables, NEW u \in Tables
               PROVE  /\ u \in children'[s] <=> \E i \in Index : Refers(s, i, u)'
                      /\ u \in children'[s] => level'[u] = level'[s] + 1
    BY DEF DescsAgree
  <2>1. u \in children'[s] <=> \E i \in Index : Refers(s, i, u)'
    BY <1>2, <1>5, <1>6 DEF DescsAgree
  <2>2. u \in children'[s] => level'[u] = level'[s] + 1
    BY <1>2, <1>3, <1>6, <1>7 DEF DescsAgree, TypeOK
  <2> QED BY <2>1, <2>2
<1>9. OneParent'
  BY <1>5, <1>6 DEF OneParent
<1>10. TopsFirst'
  BY <1>2, <1>3, <1>6, PagesAssumption DEF TopsFirst, Tops, TypeOK
<1> QED BY <1>2, <1>4, <1>8, <1>9, <1>10 DEF IInv, Forest, SamePath, FromTop, Idle

\* What the entries lead to after a table was made: to it too, and only from there.
LEMMA NewTableRefers ==
  ASSUME IInv, NEW t \in Tables, NewTable(t)
  PROVE  \A s, u \in Tables, i \in Index :
           Refers(s, i, u)' <=>
             Refers(s, i, u) \/ (s = op.table /\ i = Slot /\ u = t)
<1>1. PICK c \in Uncleared :
        entry' = [entry EXCEPT ![t] = c, ![op.table][Slot] = PtEntry(t, op.req.flags)]
  BY DEF NewTable
<1>2. /\ op.pc = "walk" /\ level[op.table] # 3 /\ level[t] = 0
      /\ level' = [level EXCEPT ![t] = level[op.table] + 1]
      /\ entry[op.table][Slot] = Empty
  BY DEF NewTable, Descending, AtLeaf, Pte
<1>3. TypeOK /\ op.table \in Tables /\ level[op.table] \in {1, 2} /\ Slot \in Index
  BY <1>2, WalkingAt DEF IInv
<1>4. t # op.table
  BY <1>2, <1>3
<1> TAKE s, u \in Tables, i \in Index
<1>5. CASE s = t
  <2>1. entry'[t] = c
    BY <1>1, <1>3, <1>4 DEF TypeOK
  <2>2. entry'[s][i].frame \notin Tables
    BY <2>1, <1>5, UnclearedLeadsNowhere
  <2> QED BY <2>2, <1>2, <1>4, <1>5 DEF Refers
<1>6. CASE s = op.table /\ i = Slot
  <2>1. entry'[s][i] = PtEntry(t, op.req.flags)
    BY <1>1, <1>3, <1>4, <1>6 DEF TypeOK
  <2>2. entry'[s][i].frame = t
    BY <2>1 DEF PtEntry
  <2>3. level'[s] = level[s]
    BY <1>2, <1>3, <1>4, <1>6 DEF TypeOK
  <2>4. ~ Refers(s, i, u)
    BY <1>2, <1>6, PagesAssumption DEF Refers, Empty
  <2> QED BY <2>2, <2>3, <2>4, <1>3, <1>6 DEF Refers
<1>7. CASE s # t /\ ~ (s = op.table /\ i = Slot)
  <2>1. entry'[s][i] = entry[s][i] /\ level'[s] = level[s]
    BY <1>1, <1>2, <1>3, <1>4, <1>7 DEF TypeOK
  <2> QED BY <2>1, <1>7 DEF Refers
<1> QED BY <1>5, <1>6, <1>7

\* A call makes the table its entry lacked, and goes down to it.
LEMMA NewTableStep ==
  ASSUME IInv, NEW t \in Tables, NewTable(t)
  PROVE  IInv'
<1>1. PICK c \in Uncleared :
        entry' = [entry EXCEPT ![t] = c, ![op.table][Slot] = PtEntry(t, op.req.flags)]
  BY DEF NewTable
<1>2. /\ op.pc = "walk" /\ level[op.table] # 3 /\ level[t] = 0
      /\ level' = [level EXCEPT ![t] = level[op.table] + 1]
      /\ children' = [children EXCEPT ![op.table] = @ \union {t}]
      /\ op' = Walking(op.top, t, op.req)
      /\ wild' = wild /\ user' = user
  BY DEF NewTable, Descending, AtLeaf
<1>3. /\ TypeOK /\ op.table \in Tables /\ level[op.table] \in {1, 2}
      /\ op.req.va \in VPages /\ op.req \in Request /\ Slot \in Index
  BY <1>2, WalkingAt DEF IInv
<1>4. t # op.table
  BY <1>2, <1>3
<1>5. op \in [pc : {"walk"}, top : Tables, table : Tables, req : Request]
  BY <1>2, <1>3 DEF TypeOK, Calls
<1>6. /\ op' \in [pc : {"walk"}, top : Tables, table : Tables, req : Request]
      /\ op'.pc = "walk" /\ op'.top = op.top /\ op'.table = t /\ op'.req = op.req
  BY <1>2, <1>5 DEF Walking
<1>7. TypeOK'
  <2>1. PtEntry(t, op.req.flags) \in Entry
    BY <1>3, PagesAssumption DEF PtEntry, Entry, Request
  <2>2. entry' \in [Tables -> [Index -> Entry]]
    BY <1>1, <1>3, <2>1, UnclearedType DEF TypeOK
  <2>3. level' \in [Tables -> 0 .. 3]
    BY <1>2, <1>3 DEF TypeOK
  <2>4. children' \in [Tables -> SUBSET Tables]
    BY <1>2, <1>3 DEF TypeOK
  <2> QED BY <2>2, <2>3, <2>4, <1>2, <1>3, <1>6 DEF TypeOK, Calls
<1>8. \A s, u \in Tables, i \in Index :
        Refers(s, i, u)' <=> Refers(s, i, u) \/ (s = op.table /\ i = Slot /\ u = t)
  BY NewTableRefers
<1>9. DescsAgree /\ OneParent /\ TopsFirst
  BY DEF IInv, Forest
<1>10. level'[t] = level[op.table] + 1 /\ \A s \in Tables : s # t => level'[s] = level[s]
  BY <1>2, <1>3 DEF TypeOK
<1>11. \A s, u \in Tables : u \in children[s] => s # t /\ u # t
  <2> SUFFICES ASSUME NEW s \in Tables, NEW u \in Tables, u \in children[s]
               PROVE  s # t /\ u # t
    OBVIOUS
  <2>1. level[u] = level[s] + 1 /\ \E i \in Index : Refers(s, i, u)
    BY <1>9 DEF DescsAgree
  <2>2. level[s] \in {1, 2}
    BY <2>1 DEF Refers
  <2> QED BY <2>1, <2>2, <1>2
<1>12. \A s \in Tables, i \in Index : ~ Refers(s, i, t)
  BY <1>9, <1>11 DEF DescsAgree
<1>13. DescsAgree'
  <2> SUFFICES ASSUME NEW s \in Tables, NEW u \in Tables
               PROVE  /\ u \in children'[s] <=> \E i \in Index : Refers(s, i, u)'
                      /\ u \in children'[s] => level'[u] = level'[s] + 1
    BY DEF DescsAgree
  <2>1. u \in children'[s] <=> u \in children[s] \/ (s = op.table /\ u = t)
    BY <1>2, <1>3 DEF TypeOK
  <2>2. u \in children[s] <=> \E i \in Index : Refers(s, i, u)
    BY <1>9 DEF DescsAgree
  <2>3. u \in children'[s] <=> \E i \in Index : Refers(s, i, u)'
    BY <1>3, <1>8, <2>1, <2>2
  <2>4. CASE u \in children[s]
    <3>1. s # t /\ u # t /\ level[u] = level[s] + 1
      BY <1>9, <1>11, <2>4 DEF DescsAgree
    <3> QED BY <3>1, <2>3, <1>10
  <2>5. CASE s = op.table /\ u = t
    BY <2>5, <2>3, <1>4, <1>10
  <2> QED BY <2>1, <2>3, <2>4, <2>5
<1>14. OneParent'
  BY <1>8, <1>9, <1>12 DEF OneParent
<1>15. TopsFirst' /\ FromTop'
  BY <1>2, <1>3, <1>6, <1>9, <1>10, PagesAssumption
    DEF TopsFirst, FromTop, Tops, TypeOK, IInv
<1>16. SamePath'
  <2>1. level'[op.table] \in {1, 2} /\ entry'[op.table][Slot].frame = t
    BY <1>3, <1>8 DEF Refers
  <2>2. Slot = op.req.va[level[op.table]]
    BY DEF Slot
  <2>3. CASE level[op.table] = 1
    <3>1. op.table = op.top
      BY <2>3, <1>2 DEF IInv, SamePath
    <3>2. level'[t] = 2 /\ Slot = op.req.va[1]
      BY <2>2, <2>3, <1>10
    <3>3. Refers(op.top, op.req.va[1], t)'
      BY <3>1, <3>2, <2>1, <1>6 DEF Refers
    <3> QED BY <3>2, <3>3, <1>6 DEF SamePath
  <2>4. CASE level[op.table] = 2
    <3>1. Refers(op.top, op.req.va[1], op.table)
      BY <2>4, <1>2 DEF IInv, SamePath
    <3>2. op.top \in Tables /\ op.req.va[1] \in Index
      BY <1>3, <1>5, PageIndices
    <3>3. level'[op.top] \in {1, 2} /\ entry'[op.top][op.req.va[1]].frame = op.table
      BY <3>1, <3>2, <1>3, <1>8 DEF Refers
    <3>4. level'[t] = 3 /\ Slot = op.req.va[2]
      BY <2>2, <2>4, <1>10
    <3>5. PICK u \in Tables : u = op.table
      BY <1>3
    <3>6. Refers(op.top, op.req.va[1], u)' /\ Refers(u, op.req.va[2], t)'
      BY <3>3, <3>4, <3>5, <2>1, <1>6 DEF Refers
    <3> QED BY <3>4, <3>6, <1>6 DEF SamePath
  <2> QED BY <2>3, <2>4, <1>3
<1> QED BY <1>7, <1>13, <1>14, <1>15, <1>16 DEF IInv, Forest

\* At the end of its way a call changes an entry, of a table of level 3.
LEMMA WriteEntryStep ==
  ASSUME IInv, WriteEntry
  PROVE  IInv'
<1>1. /\ op.pc = "walk" /\ level[op.table] = 3 /\ op' = Idle
      /\ entry' = [entry EXCEPT ![op.table][Slot] = Written(@, op.req)]
      /\ UNCHANGED <<level, children, wild, user>>
  BY DEF WriteEntry, AtLeaf
<1>2. TypeOK /\ op.table \in Tables /\ op.req \in Request /\ Slot \in Index
  BY <1>1, WalkingAt DEF IInv
<1>3. Written(entry[op.table][Slot], op.req) \in Entry
  BY <1>2, WrittenType DEF TypeOK
<1>4. TypeOK'
  BY <1>1, <1>2, <1>3 DEF TypeOK, Calls, Idle
<1>5. \A s, u \in Tables, i \in Index : Refers(s, i, u)' <=> Refers(s, i, u)
  BY <1>1, <1>2 DEF Refers, TypeOK
<1>6. DescsAgree /\ OneParent /\ TopsFirst
  BY DEF IInv, Forest
<1>7. DescsAgree' /\ OneParent' /\ TopsFirst'
  BY <1>1, <1>5, <1>6 DEF DescsAgree, OneParent, TopsFirst, Tops
<1> QED BY <1>1, <1>4, <1>7 DEF IInv, Forest, SamePath, FromTop, Idle

\* One step of any kind.
LEMMA NextIInv == IInv /\ [Next]_vars => IInv'
<1> SUFFICES ASSUME IInv, [Next]_vars PROVE IInv'
  OBVIOUS
<1>1. ASSUME NEW t \in Tables, UsrInit(t) PROVE IInv'
  BY <1>1, UsrInitStep
<1>2. CASE UsrInitFails \/ WalksOff
  BY <1>2, CallOver DEF UsrInitFails, WalksOff
<1>3. ASSUME NEW top \in Tops, NEW req \in Requests, Call(top, req) PROVE IInv'
  BY <1>3, CallStep
<1>4. ASSUME NEW t \in Tables, NewTable(t) PROVE IInv'
  BY <1>4, NewTableStep
<1>5. ASSUME NEW t \in Tables, Follow(t) PROVE IInv'
  BY <1>5, FollowStep
<1>6. CASE NoPage \/ NotFound
  BY <1>6, CallOver DEF NoPage, NotFound, Failed
<1>7. CASE WriteEntry
  BY <1>7, WriteEntryStep
<1>8. CASE Halted \/ UNCHANGED vars
  BY <1>8, OpOnly DEF Halted, vars, IInv, TypeOK, SamePath, FromTop, Refers, Tops
<1> QED BY <1>1, <1>2, <1>3, <1>4, <1>5, <1>6, <1>7, <1>8 DEF Next, Step

\* The tables are a forest, as long as the kernel runs.
THEOREM Invariance == Spec => []IInv
<1> QED BY InitIInv, NextIInv, PTL DEF Spec

\* Every variable keeps its type, and there are never more than three levels.
THEOREM TypeCorrect == Spec => []TypeOK
<1>1. IInv => TypeOK
  BY DEF IInv
<1> QED BY <1>1, Invariance, PTL

\* The descriptors that the code follows describe the entries that the MMU follows.
THEOREM DescriptorsAgree == Spec => []DescsAgree
<1>1. IInv => DescsAgree
  BY DEF IInv, Forest
<1> QED BY <1>1, Invariance, PTL

\* No table serves two entries, nor the kernel and the user.
THEOREM NoTableShared == Spec => []OneParent
<1>1. IInv => OneParent
  BY DEF IInv, Forest
<1> QED BY <1>1, Invariance, PTL

\* Where a call is, the MMU's walk for its page is too.
THEOREM CallsFollowTheMMU == Spec => []SamePath
<1>1. IInv => SamePath
  BY DEF IInv
<1> QED BY <1>1, Invariance, PTL

\* Each step of a call ends it or takes it one level down; there are three.
StepsDescend ==
  [][Step => op'.pc # "walk" \/ (level[op.table] < 3 /\ level'[op'.table] = level[op.table] + 1)]_vars

\* What of CallsReturn is safety: no call takes more than three steps.
THEOREM CallsAreShort == Spec => StepsDescend
<1>1. ASSUME IInv, Step
      PROVE  op'.pc # "walk" \/ (level[op.table] < 3 /\ level'[op'.table] = level[op.table] + 1)
  <2>1. ASSUME NEW t \in Tables, NewTable(t)
        PROVE  level[op.table] < 3 /\ level'[op'.table] = level[op.table] + 1
    <3>1. /\ op.pc = "walk" /\ level[op.table] # 3 /\ op'.table = t
          /\ level' = [level EXCEPT ![t] = level[op.table] + 1]
      BY <2>1 DEF NewTable, Descending, AtLeaf, Walking
    <3>2. level \in [Tables -> 0 .. 3] /\ level[op.table] \in {1, 2, 3}
      BY <1>1, <3>1, WalkingAt DEF IInv, TypeOK
    <3> QED BY <3>1, <3>2
  <2>2. ASSUME NEW t \in Tables, Follow(t)
        PROVE  level[op.table] < 3 /\ level'[op'.table] = level[op.table] + 1
    <3>1. /\ op.pc = "walk" /\ level[op.table] # 3 /\ op'.table = t /\ level' = level
          /\ t \in children[op.table]
      BY <2>2 DEF Follow, Descending, AtLeaf, Walking
    <3>2. level[op.table] \in {1, 2, 3} /\ op.table \in Tables
      BY <1>1, <3>1, WalkingAt DEF IInv
    <3> QED BY <1>1, <3>1, <3>2 DEF IInv, Forest, DescsAgree
  <2>3. CASE NoPage \/ NotFound \/ WalksOff \/ WriteEntry
    BY <2>3 DEF NoPage, NotFound, WalksOff, WriteEntry, Failed, Idle, Stopped
  <2> QED BY <1>1, <2>1, <2>2, <2>3 DEF Step
<1>2. IInv /\ [Next]_vars =>
        [Step => op'.pc # "walk"
                 \/ (level[op.table] < 3 /\ level'[op'.table] = level[op.table] + 1)]_vars
  BY <1>1
<1> QED BY <1>2, Invariance, PTL DEF Spec, StepsDescend

-----------------------------------------------------------------------------
(* What the MMU finds *)

\* The MMU's walk for page v from top looks at entry i of table s.
LooksAt(top, v, s, i) ==
  \/ s = top /\ i = v[1]
  \/ Refers(top, v[1], s) /\ i = v[2]
  \/ \E t \in Tables : Refers(top, v[1], t) /\ Refers(t, v[2], s) /\ i = v[3]

\* A walk only looks at tables that are described, each at its level.
LEMMA LooksAtTables ==
  ASSUME IInv, NEW top \in Tops, NEW v \in VPages, NEW s \in Tables, NEW i,
         LooksAt(top, v, s, i)
  PROVE  level[s] \in 1 .. 3 /\ i = v[level[s]]
<1>1. TypeOK /\ Forest
  BY DEF IInv
<1>2. CASE s = top /\ i = v[1]
  BY <1>1, <1>2 DEF Forest, TopsFirst
<1>3. CASE Refers(top, v[1], s) /\ i = v[2]
  <2>1. level[s] = 2
    BY <1>1, <1>3, WalkLevels DEF Refers
  <2> QED BY <2>1, <1>3
<1>4. ASSUME NEW t \in Tables, Refers(top, v[1], t), Refers(t, v[2], s), i = v[3]
      PROVE  level[s] \in 1 .. 3 /\ i = v[level[s]]
  <2>1. level[s] = 3
    BY <1>1, <1>4, WalkLevels DEF Refers
  <2> QED BY <2>1, <1>4
<1> QED BY <1>2, <1>3, <1>4 DEF LooksAt

\* If no entry of a described table changes but one, a walk finds something else
\* only if it looks there.
LEMMA WalkChanges ==
  ASSUME IInv, NEW top \in Tops, NEW v \in VPages, NEW s \in Tables, NEW i \in Index,
         \A u \in Tables, j \in Index :
           level[u] # 0 /\ ~ (u = s /\ j = i) => entry'[u][j] = entry[u][j],
         Walk(top, v)' # Walk(top, v)
  PROVE  LooksAt(top, v, s, i)
<1> SUFFICES ASSUME ~ LooksAt(top, v, s, i) PROVE Walk(top, v)' = Walk(top, v)
  OBVIOUS
<1>1. TypeOK /\ Forest /\ v[1] \in Index /\ v[2] \in Index /\ v[3] \in Index
  BY PageIndices DEF IInv
<1>2. top \in Tables /\ level[top] = 1
  BY <1>1, PagesAssumption DEF Forest, TopsFirst, Tops, TypeOK
<1>3. entry'[top][v[1]] = entry[top][v[1]]
  BY <1>1, <1>2 DEF LooksAt
<1>4. CASE entry[top][v[1]].frame \notin Tables
  BY <1>3, <1>4 DEF Walk
<1>5. CASE entry[top][v[1]].frame \in Tables
  <2>1. PICK t \in Tables : entry[top][v[1]].frame = t
    BY <1>5
  <2>2. Refers(top, v[1], t) /\ level[t] = 2
    BY <1>1, <2>1, WalkLevels
  <2>3. entry'[t][v[2]] = entry[t][v[2]]
    BY <1>1, <2>2 DEF LooksAt
  <2>4. CASE entry[t][v[2]].frame \notin Tables
    BY <1>3, <2>1, <2>3, <2>4 DEF Walk
  <2>5. CASE entry[t][v[2]].frame \in Tables
    <3>1. PICK u \in Tables : entry[t][v[2]].frame = u
      BY <2>5
    <3>2. Refers(t, v[2], u) /\ level[u] = 3
      BY <1>1, <2>1, <3>1, WalkLevels
    <3>3. entry'[u][v[3]] = entry[u][v[3]]
      BY <1>1, <2>2, <3>2 DEF LooksAt
    <3> QED BY <1>3, <2>1, <2>3, <3>1, <3>3 DEF Walk
  <2> QED BY <2>4, <2>5
<1> QED BY <1>4, <1>5

\* A walk ends at an entry of level 3, or where it is led nowhere.
LEMMA WalkEnds ==
  ASSUME IInv, NEW top \in Tops, NEW v \in VPages, NEW s \in Tables, NEW i,
         LooksAt(top, v, s, i), level[s] = 3 \/ entry[s][i].frame \notin Tables
  PROVE  Walk(top, v) = entry[s][i]
<1>1. CASE s = top /\ i = v[1]
  <2>1. entry[top][v[1]].frame \notin Tables
    BY <1>1 DEF IInv, Forest, TopsFirst
  <2> QED BY <1>1, <2>1 DEF Walk
<1>2. CASE Refers(top, v[1], s) /\ i = v[2]
  <2>1. level[s] = 2
    BY <1>2, WalkLevels DEF Refers, IInv
  <2>2. entry[top][v[1]].frame = s
    BY <1>2 DEF Refers
  <2>3. entry[s][v[2]].frame \notin Tables
    BY <1>2, <2>1
  <2> QED BY <1>2, <2>2, <2>3 DEF Walk
<1>3. ASSUME NEW t \in Tables, Refers(top, v[1], t), Refers(t, v[2], s), i = v[3]
      PROVE  Walk(top, v) = entry[s][i]
  <2>1. entry[top][v[1]].frame = t /\ entry[t][v[2]].frame = s
    BY <1>3 DEF Refers
  <2> QED BY <1>3, <2>1 DEF Walk
<1> QED BY <1>1, <1>2, <1>3 DEF LooksAt

\* An entry of level 3 is on the way of one page only.
LEMMA OneWay ==
  ASSUME IInv, NEW s \in Tables, NEW i, level[s] = 3,
         NEW top \in Tops, NEW v \in VPages, LooksAt(top, v, s, i),
         NEW root \in Tops, NEW w \in VPages, LooksAt(root, w, s, i)
  PROVE  top = root /\ v = w
<1>1. TypeOK /\ Forest /\ top \in Tables /\ root \in Tables
  BY PagesAssumption DEF IInv, TypeOK, Tops
<1>2. \A r \in Tops, p \in VPages :
        LooksAt(r, p, s, i) =>
          i = p[3] /\ \E t \in Tables : Refers(r, p[1], t) /\ Refers(t, p[2], s)
  <2> SUFFICES ASSUME NEW r \in Tops, NEW p \in VPages, LooksAt(r, p, s, i)
               PROVE  i = p[3] /\ \E t \in Tables : Refers(r, p[1], t) /\ Refers(t, p[2], s)
    OBVIOUS
  <2>1. s # r
    BY <1>1 DEF Forest, TopsFirst
  <2>2. ~ Refers(r, p[1], s)
    BY <1>1, WalkLevels DEF Refers
  <2> QED BY <2>1, <2>2 DEF LooksAt
<1>3. PICK t \in Tables : Refers(top, v[1], t) /\ Refers(t, v[2], s)
  BY <1>2
<1>4. PICK u \in Tables : Refers(root, w[1], u) /\ Refers(u, w[2], s)
  BY <1>2
<1>5. t = u /\ v[2] = w[2]
  BY <1>1, <1>3, <1>4, PageIndices DEF Forest, OneParent
<1>6. top = root /\ v[1] = w[1]
  BY <1>1, <1>3, <1>4, <1>5, PageIndices DEF Forest, OneParent
<1>7. v[3] = w[3]
  BY <1>2
<1> QED BY <1>5, <1>6, <1>7, PageByIndices

\* A call is on the MMU's way for its page.
LEMMA OnItsWay ==
  ASSUME IInv, op.pc = "walk"
  PROVE  op.top \in Tops /\ LooksAt(op.top, op.req.va, op.table, Slot)
BY DEF IInv, SamePath, FromTop, LooksAt, Slot, Refers

\* A new top table is in nobody's way.
LEMMA UsrInitChanges ==
  ASSUME IInv, NEW t \in Tables, UsrInit(t), NEW top \in Tops, NEW v \in VPages
  PROVE  Walk(top, v)' = Walk(top, v)
<1> SUFFICES ASSUME Walk(top, v)' # Walk(top, v) PROVE FALSE
  OBVIOUS
<1>1. level[t] = 0 /\ \E c \in Uncleared : entry' = [entry EXCEPT ![t] = c]
  BY DEF UsrInit
<1>2. \A u \in Tables, j \in Index : level[u] # 0 => entry'[u][j] = entry[u][j]
  BY <1>1 DEF IInv, TypeOK
<1>3. LooksAt(top, v, t, First)
  BY <1>2, WalkChanges, PagesAssumption
<1>4. level[t] \in 1 .. 3
  BY <1>3, LooksAtTables
<1> QED BY <1>1, <1>4

\* A new table is linked where no page went on.
LEMMA NewTableChanges ==
  ASSUME IInv, NEW t \in Tables, NewTable(t), NEW top \in Tops, NEW v \in VPages,
         Walk(top, v)' # Walk(top, v)
  PROVE  Walk(top, v) = Empty
<1>1. PICK c \in Uncleared :
        entry' = [entry EXCEPT ![t] = c, ![op.table][Slot] = PtEntry(t, op.req.flags)]
  BY DEF NewTable
<1>2. op.pc = "walk" /\ level[t] = 0 /\ entry[op.table][Slot] = Empty
  BY DEF NewTable, Descending, Pte
<1>3. op.table \in Tables /\ Slot \in Index /\ TypeOK
  BY <1>2, WalkingAt DEF IInv
<1>4. \A u \in Tables, j \in Index :
        level[u] # 0 /\ ~ (u = op.table /\ j = Slot) => entry'[u][j] = entry[u][j]
  BY <1>1, <1>2, <1>3 DEF TypeOK
<1>5. LooksAt(top, v, op.table, Slot)
  BY <1>3, <1>4, WalkChanges
<1> QED BY <1>2, <1>3, <1>5, WalkEnds, PagesAssumption DEF Empty

\* The last step of a call concerns the entry of its page alone.
LEMMA WriteEntryChanges ==
  ASSUME IInv, WriteEntry, NEW top \in Tops, NEW v \in VPages,
         Walk(top, v)' # Walk(top, v)
  PROVE  top = op.top /\ v = op.req.va
<1>1. /\ op.pc = "walk" /\ level[op.table] = 3
      /\ entry' = [entry EXCEPT ![op.table][Slot] = Written(@, op.req)]
  BY DEF WriteEntry, AtLeaf
<1>2. op.table \in Tables /\ Slot \in Index /\ op.req.va \in VPages /\ TypeOK
  BY <1>1, WalkingAt DEF IInv
<1>3. \A u \in Tables, j \in Index :
        level[u] # 0 /\ ~ (u = op.table /\ j = Slot) => entry'[u][j] = entry[u][j]
  BY <1>1, <1>2 DEF TypeOK
<1>4. LooksAt(top, v, op.table, Slot)
  BY <1>2, <1>3, WalkChanges
<1>5. op.top \in Tops /\ LooksAt(op.top, op.req.va, op.table, Slot)
  BY <1>1, OnItsWay
<1> QED BY <1>1, <1>2, <1>4, <1>5, OneWay

\* Whatever a call does, and however far it is, no page but its own stops
\* translating as it did, for any core and through either top table.
THEOREM NoOtherPage == Spec => OnlyItsPage
<1>1. ASSUME IInv, Next, NEW top \in Tops, NEW v \in VPages,
             Walk(top, v) # Empty, Walk(top, v)' # Walk(top, v)
      PROVE  op.pc = "walk" /\ top = op.top /\ v = op.req.va
  <2>1. CASE UNCHANGED entry
    BY <1>1, <2>1 DEF Walk
  <2>2. ASSUME NEW t \in Tables, UsrInit(t) PROVE FALSE
    BY <1>1, <2>2, UsrInitChanges
  <2>3. ASSUME NEW t \in Tables, NewTable(t) PROVE FALSE
    BY <1>1, <2>3, NewTableChanges
  <2>4. CASE WriteEntry
    BY <1>1, <2>4, WriteEntryChanges DEF WriteEntry, AtLeaf
  <2> QED
    BY <1>1, <2>1, <2>2, <2>3, <2>4
      DEF Next, Step, UsrInitFails, Call, Follow, NoPage, NotFound, WalksOff, Halted, vars
<1>2. IInv /\ [Next]_vars =>
        [\A top \in Tops, v \in VPages :
           Walk(top, v) # Empty /\ Walk(top, v)' # Walk(top, v)
             => op.pc = "walk" /\ top = op.top /\ v = op.req.va]_vars
  BY <1>1
<1> QED BY <1>2, Invariance, PTL DEF Spec, OnlyItsPage

\* The last step of a call makes the MMU find for its page what was asked for.
LEMMA WriteEntryWrites ==
  ASSUME IInv, WriteEntry, NEW top \in Tops, NEW v \in VPages,
         top = op.top, v = op.req.va
  PROVE  Walk(top, v)' = Written(Walk(top, v), op.req)
<1>1. /\ op.pc = "walk" /\ level[op.table] = 3
      /\ entry' = [entry EXCEPT ![op.table][Slot] = Written(@, op.req)]
  BY DEF WriteEntry, AtLeaf
<1>2. /\ op.table \in Tables /\ op.top \in Tables /\ Slot \in Index
      /\ TypeOK /\ Slot = op.req.va[3]
  BY <1>1, WalkingAt DEF IInv, Slot
<1>3. PICK t \in Tables : Refers(top, v[1], t) /\ Refers(t, v[2], op.table)
  BY <1>1 DEF IInv, SamePath
<1>4. entry'[op.table][v[3]] = Written(entry[op.table][v[3]], op.req)
  BY <1>1, <1>2 DEF TypeOK
<1>5. entry'[top] = entry[top] /\ entry'[t] = entry[t]
  BY <1>1, <1>2, <1>3 DEF Refers, TypeOK
<1>6. entry[top][v[1]].frame = t /\ entry[t][v[2]].frame = op.table
  BY <1>3 DEF Refers
<1> QED BY <1>2, <1>4, <1>5, <1>6 DEF Walk

\* A call that gets to the end has mapped its page, or has changed its attributes,
\* as the MMU sees it.
THEOREM CallsTakeEffect == Spec => TakesEffect
<1>1. IInv /\ [Next]_vars =>
        [\A top \in Tops, v \in VPages :
           WriteEntry /\ top = op.top /\ v = op.req.va
             => Walk(top, v)' = Written(Walk(top, v), op.req)]_vars
  BY WriteEntryWrites
<1> QED BY <1>1, Invariance, PTL DEF Spec, TakesEffect

-----------------------------------------------------------------------------
(* The tables implement the map *)

\* A walk ends at an entry.
LEMMA WalkType ==
  ASSUME TypeOK, NEW top \in Tops, NEW v \in VPages
  PROVE  Walk(top, v) \in Entry
<1>1. top \in Tables /\ v[1] \in Index /\ v[2] \in Index /\ v[3] \in Index
  BY PagesAssumption, PageIndices DEF Tops, TypeOK
<1>2. entry[top][v[1]] \in Entry /\ \A t \in Tables : entry[t][v[2]] \in Entry /\ entry[t][v[3]] \in Entry
  BY <1>1 DEF TypeOK
<1> QED BY <1>2 DEF Walk

\* A request means the same for both.
LEMMA ResultIsWritten ==
  ASSUME NEW e \in Entry, NEW req \in Request
  PROVE  Memory!Result(e, req) = Written(e, req)
BY DEF Memory!Result, Written, PtEntry, Entry, Request

\* The spaces are maps.
LEMMA SpacesAreMaps ==
  TypeOK => /\ Translations \in Memory!Maps(Tops)
            /\ DOMAIN Translations = Tops
            /\ \A top \in Tops, v \in VPages : Translations[top][v] = Walk(top, v)
<1> SUFFICES ASSUME TypeOK
             PROVE  /\ Translations \in Memory!Maps(Tops)
                    /\ DOMAIN Translations = Tops
                    /\ \A top \in Tops, v \in VPages : Translations[top][v] = Walk(top, v)
  OBVIOUS
<1>1. Translations \in [Tops -> [VPages -> Entry]]
  BY WalkType DEF Translations
<1> QED BY <1>1 DEF Translations, Memory!Maps

\* A table above level 3 is on the ways of pages of one space only.
LEMMA OneSpace ==
  ASSUME IInv, NEW s \in Tables, NEW i, level[s] \in {1, 2},
         NEW top \in Tops, NEW v \in VPages, LooksAt(top, v, s, i),
         NEW root \in Tops, NEW w \in VPages, LooksAt(root, w, s, i)
  PROVE  top = root
<1>1. TypeOK /\ Forest /\ top \in Tables /\ root \in Tables
  BY PagesAssumption DEF IInv, TypeOK, Tops
<1>2. \A r \in Tops, p \in VPages :
        LooksAt(r, p, s, i) =>
          IF level[s] = 1 THEN s = r ELSE Refers(r, p[1], s)
  <2> SUFFICES ASSUME NEW r \in Tops, NEW p \in VPages, LooksAt(r, p, s, i)
               PROVE  IF level[s] = 1 THEN s = r ELSE Refers(r, p[1], s)
    OBVIOUS
  <2>1. level[r] = 1
    BY <1>1 DEF Forest, TopsFirst
  <2>2. Refers(r, p[1], s) => level[s] = 2
    BY <1>1, WalkLevels DEF Refers
  <2>3. \A t \in Tables : Refers(r, p[1], t) /\ Refers(t, p[2], s) => level[s] = 3
    BY <1>1, WalkLevels DEF Refers
  <2> QED BY <2>1, <2>2, <2>3 DEF LooksAt
<1>3. CASE level[s] = 1
  BY <1>2, <1>3
<1>4. CASE level[s] = 2
  <2>1. Refers(top, v[1], s) /\ Refers(root, w[1], s)
    BY <1>2, <1>4
  <2> QED BY <1>1, <2>1, PageIndices DEF Forest, OneParent
<1> QED BY <1>3, <1>4

\* Through a new table, a page reads as what was in it.
LEMMA NewTableReads ==
  ASSUME IInv, NEW t \in Tables, NewTable(t), NEW top \in Tops, NEW v \in VPages,
         Walk(top, v)' # Walk(top, v)
  PROVE  /\ top = op.top
         /\ Walk(top, v) = Empty
         /\ Walk(top, v)' \in {Empty} \union Junk
<1>1. PICK c \in Uncleared :
        entry' = [entry EXCEPT ![t] = c, ![op.table][Slot] = PtEntry(t, op.req.flags)]
  BY DEF NewTable
<1>2. op.pc = "walk" /\ level[t] = 0 /\ level[op.table] # 3 /\ Pte = Empty
  BY DEF NewTable, Descending, AtLeaf
<1>3. /\ op.table \in Tables /\ Slot \in Index /\ TypeOK /\ Forest
      /\ op.req.va \in VPages /\ level[op.table] \in {1, 2}
      /\ v[1] \in Index /\ v[2] \in Index /\ v[3] \in Index
  BY <1>2, WalkingAt, PageIndices DEF IInv
<1>4. \A u \in Tables, j \in Index :
        level[u] # 0 /\ ~ (u = op.table /\ j = Slot) => entry'[u][j] = entry[u][j]
  BY <1>1, <1>2, <1>3 DEF TypeOK
<1>5. LooksAt(top, v, op.table, Slot)
  BY <1>3, <1>4, WalkChanges
<1>6. op.top \in Tops /\ LooksAt(op.top, op.req.va, op.table, Slot)
  BY <1>2, OnItsWay
<1>7. top = op.top
  BY <1>3, <1>5, <1>6, OneSpace
<1>8. entry'[t] = c /\ entry'[op.table][Slot].frame = t
  <2>1. t # op.table
    BY <1>2, <1>3
  <2>2. entry'[t] = c /\ entry'[op.table][Slot] = PtEntry(t, op.req.flags)
    BY <1>1, <1>3, <2>1 DEF TypeOK
  <2> QED BY <2>2 DEF PtEntry
<1>9. \A j \in Index : c[j] \in {Empty} \union Junk /\ c[j].frame \notin Tables
  BY UnclearedLeadsNowhere DEF Uncleared
<1>10. top \in Tables /\ level[top] = 1
  BY <1>3, PagesAssumption DEF Forest, TopsFirst, Tops, TypeOK
<1>11. CASE op.table = top /\ Slot = v[1]
  <2>1. Walk(top, v)' = c[v[2]]
    BY <1>3, <1>8, <1>9, <1>11 DEF Walk
  <2> QED BY <1>3, <1>7, <1>9, <2>1, NewTableChanges
<1>12. CASE Refers(top, v[1], op.table) /\ Slot = v[2]
  <2>1. level[op.table] = 2
    BY <1>3, <1>12, WalkLevels DEF Refers
  <2>2. entry'[top][v[1]].frame = op.table
    BY <1>3, <1>4, <1>10, <1>12, <2>1 DEF Refers
  <2>3. Walk(top, v)' = c[v[3]]
    BY <1>3, <1>8, <1>12, <2>2 DEF Walk
  <2> QED BY <1>3, <1>7, <1>9, <2>3, NewTableChanges
<1>13. ASSUME NEW u \in Tables, Refers(top, v[1], u), Refers(u, v[2], op.table)
       PROVE  FALSE
  <2>1. level[op.table] = 3
    BY <1>3, <1>13, WalkLevels DEF Refers
  <2> QED BY <2>1, <1>2
<1> QED BY <1>5, <1>11, <1>12, <1>13 DEF LooksAt

\* The translations change with the entries alone, and a new user.
LEMMA SameEntriesSameMap ==
  ASSUME UNCHANGED <<entry, user>>
  PROVE  UNCHANGED Translations
BY DEF Translations, Tops, Walk

\* What is mapped at first.
LEMMA InitMap == Init => Memory!Init
<1> SUFFICES ASSUME Init PROVE Memory!Init
  OBVIOUS
<1>1. PICK c \in Uncleared, d \in Uncleared : entry = BootEntries(c, d)
  BY DEF Init
<1>2. TypeOK /\ Tops = {L1} /\ Calling \in {Memory!Idle, Memory!Stopped}
  BY InitIInv DEF IInv, Tops, Init, Calling, Idle, Stopped, Memory!Idle, Memory!Stopped
<1>3. /\ entry[L1] = [c EXCEPT ![First] = PtEntry(L2, KernelFlags)]
      /\ entry[L2] = [d EXCEPT ![First] = PtEntry(L3, KernelFlags)]
      /\ \A i \in Index : entry[L3][i] = PtEntry(BootFrame[i], KernelFlags)
  BY <1>1, PagesAssumption DEF BootEntries
<1>4. \A v \in VPages :
        Walk(L1, v) \in IF v \in DOMAIN BootPages THEN {BootPages[v]} ELSE {Empty} \union Junk
  <2> TAKE v \in VPages
  <2>1. v[1] \in Index /\ v[2] \in Index /\ v[3] \in Index
    BY PageIndices
  <2>2. c \in [Index -> Entry] /\ d \in [Index -> Entry]
    BY UnclearedType
  <2>3. CASE v[1] # First
    <3>1. entry[L1][v[1]] = c[v[1]] /\ c[v[1]].frame \notin Tables
      BY <1>3, <2>1, <2>2, <2>3, UnclearedLeadsNowhere
    <3>2. Walk(L1, v) = c[v[1]]
      BY <3>1 DEF Walk
    <3> QED BY <2>1, <2>3, <3>2 DEF BootPages, Uncleared
  <2>4. CASE v[1] = First /\ v[2] # First
    <3>1. entry[L1][v[1]].frame = L2
      BY <1>3, <2>1, <2>2, <2>4 DEF PtEntry
    <3>2. entry[L2][v[2]] = d[v[2]] /\ d[v[2]].frame \notin Tables
      BY <1>3, <2>1, <2>2, <2>4, UnclearedLeadsNowhere
    <3>3. Walk(L1, v) = d[v[2]]
      BY <3>1, <3>2, PagesAssumption DEF Walk
    <3> QED BY <2>1, <2>4, <3>3 DEF BootPages, Uncleared
  <2>5. CASE v[1] = First /\ v[2] = First
    <3>1. entry[L1][v[1]].frame = L2 /\ entry[L2][v[2]].frame = L3
      BY <1>3, <2>1, <2>2, <2>5 DEF PtEntry
    <3>2. Walk(L1, v) = PtEntry(BootFrame[v[3]], KernelFlags)
      BY <1>3, <2>1, <3>1, PagesAssumption DEF Walk
    <3> QED BY <2>5, <3>2 DEF BootPages
  <2> QED BY <2>3, <2>4, <2>5
<1>5. /\ Translations \in Memory!Maps({L1})
      /\ \A v \in VPages : Translations[L1][v] = Walk(L1, v)
  BY <1>2, SpacesAreMaps
<1> QED BY <1>2, <1>4, <1>5 DEF Memory!Init

\* The user's table makes an empty space.
LEMMA UsrInitMakesSpace ==
  ASSUME IInv, NEW t \in Tables, UsrInit(t)
  PROVE  Memory!NewSpace(t)
<1>1. PICK c \in Uncleared : entry' = [entry EXCEPT ![t] = c]
  BY DEF UsrInit
<1>2. /\ op = Idle /\ op' = Idle /\ user = {} /\ user' = {t}
      /\ level[t] = 0 /\ TypeOK /\ Forest /\ TypeOK' /\ L1 \in Tables
  BY UsrInitStep, PagesAssumption DEF UsrInit, IInv
<1>3. t # L1 /\ Tops = {L1} /\ Tops' = {L1, t}
  BY <1>2 DEF Tops, Forest, TopsFirst
<1>4. Calling = Memory!Idle /\ Calling' = Memory!Idle
  BY <1>2 DEF Calling, Idle, Memory!Idle
<1>5. /\ DOMAIN Translations = {L1}
      /\ \A v \in VPages : Translations[L1][v] = Walk(L1, v)
      /\ Translations \in Memory!Maps({L1})
  BY <1>2, <1>3, SpacesAreMaps
<1>6. /\ Translations' \in Memory!Maps({L1, t})
      /\ \A top \in {L1, t}, v \in VPages : Translations'[top][v] = Walk(top, v)'
  <2>1. (/\ Translations \in Memory!Maps(Tops)
         /\ DOMAIN Translations = Tops
         /\ \A top \in Tops, v \in VPages : Translations[top][v] = Walk(top, v))'
    BY <1>2, SpacesAreMaps, PTL
  <2> QED BY <1>3, <2>1
<1>7. Translations'[L1] = Translations[L1]
  <2>1. \A v \in VPages : Walk(L1, v)' = Walk(L1, v)
    BY <1>3, UsrInitChanges
  <2>2. /\ Translations[L1] \in [VPages -> Entry] /\ Translations'[L1] \in [VPages -> Entry]
    BY <1>5, <1>6 DEF Memory!Maps
  <2> QED BY <1>5, <1>6, <2>1, <2>2
<1>8. \A v \in VPages : Walk(t, v)' \in {Empty} \union Junk
  <2> TAKE v \in VPages
  <2>1. entry'[t][v[1]] = c[v[1]] /\ c[v[1]].frame \notin Tables /\ v[1] \in Index
    BY <1>1, <1>2, UnclearedLeadsNowhere, PageIndices DEF TypeOK
  <2>2. Walk(t, v)' = c[v[1]]
    BY <2>1 DEF Walk
  <2> QED BY <2>1, <2>2 DEF Uncleared
<1> QED BY <1>3, <1>4, <1>5, <1>6, <1>7, <1>8 DEF Memory!NewSpace

\* A new table makes room in the space of the call.
LEMMA NewTableGrows ==
  ASSUME IInv, NEW t \in Tables, NewTable(t)
  PROVE  Memory!Grow
<1>1. /\ op.pc = "walk" /\ user' = user /\ op' = Walking(op.top, t, op.req)
      /\ TypeOK /\ TypeOK' /\ Tops' = Tops
  BY NewTableStep DEF NewTable, Descending, IInv, Tops
<1>2. Calling = [pc |-> "walk", space |-> op.top, req |-> op.req] /\ Calling' = Calling
  BY <1>1 DEF Calling, Walking
<1>3. /\ Translations \in Memory!Maps(Tops) /\ DOMAIN Translations = Tops
      /\ \A top \in Tops, v \in VPages : Translations[top][v] = Walk(top, v)
  BY <1>1, SpacesAreMaps
<1>4. /\ Translations' \in Memory!Maps(Tops)
      /\ \A top \in Tops, v \in VPages : Translations'[top][v] = Walk(top, v)'
  <2>1. (/\ Translations \in Memory!Maps(Tops)
         /\ DOMAIN Translations = Tops
         /\ \A top \in Tops, v \in VPages : Translations[top][v] = Walk(top, v))'
    BY <1>1, SpacesAreMaps, PTL
  <2> QED BY <1>1, <2>1
<1>5. \A top \in Tops, v \in VPages :
        Walk(top, v)' # Walk(top, v) =>
          top = op.top /\ Walk(top, v) = Empty /\ Walk(top, v)' \in {Empty} \union Junk
  BY NewTableReads
<1> QED BY <1>2, <1>3, <1>4, <1>5 DEF Memory!Grow

\* The last write of a call is the whole of it.
LEMMA WriteEntryFinishes ==
  ASSUME IInv, WriteEntry
  PROVE  Memory!Finish
<1>1. /\ op.pc = "walk" /\ op' = Idle /\ user' = user
      /\ TypeOK /\ TypeOK' /\ Tops' = Tops /\ op.top \in Tops
      /\ op.req \in Request /\ op.req.va \in VPages
  BY WriteEntryStep, WalkingAt DEF WriteEntry, AtLeaf, IInv, FromTop, Tops
<1>2. /\ Calling.pc = "walk" /\ Calling.space = op.top /\ Calling.req = op.req
      /\ Calling' = Memory!Idle
  BY <1>1 DEF Calling, Idle, Memory!Idle
<1>3. /\ Translations \in [Tops -> [VPages -> Entry]]
      /\ \A top \in Tops, v \in VPages : Translations[top][v] = Walk(top, v)
  BY <1>1, SpacesAreMaps DEF Memory!Maps
<1>4. /\ Translations' \in [Tops -> [VPages -> Entry]]
      /\ \A top \in Tops, v \in VPages : Translations'[top][v] = Walk(top, v)'
  <2>1. (/\ Translations \in Memory!Maps(Tops)
         /\ DOMAIN Translations = Tops
         /\ \A top \in Tops, v \in VPages : Translations[top][v] = Walk(top, v))'
    BY <1>1, SpacesAreMaps, PTL
  <2> QED BY <1>1, <2>1 DEF Memory!Maps
<1>5. \A top \in Tops, v \in VPages :
        ~ (top = op.top /\ v = op.req.va) => Walk(top, v)' = Walk(top, v)
  BY WriteEntryChanges
<1>6. \A top \in Tops, v \in VPages :
        top = op.top /\ v = op.req.va => Walk(top, v)' = Memory!Result(Walk(top, v), op.req)
  BY <1>1, WriteEntryWrites, WalkType, ResultIsWritten
<1>8. Translations' =
        [Translations EXCEPT ![op.top][op.req.va] =
           Memory!Result(Translations[op.top][op.req.va], op.req)]
  <2> DEFINE new == [Translations EXCEPT ![op.top][op.req.va] =
                       Memory!Result(Translations[op.top][op.req.va], op.req)]
  <2>1. \A top \in Tops, v \in VPages :
          new[top][v] = IF top = op.top /\ v = op.req.va
                        THEN Memory!Result(Translations[top][v], op.req)
                        ELSE Translations[top][v]
    BY <1>1, <1>3
  <2>2. \A top \in Tops, v \in VPages : Translations'[top][v] = new[top][v]
    BY <1>3, <1>4, <1>5, <1>6, <2>1
  <2>3. Memory!Result(Translations[op.top][op.req.va], op.req) \in Entry
    BY <1>1, <1>3, <1>4, <1>6
  <2>4. new \in [Tops -> [VPages -> Entry]]
    BY <1>1, <1>3, <2>3
  <2> QED BY <1>4, <2>2, <2>4
<1> QED BY <1>1, <1>2, <1>8 DEF Memory!Finish

\* A call that ends early has changed nothing; only the user's mappings may end
\* so and leave the kernel running.
LEMMA FailureIsAllowed ==
  ASSUME IInv, op.pc = "walk", UNCHANGED <<entry, user>>,
         op' = Failed \/ op' = Stopped
  PROVE  Memory!Fail
<1>1. /\ Calling.pc = "walk" /\ Calling.space = op.top /\ Calling.req = op.req
  BY DEF Calling
<1>2. UNCHANGED Translations
  BY SameEntriesSameMap
<1>3. CASE op' = Stopped
  <2>1. Calling' = Memory!Stopped
    BY <1>3 DEF Calling, Stopped, Memory!Stopped
  <2> QED BY <1>1, <1>2, <2>1 DEF Memory!Fail
<1>4. CASE op' = Idle /\ op' = Failed
  <2>1. Calling' = Memory!Idle
    BY <1>4 DEF Calling, Idle, Memory!Idle
  <2>2. op.req.do = "map" /\ op.top \in user
    BY <1>4 DEF Failed, Idle, Stopped
  <2>3. op.top # L1
    BY <2>2 DEF IInv, Forest, TopsFirst
  <2> QED BY <1>1, <1>2, <2>1, <2>2, <2>3 DEF Memory!Fail
<1> QED BY <1>3, <1>4 DEF Failed

\* Every step of pt.c, of a call on its way or at its end, is a step of the map or
\* leaves it as it is.
THEOREM Implements == Spec => ImplementsMap
<1>1. IInv /\ [Next]_vars => [Memory!Next]_(Memory!memory)
  <2> SUFFICES ASSUME IInv, [Next]_vars PROVE [Memory!Next]_(Memory!memory)
    OBVIOUS
  <2>1. ASSUME NEW t \in Tables, UsrInit(t) PROVE Memory!Next
    BY <2>1, UsrInitMakesSpace DEF Memory!Next
  <2>2. CASE UsrInitFails
    <3>1. UNCHANGED Translations /\ DOMAIN Translations = {L1}
      BY <2>2, SameEntriesSameMap DEF UsrInitFails, Translations, Tops
    <3>2. Calling = Memory!Idle /\ Calling' = Memory!Stopped
      BY <2>2 DEF UsrInitFails, Calling, Idle, Stopped, Memory!Idle, Memory!Stopped
    <3> QED BY <3>1, <3>2 DEF Memory!Next, Memory!NoSpace
  <2>3. ASSUME NEW top \in Tops, NEW req \in Requests, Call(top, req) PROVE Memory!Next
    <3>1. UNCHANGED Translations /\ DOMAIN Translations = Tops
      BY <2>3, SameEntriesSameMap DEF Call, Translations
    <3>2. /\ Calling = Memory!Idle
          /\ Calling' = [pc |-> "walk", space |-> top, req |-> req]
      BY <2>3 DEF Call, Calling, Idle, Walking, Memory!Idle
    <3>3. Memory!Begin(top, req)
      BY <3>1, <3>2 DEF Memory!Begin
    <3> QED BY <3>1, <3>3 DEF Memory!Next
  <2>4. ASSUME NEW t \in Tables, NewTable(t) PROVE Memory!Next
    BY <2>4, NewTableGrows DEF Memory!Next
  <2>5. ASSUME NEW t \in Tables, Follow(t) PROVE UNCHANGED Memory!memory
    <3>1. UNCHANGED Translations /\ UNCHANGED Calling
      BY <2>5, SameEntriesSameMap DEF Follow, Descending, Calling, Walking
    <3> QED BY <3>1 DEF Memory!memory
  <2>6. CASE NoPage \/ NotFound \/ WalksOff
    BY <2>6, FailureIsAllowed DEF NoPage, NotFound, WalksOff, Descending, Memory!Next
  <2>7. CASE WriteEntry
    BY <2>7, WriteEntryFinishes DEF Memory!Next
  <2>8. CASE Halted \/ UNCHANGED vars
    <3>1. UNCHANGED Translations /\ UNCHANGED Calling
      BY <2>8, SameEntriesSameMap DEF Halted, vars, Calling
    <3> QED BY <3>1 DEF Memory!memory
  <2> QED BY <2>1, <2>2, <2>3, <2>4, <2>5, <2>6, <2>7, <2>8 DEF Next, Step
<1> QED BY <1>1, InitMap, Invariance, PTL DEF Spec, ImplementsMap, Memory!Spec

=============================================================================
