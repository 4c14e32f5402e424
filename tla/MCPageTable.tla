---------------------------- MODULE MCPageTable ----------------------------
(* Tables of two entries, eight pages; mappings are identities, as the kernel's are. *)
EXTENDS PageTable

CONSTANTS t1, t2, t3, t4, t5, t6, none, stray, valid, readonly

MCTables == {t1, t2, t3, t4, t5, t6}

\* The frame of page <<i, j, k>>.
FrameOf(v) == 4 * v[1] + 2 * v[2] + v[3]

MCFrames == MCTables \union {none, stray} \union 0 .. 7

MCBootFrame == [i \in {0, 1} |-> i]

MCJunk == {[frame |-> stray, attrs |-> {valid}]}

\* Pages in the same table, in different tables, and under different entries of
\* the top table.
MCPages == {<<0, 0, 0>>, <<0, 1, 0>>, <<0, 1, 1>>, <<1, 0, 1>>}

MCRequests ==
  {[do |-> "map", va |-> v, frame |-> FrameOf(v), flags |-> {valid}, attrs |-> {}] :
     v \in MCPages}
  \union
  {[do |-> d, va |-> v, frame |-> none, flags |-> {valid}, attrs |-> {readonly}] :
     d \in {"set", "clear"}, v \in {<<0, 0, 1>>}}

=============================================================================
