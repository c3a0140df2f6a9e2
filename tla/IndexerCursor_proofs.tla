------------------------- MODULE IndexerCursor_proofs -------------------------
(***************************************************************************)
(* Proofs about IndexerCursor, for every confirmation depth, head margin,   *)
(* window, range, chain height and number of reorganisations: the state is   *)
(* well-typed, and no block above the first cursor is passed over.           *)
(***************************************************************************)
EXTENDS IndexerCursor, TLAPS

USE DEF Heights, NoCursor

(***************************************************************************)
(* A tick runs only with a cursor in Postgres, and a cursor is set exactly   *)
(* from the first write on.                                                 *)
(***************************************************************************)
HasCursor ==
  /\ origin = NoCursor <=> Cursor = NoCursor
  /\ next # 0 => pg # NoCursor

IInv == TypeOK /\ HasCursor /\ NoBlockIsSkipped

-----------------------------------------------------------------------------
\* Where the operators of a tick lie.

LEMMA CursorType == ASSUME TypeOK PROVE Cursor \in NoCursor..MaxHeight
  BY DEF TypeOK, Cursor

LEMMA FloorType ==
  ASSUME TypeOK, NEW latest \in Heads, NEW floor \in Floors(latest)
  PROVE  latest \in 0..head /\ floor \in 0..MaxHeight
  BY CursorConstants DEF TypeOK, Heads, Floors

LEMMA WindowType ==
  ASSUME TypeOK, NEW latest \in Heads, NEW floor \in Floors(latest),
         Cursor # NoCursor,
         StartBlock(floor) =< latest - HEAD_SAFETY_MARGIN
  PROVE  /\ StartBlock(floor) \in 1..MaxHeight
         /\ StartBlock(floor) =< Cursor + 1
         /\ WindowEnd(StartBlock(floor), latest - HEAD_SAFETY_MARGIN)
              \in StartBlock(floor)..MaxHeight
<1>1. Cursor \in 0..MaxHeight /\ floor \in 0..MaxHeight /\ latest \in 0..MaxHeight
  BY CursorType, FloorType, CursorConstants DEF TypeOK
<1>2. /\ StartBlock(floor) \in Int /\ 1 =< StartBlock(floor)
      /\ StartBlock(floor) =< Cursor + 1
  BY <1>1, CursorConstants DEF StartBlock, Lesser
<1>3. latest - HEAD_SAFETY_MARGIN \in Int /\ latest - HEAD_SAFETY_MARGIN =< MaxHeight
  BY <1>1, CursorConstants
<1>4. WindowEnd(StartBlock(floor), latest - HEAD_SAFETY_MARGIN) \in StartBlock(floor)..MaxHeight
  BY <1>2, <1>3, CursorConstants DEF WindowEnd, Lesser
<1>5. QED
  BY <1>2, <1>3, <1>4, CursorConstants

LEMMA ChunkType ==
  ASSUME TypeOK, next # 0
  PROVE  ChunkEnd \in next..end /\ ChunkEnd \in 1..MaxHeight
  BY CursorConstants DEF TypeOK, ChunkEnd, Lesser

\* What a scan makes of its blocks: none of them is left unmet, nor is a block
\* that was met before.
LEMMA ScanMeets ==
  ASSUME TypeOK, NEW bad, TakeIn(bad)
  PROVE  /\ seen' \in [Heights -> {"no", "in", "raised", "gone"}]
         /\ \A b \in Heights : b \in Chunk \/ seen[b] # "no" => seen'[b] # "no"
  BY DEF TypeOK, TakeIn, Chunk

\* A reorganisation forgets only blocks that the watcher is not past.
LEMMA ReorgKeeps ==
  ASSUME TypeOK, NEW h \in Heights, Reorg(h)
  PROVE  /\ seen' \in [Heights -> {"no", "in", "raised", "gone"}]
         /\ \A b \in Heights : Passed(b) /\ seen[b] # "no" => seen'[b] # "no"
  BY DEF TypeOK, Reorg

-----------------------------------------------------------------------------
LEMMA InitOK == Init => IInv
  BY CursorConstants DEF Init, IInv, TypeOK, HasCursor, NoBlockIsSkipped, Cursor

LEMMA Step == IInv /\ [Next]_vars => IInv'
<1> SUFFICES ASSUME IInv, [Next]_vars PROVE IInv'
  OBVIOUS
<1> USE CursorConstants
<1>1. TypeOK /\ HasCursor /\ NoBlockIsSkipped
  BY DEF IInv
<1>2. CASE Grow
  <2>1. TypeOK' /\ HasCursor'
    BY <1>1, <1>2 DEF Grow, TypeOK, HasCursor, Cursor, stores, window, history
  <2>2. NoBlockIsSkipped'
    BY <1>1, <1>2 DEF Grow, NoBlockIsSkipped, Passed, Cursor, stores, window, history
  <2>3. QED
    BY <2>1, <2>2 DEF IInv
<1>3. ASSUME NEW h \in Heights, Reorg(h) PROVE IInv'
  <2>1. /\ seen' \in [Heights -> {"no", "in", "raised", "gone"}]
        /\ \A b \in Heights : Passed(b) /\ seen[b] # "no" => seen'[b] # "no"
    BY <1>1, <1>3, ReorgKeeps
  <2>2. TypeOK' /\ HasCursor'
    BY <1>1, <1>3, <2>1 DEF Reorg, TypeOK, HasCursor, Cursor, stores, window
  <2>3. NoBlockIsSkipped'
    BY <1>1, <1>3, <2>1 DEF Reorg, NoBlockIsSkipped, Passed, Cursor, stores, window
  <2>4. QED
    BY <2>2, <2>3 DEF IInv
<1>4. ASSUME NEW h \in Heights, AdvanceFinality(h) PROVE IInv'
  <2>1. TypeOK' /\ HasCursor'
    BY <1>1, <1>4 DEF AdvanceFinality, TypeOK, HasCursor, Cursor, stores, window, history
  <2>2. NoBlockIsSkipped'
    BY <1>1, <1>4 DEF AdvanceFinality, NoBlockIsSkipped, Passed, Cursor, stores, window, history
  <2>3. QED
    BY <2>1, <2>2 DEF IInv
<1>5. ASSUME NEW latest \in Heads, NEW floor \in Floors(latest), FirstRun(floor)
      PROVE  IInv'
  <2>1. floor \in 0..MaxHeight
    BY <1>1, FloorType
  <2>2. TypeOK' /\ HasCursor'
    BY <1>1, <1>5, <2>1
    DEF FirstRun, Persist, TypeOK, HasCursor, Cursor, chain, stores, window
  <2>3. NoBlockIsSkipped'
    BY <1>1, <1>5, <2>1
    DEF FirstRun, Persist, TypeOK, HasCursor, NoBlockIsSkipped, Passed, Cursor, chain, stores, window
  <2>4. QED
    BY <2>2, <2>3 DEF IInv
<1>6. ASSUME NEW latest \in Heads, NEW floor \in Floors(latest), BeginScan(latest, floor)
      PROVE  IInv'
  <2>1. Cursor \in 0..MaxHeight
    BY <1>1, <1>6, CursorType DEF BeginScan
  <2>2. pg' = Cursor /\ Cursor' = Cursor
    BY <1>6, <2>1 DEF BeginScan, Cursor
  <2>3. /\ next' \in 0..MaxHeight /\ next' =< Cursor + 1
        /\ end' \in next'..MaxHeight
    BY <1>1, <1>6, <2>1, WindowType DEF BeginScan, TypeOK, window
  <2>4. TypeOK' /\ HasCursor'
    BY <1>1, <1>6, <2>1, <2>2, <2>3 DEF BeginScan, TypeOK, HasCursor, chain, history
  <2>5. NoBlockIsSkipped'
    BY <1>1, <1>6, <2>1, <2>2, <2>3 DEF BeginScan, NoBlockIsSkipped, Passed, chain, history
  <2>6. QED
    BY <2>4, <2>5 DEF IInv
<1>7. ASSUME NEW bad \in SUBSET Chunk, ScanChunk(bad) PROVE IInv'
  <2>1. ChunkEnd \in next..end /\ ChunkEnd \in 1..MaxHeight
    BY <1>1, <1>7, ChunkType DEF ScanChunk
  <2>2. /\ seen' \in [Heights -> {"no", "in", "raised", "gone"}]
        /\ \A b \in Heights : b \in Chunk \/ seen[b] # "no" => seen'[b] # "no"
    BY <1>1, <1>7, ScanMeets DEF ScanChunk
  <2>3. pg # NoCursor /\ Cursor = pg /\ Cursor' \in {pg, ChunkEnd} /\ pg' = Cursor'
    BY <1>1, <1>7, <2>1 DEF ScanChunk, Persist, HasCursor, Cursor, stores
  <2>4. TypeOK' /\ HasCursor'
    BY <1>1, <1>7, <2>1, <2>2, <2>3
    DEF ScanChunk, Persist, TypeOK, HasCursor, chain, stores
  <2>5. NoBlockIsSkipped'
    <3>1. SUFFICES ASSUME NEW b \in Heights, origin # NoCursor, origin < b, Passed(b)'
                   PROVE  seen'[b] # "no"
      BY <1>7 DEF ScanChunk, NoBlockIsSkipped
    <3>2. next' \in {0, ChunkEnd + 1}
      BY <1>7 DEF ScanChunk
    <3>3. Passed(b) \/ b =< ChunkEnd
      BY <1>1, <2>1, <2>3, <3>1, <3>2 DEF Passed, TypeOK
    <3>4. Passed(b) \/ b \in Chunk
      BY <1>1, <2>1, <3>3 DEF Passed, Chunk, TypeOK
    <3>5. QED
      BY <1>1, <2>2, <3>1, <3>4 DEF NoBlockIsSkipped
  <2>6. QED
    BY <2>4, <2>5 DEF IInv
<1>8. CASE TickFails
  <2>1. TypeOK' /\ HasCursor'
    BY <1>1, <1>8 DEF TickFails, TypeOK, HasCursor, Cursor, chain, stores, history
  <2>2. NoBlockIsSkipped'
    BY <1>1, <1>8 DEF TickFails, TypeOK, NoBlockIsSkipped, Passed, Cursor, chain, stores, history
  <2>3. QED
    BY <2>1, <2>2 DEF IInv
<1>9. CASE UNCHANGED vars
  <2>1. TypeOK' /\ HasCursor'
    BY <1>1, <1>9 DEF vars, TypeOK, HasCursor, Cursor, chain, stores, window, history
  <2>2. NoBlockIsSkipped'
    BY <1>1, <1>9 DEF vars, NoBlockIsSkipped, Passed, Cursor, chain, stores, window, history
  <2>3. QED
    BY <2>1, <2>2 DEF IInv
<1>10. QED
  BY <1>2, <1>3, <1>4, <1>5, <1>6, <1>7, <1>8, <1>9 DEF Next, TickBegin

-----------------------------------------------------------------------------
(***************************************************************************)
(* The cursor, the window and the first cursor stay within the chain, and a  *)
(* cursor that only Redis has is gone once Postgres has one.                *)
(***************************************************************************)
THEOREM TypeCorrect == Spec => []TypeOK
<1>1. IInv => TypeOK
  BY DEF IInv
<1>2. QED
  BY <1>1, InitOK, Step, PTL DEF Spec

(***************************************************************************)
(* Above its first cursor the watcher is past no block that no scan has met, *)
(* whatever stores refuse, wherever ticks die, for every window and range.   *)
(***************************************************************************)
THEOREM NothingIsSkipped == Spec => []NoBlockIsSkipped
<1>1. IInv => NoBlockIsSkipped
  BY DEF IInv
<1>2. QED
  BY <1>1, InitOK, Step, PTL DEF Spec
=============================================================================
