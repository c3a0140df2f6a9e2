----------------------------- MODULE IndexerCursor -----------------------------
(***************************************************************************)
(* How the watcher of payment_indexer.py walks the chain: the cursor in its *)
(* two stores, the window of a tick and its chunks, against a chain that     *)
(* reorganises, nodes that lag, stores that refuse a write and ticks that    *)
(* fail or die anywhere.  What becomes of the logs of a block is the subject *)
(* of SettlementIndexer; here a block has been taken in or it has not.       *)
(***************************************************************************)
EXTENDS Integers

CONSTANTS
  Confirmations,       \* settings.indexer_confirmations
  HEAD_SAFETY_MARGIN,
  MAX_BLOCKS_PER_TICK,
  MaxRange,            \* settings.indexer_getlogs_max_range
  MaxHeight,           \* bound: the highest block
  MaxForks             \* bound: reorganisations

ASSUME CursorConstants ==
  /\ Confirmations \in Nat /\ HEAD_SAFETY_MARGIN \in Nat
  /\ MAX_BLOCKS_PER_TICK \in Nat \ {0} /\ MaxRange \in Nat \ {0}
  /\ MaxHeight \in Nat \ {0} /\ MaxForks \in Nat

VARIABLES
  head, finalized,  \* the chain's tip and its finalized height
  forks,            \* bound: reorganisations so far
  pg, redis,        \* indexer_cursors.last_block; and what Redis holds, for as
                    \* long as it is read: while Postgres has no cursor
  next, end,        \* chunk_start and end_block of a tick; next = 0 without one
  origin,           \* history: where the cursor was first set
  seen              \* history: of each block as it is now, that no scan has met it
                    \* ("no"), that it is taken in, that its ingest raised, or that
                    \* the watcher is past it but met another one, or none ("gone")

chain   == <<head, finalized, forks>>
stores  == <<pg, redis>>
window  == <<next, end>>
history == <<origin, seen>>
vars    == <<chain, stores, window, history>>

Heights  == 1..MaxHeight
NoCursor == -1

TypeOK ==
  /\ head \in 0..MaxHeight /\ finalized \in 0..head
  /\ forks \in 0..MaxForks
  /\ pg \in NoCursor..MaxHeight /\ redis \in NoCursor..MaxHeight
  /\ next \in 0..MaxHeight /\ end \in 0..MaxHeight /\ next =< end
  /\ origin \in NoCursor..MaxHeight
  /\ seen \in [Heights -> {"no", "in", "raised", "gone"}]
  /\ pg = NoCursor \/ redis = NoCursor

Init ==
  /\ head \in 0..MaxHeight /\ finalized \in 0..head
  /\ forks = 0
  /\ pg = NoCursor /\ redis = NoCursor
  /\ next = 0 /\ end = 0
  /\ origin = NoCursor
  /\ seen = [b \in Heights |-> "no"]

\* The stores are asked in this order; what only Redis has is a cursor too.
\* (A faulty variant: what only Redis has is not.)
PostgresOnly == pg
Cursor == IF pg # NoCursor THEN pg ELSE redis

Lesser(m, n) == IF m =< n THEN m ELSE n

-----------------------------------------------------------------------------
\* The chain.
Grow ==
  /\ head < MaxHeight /\ head' = head + 1
  /\ UNCHANGED <<finalized, forks, stores, window, history>>

\* The watcher is past a block, and goes back to it only within the tail.
Passed(b) == b =< Cursor \/ b < next

\* The blocks from h on are replaced; the new branch may still be shorter.
Reorg(h) ==
  /\ finalized < h /\ h =< head /\ forks < MaxForks
  /\ forks' = forks + 1
  /\ head' \in {h - 1, head}
  /\ seen' = [b \in Heights |-> IF b < h THEN seen[b]
                                ELSE IF Passed(b) \/ seen[b] # "no" THEN "gone" ELSE "no"]
  /\ UNCHANGED <<finalized, stores, window, origin>>

AdvanceFinality(h) ==
  /\ finalized < h /\ h =< head
  /\ finalized' = h
  /\ UNCHANGED <<head, forks, stores, window, history>>

-----------------------------------------------------------------------------
\* The cursor.

\* _set_last_block: Postgres takes the write, or only Redis, or neither; a refusal
\* may also be a lost answer.
\* (Assumed: Redis keeps what only it has until Postgres takes a write.)
Persist(b) ==
  \/ pg' = b /\ redis' = NoCursor
  \/ pg' = pg /\ redis' = IF pg = NoCursor THEN b ELSE NoCursor
  \/ UNCHANGED stores

\* No cursor in either store: start from the final head.  (A configured start
\* block is left out.)
FirstRun(floor) ==
  /\ next = 0 /\ Cursor = NoCursor
  /\ Persist(floor)
  /\ origin' = IF stores' = stores \/ origin # NoCursor THEN origin ELSE floor
  /\ UNCHANGED <<chain, window, seen>>

\* Faulty variants: always from the final head; always on from the cursor.
FromTheTail(floor) == floor + 1
FromTheCursor(floor) == Cursor + 1

\* The unfinalized tail once more, or on from the cursor, whichever is lower.
StartBlock(floor) == Lesser(Cursor + 1, floor + 1)

\* (A faulty variant: past the safe head.)
Unclipped(start, safe) == start + MAX_BLOCKS_PER_TICK - 1
WindowEnd(start, safe) == Lesser(safe, start + MAX_BLOCKS_PER_TICK - 1)

\* What a legacy cursor in Redis says is adopted by Postgres first.
BeginScan(latest, floor) ==
  /\ next = 0 /\ Cursor # NoCursor
  /\ pg' = Cursor /\ redis' = NoCursor
  /\ LET start == StartBlock(floor)
         safe  == latest - HEAD_SAFETY_MARGIN
     IN  \/ start =< safe /\ next' = start /\ end' = WindowEnd(start, safe)
         \/ start > safe /\ UNCHANGED window
  /\ UNCHANGED <<chain, history>>

\* The answers of nodes that may be a block behind; without a finalized tag (an
\* outage, or depth mode) the tail begins at the confirmation depth.
Heads  == {head, head - 1} \cap Nat
Floors(latest) == {finalized, finalized - 1, latest - Confirmations} \cap Nat

TickBegin(latest, floor) == FirstRun(floor) \/ BeginScan(latest, floor)

-----------------------------------------------------------------------------
\* A chunk.
ChunkEnd == Lesser(end, next + MaxRange - 1)

Chunk == (next..ChunkEnd) \cap Heights

\* A node answers for the blocks that exist.  An ingest that raises is logged, and
\* the chunk goes on without it; a block that is in stays in.
TakeIn(bad) ==
  seen' = [b \in Heights |-> CASE b \notin Chunk \/ seen[b] = "in" -> seen[b]
                               [] b \in Chunk /\ b > head          -> "gone"
                               [] b \in bad                        -> "raised"
                               [] OTHER                            -> "in"]

\* The tick goes on once a store has taken the chunk's end, if only Redis; it ends
\* with its window, with a write that neither took, or anywhere.
ScanChunk(bad) ==
  /\ next # 0
  /\ TakeIn(bad)
  /\ Persist(ChunkEnd)
  /\ \/ next' = 0 /\ end' = 0
     \/ ChunkEnd < end /\ next' = ChunkEnd + 1 /\ end' = end
  /\ UNCHANGED <<chain, origin>>

\* The node refuses the range, or the process is stopped.
TickFails ==
  /\ next # 0 /\ next' = 0 /\ end' = 0
  /\ UNCHANGED <<chain, stores, history>>

-----------------------------------------------------------------------------
Next ==
  \/ Grow
  \/ \E h \in Heights : Reorg(h) \/ AdvanceFinality(h)
  \/ \E latest \in Heads : \E floor \in Floors(latest) : TickBegin(latest, floor)
  \/ \E bad \in SUBSET Chunk : ScanChunk(bad)
  \/ TickFails

Spec == Init /\ [][Next]_vars

\* With the finalized tag: the chain grows, every so often a tick sees it as it is,
\* and neither the nodes nor Postgres nor a block's ingest refuses for ever a
\* chunk that the window goes on from, or ends with.
Works(b, on) ==
  /\ b \in Chunk /\ ScanChunk({}) /\ pg' = ChunkEnd
  /\ on <=> next' # 0
  /\ on <=> ChunkEnd < end

Fairness ==
  /\ WF_vars(Grow)
  /\ SF_vars(TickBegin(head, finalized))
  /\ \A b \in Heights : \A on \in BOOLEAN : SF_vars(Works(b, on))

LiveSpec == Spec /\ Fairness

-----------------------------------------------------------------------------
(***************************************************************************)
(* No block is passed over: above the first cursor, a scan has met every      *)
(* block that the watcher is past, as it is now or as it was then, through    *)
(* refused writes, dead ticks, an adopted cursor, moving windows and lagging  *)
(* nodes.                                                                    *)
(***************************************************************************)
NoBlockIsSkipped ==
  origin # NoCursor => \A b \in Heights : origin < b /\ Passed(b) => seen[b] # "no"

(***************************************************************************)
(* "The next tick resumes at the exact failure point instead of retrying the *)
(* same oversized range forever" (payment_indexer.py:1545-1548): the watcher *)
(* gets to every finalized block, though a tick may re-scan the tail from    *)
(* its first block and stop before its last.                                *)
(***************************************************************************)
FinalBlocksAreReached ==
  \A b \in 1..(MaxHeight - HEAD_SAFETY_MARGIN) :
    origin \in 0..(b - 1) /\ b =< finalized ~> seen[b] # "no"

(***************************************************************************)
(* A log whose ingest raised is only logged and passed, and a block that was *)
(* replaced is behind the watcher.  What makes up for both is the re-scan of *)
(* the tail: the block is taken in after all, if the windows of the ticks    *)
(* reach it, unless it is finalized first.                                  *)
(***************************************************************************)
TailIsRescanned ==
  \A b \in 1..(MaxHeight - HEAD_SAFETY_MARGIN) :
    seen[b] \in {"raised", "gone"} /\ b \in finalized + 1 .. finalized + MAX_BLOCKS_PER_TICK
      ~> seen[b] = "in" \/ b =< finalized
=============================================================================
