-------------------------------- MODULE Indexer --------------------------------
(***************************************************************************)
(* The event indexer (indexer/scanner.ts, indexer/backfill.ts and its job  *)
(* in jobs/index.ts) for one contract, against a chain that reorganises.   *)
(*                                                                         *)
(* A scan is a poll, or a backfill from a block of the operator's choice.  *)
(* Its calls to the node and to the database are separate steps, but for   *)
(* the reads it starts with, of the latest block, of the cursor or of the  *)
(* hash of the block before the first one: a poll that outlives its job,   *)
(* and a backfill, run beside the next poll.                               *)
(***************************************************************************)
EXTENDS Naturals, Sequences

CONSTANTS
  Scans,          \* scans that may run at the same time
  Txs,            \* transactions with a log of the contract
  NoTx,           \* a block without one
  StartBlock,     \* indexerStartBlock
  BackfillBlocks, \* arguments of --from-block
  Confirmations,  \* indexerConfirmations
  Window,         \* indexerMaxWindowBlocks
  Faults,         \* what the environment may do: see below
  MaxBlocks,      \* bound: length of the chain
  MaxReorgs,      \* bound: reorganisations
  MaxFaults       \* bound: failed calls, crashes, and backfills

ASSUME BlocksAssumption ==
  /\ StartBlock \in Nat \ {0}
  /\ BackfillBlocks \subseteq {n \in Nat : n >= StartBlock}
  /\ Confirmations \in Nat /\ Window \in Nat \ {0}

(* "torn": confirmed blocks are reorganised while a scan runs, or while the*)
(* cursor is behind the rows; "gap": a backfill starts beyond the first    *)
(* block that was not scanned; "mask": a backfill starts while the stored  *)
(* hash is off the chain; "overlap": a poll starts then, beside another.   *)
ASSUME FaultsAssumption == Faults \subseteq {"torn", "gap", "mask", "overlap"}
ASSUME NoTxAssumption == NoTx \notin Txs
ASSUME BoundsAssumption ==
  MaxBlocks \in Nat \ {0} /\ MaxReorgs \in Nat /\ MaxFaults \in Nat

VARIABLES
  chain,     \* the canonical blocks 1, 2, ...
  reorgs,    \* reorganisations so far
  events,    \* rows of events
  cursor,    \* the chain_cursor row
  pc,        \* where each scan is
  scan,      \* its local variables
  faults

db    == <<events, cursor>>
world == <<chain, reorgs>>
vars  == <<world, db, pc, scan, faults>>

(* A block is told by its height and the fork it was made on: that is its  *)
(* hash, here without the height.                                          *)
Fork  == 0 .. MaxReorgs
Block == [hash : Fork, tx : Txs \cup {NoTx}]
Event == [tx : Txs, number : 1 .. MaxBlocks, hash : Fork]
Cursor == [last : 0 .. MaxBlocks, hash : Fork]

NoCursor == [last |-> 0, hash |-> MaxReorgs + 1]

Locals == [replace : BOOLEAN,           \* replaceScannedWindows
           start : 1 .. MaxBlocks, target : 0 .. MaxBlocks,
           at : Cursor,                 \* the local cursor
           logs : SUBSET Event,         \* answer of getLogs
           hash : Fork]                 \* of the last block of the window,
                                        \* or of the block rewound to

Idle == [replace |-> FALSE, start |-> 1, target |-> 0, at |-> [last |-> 0, hash |-> 0],
         logs |-> {}, hash |-> 0]

TypeOK ==
  /\ chain \in Seq(Block) /\ Len(chain) <= MaxBlocks
  /\ reorgs \in Fork
  /\ events \subseteq Event
  /\ cursor = NoCursor \/ (cursor \in Cursor /\ cursor.last >= StartBlock - 1)
  /\ pc \in [Scans -> {"idle", "loop", "rewind", "rewound", "scan", "logs",
                       "block", "window"}]
  /\ scan \in [Scans -> Locals]
  /\ faults \in 0 .. MaxFaults

Init ==
  /\ chain = <<>> /\ reorgs = 0
  /\ events = {} /\ cursor = NoCursor
  /\ pc = [s \in Scans |-> "idle"]
  /\ scan = [s \in Scans |-> Idle]
  /\ faults = 0

Minimum(a, b) == IF a < b THEN a ELSE b
Maximum(a, b) == IF a > b THEN a ELSE b

-------------------------------------------------------------------------------
(* The chain.                                                              *)

Hash(n) == IF n = 0 THEN 0 ELSE chain[n].hash

(* Saturating at zero, as maxBigint in the code.                           *)
Confirmed == Maximum(Len(chain), Confirmations) - Confirmations

(* The stored hash is on the chain.                                        *)
Canonical == cursor # NoCursor /\ cursor.hash = Hash(cursor.last)

LogsIn(from, to) ==
  {[tx |-> chain[n].tx, number |-> n, hash |-> chain[n].hash] :
     n \in {m \in from .. to : chain[m].tx # NoTx}}

Included == {chain[n].tx : n \in 1 .. Len(chain)} \ {NoTx}

MineBlock ==
  /\ Len(chain) < MaxBlocks
  /\ \E tx \in (Txs \ Included) \cup {NoTx} :
       chain' = Append(chain, [hash |-> reorgs, tx |-> tx])
  /\ UNCHANGED <<reorgs, db, pc, scan, faults>>

(* No scan relies on an answer it has, and no scan that fell behind has    *)
(* moved the cursor back below rows that are in the table.                 *)
Calm ==
  /\ \A s \in Scans : pc[s] = "idle"
  /\ \A e \in events : e.number <= cursor.last

(* The last blocks are replaced by as many of another fork; a transaction  *)
(* may move to another block or disappear.                                 *)
Reorg(depth) ==
  /\ reorgs < MaxReorgs
  /\ depth \in 1 .. Len(chain)
  /\ depth > Confirmations => (Calm \/ "torn" \in Faults) /\ depth <= Confirmations + Window
  /\ LET kept == Len(chain) - depth
         free == Txs \ {chain[n].tx : n \in 1 .. kept}
     IN  \E fork \in [kept + 1 .. Len(chain) -> free \cup {NoTx}] :
           /\ \A m, n \in DOMAIN fork : fork[m] = fork[n] => m = n \/ fork[m] = NoTx
           /\ chain' = [n \in 1 .. Len(chain) |->
                          IF n <= kept THEN chain[n]
                                       ELSE [hash |-> reorgs + 1, tx |-> fork[n]]]
  /\ reorgs' = reorgs + 1
  /\ UNCHANGED <<db, pc, scan, faults>>

-------------------------------------------------------------------------------
(* runIndexerOnce and scanContract.                                        *)

Begin(s, replace, start, at) ==
  /\ pc' = [pc EXCEPT ![s] = "loop"]
  /\ scan' = [scan EXCEPT ![s] = [replace |-> replace, start |-> start, target |-> Confirmed,
                                  at |-> at, logs |-> {}, hash |-> 0]]

StartPoll(s) ==
  /\ pc[s] = "idle" /\ Confirmed >= StartBlock
  /\ Canonical \/ "overlap" \in Faults \/ \A r \in Scans : pc[r] = "idle"
  /\ Begin(s, FALSE, StartBlock,
           IF cursor = NoCursor
             THEN [last |-> StartBlock - 1, hash |-> Hash(StartBlock - 1)]
             ELSE cursor)
  /\ UNCHANGED <<world, db, faults>>

StartBackfill(s, from) ==
  /\ pc[s] = "idle" /\ Confirmed >= from /\ faults < MaxFaults
  /\ "gap" \in Faults \/ (cursor # NoCursor /\ from <= cursor.last + 1)
  /\ "mask" \in Faults \/ Canonical
  /\ Begin(s, TRUE, from, [last |-> from - 1, hash |-> Hash(from - 1)])
  /\ faults' = faults + 1
  /\ UNCHANGED <<world, db>>

Done(s) ==
  /\ pc[s] = "loop" /\ scan[s].at.last >= scan[s].target
  /\ pc' = [pc EXCEPT ![s] = "idle"]
  /\ scan' = [scan EXCEPT ![s] = Idle]
  /\ UNCHANGED <<world, db, faults>>

(* Mutant: the boundary is never compared.                                 *)
boundaryNeedsRescan_Never(at) == FALSE

(* The parent hash of the first block of the window is that of the block   *)
(* the chain has before it now.                                            *)
boundaryNeedsRescan(at) == Hash(at.last) # at.hash

CheckBoundary(s) ==
  /\ pc[s] = "loop" /\ scan[s].at.last < scan[s].target
  /\ pc' = [pc EXCEPT ![s] =
              IF boundaryNeedsRescan(scan[s].at) THEN "rewind" ELSE "scan"]
  /\ UNCHANGED <<world, db, scan, faults>>

(* Mutant: the rewind does not stop at the start block.                    *)
rewindTo_Past(s) == Maximum(scan[s].at.last + 1, Window) - Window

rewindTo(s) ==
  Maximum(scan[s].start, Maximum(scan[s].at.last + 1, Window) - Window)

getPreviousBlockHash(s) ==
  /\ pc[s] = "rewind"
  /\ pc' = [pc EXCEPT ![s] = "rewound"]
  /\ scan' = [scan EXCEPT ![s].hash = Hash(rewindTo(s) - 1)]
  /\ UNCHANGED <<world, db, faults>>

Outside(from, to) == {e \in events : e.number \notin from .. to}

(* Local and stored cursor together; the next window starts there.         *)
Advance(s, last, hash) ==
  /\ cursor' = [last |-> last, hash |-> hash]
  /\ scan' = [scan EXCEPT ![s].at = cursor', ![s].logs = {}, ![s].hash = 0]
  /\ pc' = [pc EXCEPT ![s] = "loop"]

(* Mutant: the rows of the window are left for the rescan to overwrite.    *)
rewindCursorWindow_KeepsRows(s) ==
  /\ pc[s] = "rewound"
  /\ Advance(s, rewindTo(s) - 1, scan[s].hash)
  /\ UNCHANGED <<world, events, faults>>

(* Mutant: the rewound cursor keeps the hash that did not match.           *)
rewindCursorWindow_KeepsHash(s) ==
  /\ pc[s] = "rewound"
  /\ events' = Outside(rewindTo(s), scan[s].at.last)
  /\ Advance(s, rewindTo(s) - 1, scan[s].at.hash)
  /\ UNCHANGED <<world, faults>>

rewindCursorWindow(s) ==
  /\ pc[s] = "rewound"
  /\ events' = Outside(rewindTo(s), scan[s].at.last)
  /\ Advance(s, rewindTo(s) - 1, scan[s].hash)
  /\ UNCHANGED <<world, faults>>

(* Mutant: the window runs past the confirmed block.                       *)
toBlock_Unconfirmed(s) == Minimum(scan[s].at.last + Window, Len(chain))

toBlock(s) == Minimum(scan[s].at.last + Window, scan[s].target)

(* getLogs and getBlock are sent together and answered in any order.       *)
getLogs(s) ==
  /\ pc[s] \in {"scan", "block"}
  /\ pc' = [pc EXCEPT ![s] = IF pc[s] = "scan" THEN "logs" ELSE "window"]
  /\ scan' = [scan EXCEPT ![s].logs = LogsIn(scan[s].at.last + 1, toBlock(s))]
  /\ UNCHANGED <<world, db, faults>>

getBlock(s) ==
  /\ pc[s] \in {"scan", "logs"}
  /\ pc' = [pc EXCEPT ![s] = IF pc[s] = "scan" THEN "block" ELSE "window"]
  /\ scan' = [scan EXCEPT ![s].hash = Hash(toBlock(s))]
  /\ UNCHANGED <<world, db, faults>>

(* One transaction: a backfill first deletes the window; rows are upserted *)
(* by transaction and log index; the cursor is written as it is, forwards  *)
(* or back.                                                                *)
CommitWindow(s) ==
  /\ pc[s] = "window"
  /\ LET rows == IF scan[s].replace
                   THEN Outside(scan[s].at.last + 1, toBlock(s)) ELSE events
         found == {e.tx : e \in scan[s].logs}
     IN  events' = {e \in rows : e.tx \notin found} \cup scan[s].logs
  /\ Advance(s, toBlock(s), scan[s].hash)
  /\ UNCHANGED <<world, faults>>

(* A call fails, the job expires with its process, the process dies.       *)
Abort(s) ==
  /\ pc[s] # "idle" /\ faults < MaxFaults
  /\ faults' = faults + 1
  /\ pc' = [pc EXCEPT ![s] = "idle"]
  /\ scan' = [scan EXCEPT ![s] = Idle]
  /\ UNCHANGED <<world, db>>

-------------------------------------------------------------------------------
Step(s) ==
  \/ StartPoll(s) \/ Done(s) \/ CheckBoundary(s)
  \/ getPreviousBlockHash(s) \/ rewindCursorWindow(s)
  \/ getLogs(s) \/ getBlock(s) \/ CommitWindow(s)

Next ==
  \/ MineBlock
  \/ \E depth \in 1 .. MaxBlocks : Reorg(depth)
  \/ \E s \in Scans :
       \/ Step(s) \/ Abort(s)
       \/ \E from \in BackfillBlocks : StartBackfill(s, from)

(* The poll is a cron job and a scan that runs goes on.                    *)
Spec == Init /\ [][Next]_vars /\ \A s \in Scans : WF_vars(Step(s))

-------------------------------------------------------------------------------
(* While the stored hash is on the chain, activity, auditor and disclosure *)
(* read exactly the events of the chain up to the cursor: nothing is       *)
(* missed, nothing of an abandoned fork is left (README of the API: a      *)
(* mismatch "can rewind and rescan the previous window").                  *)
IndexIsCanonical ==
  Canonical => {e \in events : e.number <= cursor.last} = LogsIn(StartBlock, cursor.last)

(* Nothing is stored or counted as scanned before it is confirmed, however *)
(* long ago a scan took its target.                                        *)
OnlyConfirmed ==
  /\ cursor.last <= Confirmed
  /\ \A e \in events : e.number <= Confirmed

(* A scan that is behind catches up, through rewinds, failures and scans   *)
(* that move the cursor back, and what it then has is on the chain.        *)
CatchesUp ==
  cursor.last < Confirmed /\ Confirmed >= StartBlock
    ~> cursor.last = Confirmed /\ Canonical
===============================================================================
