----------------------------- MODULE Indexer_Proofs -----------------------------
(***************************************************************************)
(* For every chain, window, number of scans and faults: the indexer keeps  *)
(* its types and stores nothing that is not confirmed; and while confirmed *)
(* blocks are reorganised only under an index that rests, and no scan      *)
(* leaves a gap, its rows are those of the chain its cursor is on.         *)
(*                                                                         *)
(* OnlyConfirmed is not inductive: a scan writes answers and cursors it    *)
(* took some steps ago. Bounded says the same of everything a scan holds;  *)
(* it survives because the chain never gets shorter. IndexIsCanonical      *)
(* needs CInv, which says what a scan has read of a chain that may since   *)
(* have been reorganised, and how far below its cursor it will rewind.     *)
(***************************************************************************)
EXTENDS Indexer, SequenceTheorems, TLAPS

(* What a scan holds reaches no further than the confirmed block, and no   *)
(* further back than its own start.                                        *)
Bounded ==
  \A s \in Scans :
    /\ scan[s].target <= Confirmed
    /\ scan[s].start - 1 <= scan[s].at.last /\ scan[s].at.last <= Confirmed
    /\ \A e \in scan[s].logs : e.number <= Confirmed
    /\ pc[s] # "idle" => StartBlock <= scan[s].start
    /\ pc[s] \in {"scan", "logs", "block", "window"} => scan[s].at.last < scan[s].target

IInv == TypeOK /\ OnlyConfirmed /\ Bounded

-------------------------------------------------------------------------------
(* What the operators return in a state of the right type.                 *)

LEMMA ConfirmedBounds ==
  ASSUME TypeOK
  PROVE  /\ Len(chain) \in Nat /\ Confirmed \in Nat
         /\ Confirmed <= Len(chain) /\ Len(chain) <= MaxBlocks
BY LenProperties, BlocksAssumption, BoundsAssumption DEF TypeOK, Confirmed, Maximum

LEMMA ChainIsTyped ==
  ASSUME TypeOK, NEW n \in 1 .. Len(chain)
  PROVE  chain[n] \in Block
BY ElementOfSeq DEF TypeOK

LEMMA HashIsTyped ==
  ASSUME TypeOK, NEW n \in 0 .. Len(chain)
  PROVE  Hash(n) \in Fork
<1>1. CASE n = 0
  BY <1>1, BoundsAssumption DEF Hash, Fork
<1>2. CASE n # 0
  <2>1. n \in 1 .. Len(chain)
    BY <1>2, ConfirmedBounds
  <2> QED BY <1>2, <2>1, ChainIsTyped DEF Hash, Block
<1> QED BY <1>1, <1>2

(* Logs of blocks that are confirmed are events of confirmed blocks.       *)
LEMMA LogsAreBounded ==
  ASSUME TypeOK, NEW from \in Nat \ {0}, NEW to \in Nat, to <= Confirmed
  PROVE  /\ LogsIn(from, to) \subseteq Event
         /\ \A e \in LogsIn(from, to) : e.number <= Confirmed
<1>1. ASSUME NEW n \in from .. to, chain[n].tx # NoTx
      PROVE  /\ [tx |-> chain[n].tx, number |-> n, hash |-> chain[n].hash] \in Event
             /\ n <= Confirmed
  <2>1. n \in 1 .. Len(chain) /\ n \in 1 .. MaxBlocks /\ n <= Confirmed
    BY ConfirmedBounds, BoundsAssumption
  <2>2. chain[n] \in Block
    BY <2>1, ChainIsTyped
  <2> QED BY <1>1, <2>1, <2>2 DEF Block, Event
<1> QED BY <1>1 DEF LogsIn

(* A rewind stays between the start of the scan and its cursor.            *)
LEMMA RewindBounds ==
  ASSUME IInv, NEW s \in Scans
  PROVE  /\ rewindTo(s) \in Nat \ {0} /\ scan[s].start <= rewindTo(s)
         /\ rewindTo(s) - 1 <= scan[s].at.last
         /\ rewindTo(s) - 1 <= Confirmed
         /\ rewindTo(s) - 1 \in 0 .. MaxBlocks
         /\ rewindTo(s) - 1 \in 0 .. Len(chain)
<1>1. /\ scan[s].start \in Nat \ {0} /\ scan[s].at.last \in Nat
      /\ scan[s].start - 1 <= scan[s].at.last /\ scan[s].at.last <= Confirmed
  BY BoundsAssumption DEF IInv, TypeOK, Bounded, Locals, Cursor
<1>2. /\ rewindTo(s) \in Nat \ {0} /\ scan[s].start <= rewindTo(s)
      /\ rewindTo(s) - 1 <= scan[s].at.last
  BY <1>1, BlocksAssumption DEF rewindTo, Maximum
<1> QED BY <1>1, <1>2, ConfirmedBounds, BoundsAssumption DEF IInv

(* A window ends behind its cursor and at a confirmed block.               *)
LEMMA WindowBounds ==
  ASSUME IInv, NEW s \in Scans, pc[s] \in {"scan", "logs", "block", "window"}
  PROVE  /\ toBlock(s) \in Nat /\ scan[s].at.last < toBlock(s)
         /\ toBlock(s) <= Confirmed
         /\ toBlock(s) \in 0 .. MaxBlocks /\ toBlock(s) \in 0 .. Len(chain)
<1>1. /\ scan[s].target \in Nat /\ scan[s].at.last \in Nat
      /\ scan[s].target <= Confirmed /\ scan[s].at.last < scan[s].target
  BY BoundsAssumption DEF IInv, TypeOK, Bounded, Locals, Cursor
<1>2. /\ toBlock(s) \in Nat /\ scan[s].at.last < toBlock(s)
      /\ toBlock(s) <= scan[s].target
  BY <1>1, BlocksAssumption DEF toBlock, Minimum
<1> QED BY <1>1, <1>2, ConfirmedBounds, BoundsAssumption DEF IInv

-------------------------------------------------------------------------------
LEMMA InitGood == Init => IInv
<1> SUFFICES ASSUME Init PROVE IInv
  OBVIOUS
<1>1. chain \in Seq(Block) /\ Len(chain) = 0 /\ Confirmed = 0
  BY EmptySeq, BlocksAssumption DEF Init, Confirmed, Maximum
<1>2. Idle \in Locals
  BY BoundsAssumption DEF Idle, Locals, Cursor, Fork
<1>3. TypeOK
  BY <1>1, <1>2, BoundsAssumption DEF Init, TypeOK, Fork, NoCursor
<1> QED BY <1>1, <1>3 DEF IInv, Init, OnlyConfirmed, Bounded, NoCursor, Idle

LEMMA IdleIsTyped == Idle \in Locals /\ Idle.logs = {}
BY BoundsAssumption DEF Idle, Locals, Cursor, Fork

(* A scan that ends, or fails, forgets what it held.                       *)
LEMMA ForgetGood ==
  ASSUME IInv, NEW s \in Scans, UNCHANGED <<world, db>>, faults' \in 0 .. MaxFaults,
         pc' = [pc EXCEPT ![s] = "idle"], scan' = [scan EXCEPT ![s] = Idle]
  PROVE  IInv'
<1>1. TypeOK'
  BY IdleIsTyped DEF IInv, TypeOK, world, db
<1>2. Confirmed' = Confirmed
  BY DEF Confirmed, world
<1>3. OnlyConfirmed'
  BY <1>2 DEF IInv, OnlyConfirmed, db
<1>4. Bounded'
  BY <1>2, ConfirmedBounds DEF IInv, TypeOK, Bounded, Idle
<1> QED BY <1>1, <1>3, <1>4 DEF IInv

(* A scan begins at a confirmed block, or one behind it.                   *)
LEMMA BeginGood ==
  ASSUME IInv, NEW s \in Scans, UNCHANGED <<world, db>>, faults' \in 0 .. MaxFaults,
         NEW replace \in BOOLEAN, NEW start \in Nat, StartBlock <= start,
         start <= Confirmed, NEW at \in Cursor, start - 1 <= at.last,
         at.last <= Confirmed, Begin(s, replace, start, at)
  PROVE  IInv'
<1> DEFINE new == [replace |-> replace, start |-> start, target |-> Confirmed, at |-> at,
                   logs |-> {}, hash |-> 0]
<1>1. start \in 1 .. MaxBlocks /\ Confirmed \in 0 .. MaxBlocks
  BY ConfirmedBounds, BlocksAssumption, BoundsAssumption DEF IInv
<1>2. /\ new \in Locals /\ new.target = Confirmed /\ new.start = start
      /\ new.at = at /\ new.logs = {}
  BY <1>1, BoundsAssumption DEF Locals, Fork
<1>3. scan' = [scan EXCEPT ![s] = new] /\ pc' = [pc EXCEPT ![s] = "loop"]
  BY DEF Begin
<1> HIDE DEF new
<1>4. TypeOK'
  BY <1>2, <1>3 DEF IInv, TypeOK, world, db
<1>5. Confirmed' = Confirmed
  BY DEF Confirmed, world
<1>6. OnlyConfirmed'
  BY <1>5 DEF IInv, OnlyConfirmed, db
<1>7. Bounded'
  BY <1>2, <1>3, <1>5, ConfirmedBounds DEF IInv, TypeOK, Bounded
<1> QED BY <1>4, <1>6, <1>7 DEF IInv

(* The chain changes and does not get shorter.                             *)
LEMMA ChainGood ==
  ASSUME IInv, chain' \in Seq(Block), Len(chain) <= Len(chain'),
         Len(chain') <= MaxBlocks, reorgs' \in Fork, UNCHANGED <<db, pc, scan, faults>>
  PROVE  IInv'
<1>1. TypeOK'
  BY DEF IInv, TypeOK, db
<1>2. Confirmed <= Confirmed' /\ Confirmed \in Nat /\ Confirmed' \in Nat
  <2>1. Len(chain) \in Nat /\ Len(chain') \in Nat
    BY LenProperties DEF IInv, TypeOK
  <2> QED BY <2>1, BlocksAssumption DEF Confirmed, Maximum
<1>3. OnlyConfirmed'
  <2>1. cursor.last \in Nat
    BY DEF IInv, TypeOK, Cursor, NoCursor
  <2>2. \A e \in events : e.number \in Nat
    BY DEF IInv, TypeOK, Event
  <2> QED BY <1>2, <2>1, <2>2 DEF IInv, OnlyConfirmed, db
<1>4. Bounded'
  <2>1. ASSUME NEW s \in Scans
        PROVE  /\ scan[s].target \in Nat /\ scan[s].at.last \in Nat
               /\ \A e \in scan[s].logs : e.number \in Nat
    BY DEF IInv, TypeOK, Locals, Cursor, Event
  <2> QED BY <1>2, <2>1 DEF IInv, Bounded
<1> QED BY <1>1, <1>3, <1>4 DEF IInv

(* Cursor and rows are written: the local cursor follows the stored one.   *)
LEMMA AdvanceGood ==
  ASSUME IInv, NEW s \in Scans, pc[s] # "idle", UNCHANGED <<world, faults>>,
         NEW last \in 0 .. MaxBlocks, last <= Confirmed, StartBlock - 1 <= last,
         scan[s].start - 1 <= last, NEW hash \in Fork, Advance(s, last, hash),
         events' \subseteq Event, \A e \in events' : e.number <= Confirmed
  PROVE  IInv'
<1> DEFINE at  == [last |-> last, hash |-> hash]
           r1  == [scan[s] EXCEPT !.at = at]
           r2  == [r1 EXCEPT !.logs = {}]
           new == [r2 EXCEPT !.hash = 0]
<1>1. at \in Cursor /\ at.last = last
  BY DEF Cursor
<1>2. /\ new \in Locals /\ new.target = scan[s].target /\ new.start = scan[s].start
      /\ new.at = at /\ new.logs = {}
  <2>1. r1 \in Locals /\ r1.target = scan[s].target /\ r1.start = scan[s].start /\ r1.at = at
    BY <1>1 DEF IInv, TypeOK, Locals
  <2> HIDE DEF r1
  <2>2. /\ r2 \in Locals /\ r2.target = scan[s].target /\ r2.start = scan[s].start
        /\ r2.at = at /\ r2.logs = {}
    BY <2>1 DEF Locals
  <2> HIDE DEF r2
  <2> QED BY <2>2, BoundsAssumption DEF Locals, Fork
<1>3. /\ cursor' = at /\ scan' = [scan EXCEPT ![s] = new]
      /\ pc' = [pc EXCEPT ![s] = "loop"]
  BY DEF Advance, IInv, TypeOK
<1> HIDE DEF r1, r2, new
<1>4. TypeOK'
  BY <1>1, <1>2, <1>3 DEF IInv, TypeOK, world
<1>5. Confirmed' = Confirmed
  BY DEF Confirmed, world
<1>6. OnlyConfirmed'
  BY <1>1, <1>3, <1>5 DEF OnlyConfirmed
<1>7. Bounded'
  <2>1. pc[s] # "idle" => StartBlock <= scan[s].start
    BY DEF IInv, Bounded
  <2> QED BY <1>1, <1>2, <1>3, <1>5, <2>1 DEF IInv, TypeOK, Bounded
<1> QED BY <1>4, <1>6, <1>7 DEF IInv
-------------------------------------------------------------------------------
LEMMA MineGood ==
  ASSUME IInv, MineBlock
  PROVE  IInv'
<1>1. PICK tx \in (Txs \ Included) \cup {NoTx} :
        chain' = Append(chain, [hash |-> reorgs, tx |-> tx])
  BY DEF MineBlock
<1>2. [hash |-> reorgs, tx |-> tx] \in Block
  BY DEF Block, IInv, TypeOK
<1>3. chain \in Seq(Block)
  BY DEF IInv, TypeOK
<1>4. chain' \in Seq(Block) /\ Len(chain') = Len(chain) + 1
  BY <1>1, <1>2, <1>3, AppendProperties
<1>5. Len(chain) \in Nat /\ Len(chain) < MaxBlocks
  BY <1>3, LenProperties DEF MineBlock
<1> QED BY <1>4, <1>5, BoundsAssumption, ChainGood DEF MineBlock, IInv, TypeOK

LEMMA ReorgGood ==
  ASSUME IInv, NEW depth \in 1 .. MaxBlocks, Reorg(depth)
  PROVE  IInv'
<1> DEFINE kept == Len(chain) - depth
<1>1. depth \in 1 .. Len(chain) /\ reorgs < MaxReorgs /\ reorgs' = reorgs + 1
  BY DEF Reorg
<1>2. PICK fork \in [kept + 1 .. Len(chain) ->
                       (Txs \ {chain[n].tx : n \in 1 .. kept}) \cup {NoTx}] :
        chain' = [n \in 1 .. Len(chain) |->
                    IF n <= kept THEN chain[n] ELSE [hash |-> reorgs + 1, tx |-> fork[n]]]
  BY DEF Reorg
<1>3. Len(chain) \in Nat /\ Len(chain) <= MaxBlocks
  BY ConfirmedBounds DEF IInv
<1>4. reorgs' \in Fork
  BY <1>1, BoundsAssumption DEF Fork, IInv, TypeOK
<1>5. ASSUME NEW n \in 1 .. Len(chain)
      PROVE  chain'[n] \in Block
  <2>1. CASE n <= kept
    BY <1>2, <2>1, ChainIsTyped DEF IInv
  <2>2. CASE ~(n <= kept)
    <3>1. n \in kept + 1 .. Len(chain)
      BY <1>1, <1>3, <2>2
    <3>2. fork[n] \in Txs \cup {NoTx}
      BY <1>2, <3>1
    <3>3. chain'[n] = [hash |-> reorgs', tx |-> fork[n]]
      BY <1>1, <1>2, <2>2
    <3> QED BY <1>4, <3>2, <3>3 DEF Block
  <2> QED BY <2>1, <2>2
<1>6. chain' \in [1 .. Len(chain) -> Block]
  BY <1>2, <1>5
<1>7. chain' \in Seq(Block)
  BY <1>3, <1>6, SeqDef
<1>8. Len(chain') = Len(chain)
  <2>1. Len(chain') \in Nat /\ DOMAIN chain' = 1 .. Len(chain')
    BY <1>7, LenProperties
  <2>2. DOMAIN chain' = 1 .. Len(chain)
    BY <1>6
  <2> QED BY <1>3, <2>1, <2>2
<1> QED BY <1>3, <1>4, <1>7, <1>8, ChainGood DEF Reorg

LEMMA StartPollGood ==
  ASSUME IInv, NEW s \in Scans, StartPoll(s)
  PROVE  IInv'
<1> DEFINE at == IF cursor = NoCursor
                   THEN [last |-> StartBlock - 1, hash |-> Hash(StartBlock - 1)]
                   ELSE cursor
<1>1. StartBlock \in Nat \ {0} /\ StartBlock <= Confirmed
  BY ConfirmedBounds, BlocksAssumption DEF StartPoll, IInv
<1>2. at \in Cursor /\ StartBlock - 1 <= at.last /\ at.last <= Confirmed
  <2>1. CASE cursor = NoCursor
    <3>1. StartBlock - 1 \in 0 .. MaxBlocks /\ StartBlock - 1 \in 0 .. Len(chain)
      BY <1>1, ConfirmedBounds, BoundsAssumption DEF IInv
    <3> QED BY <1>1, <2>1, <3>1, ConfirmedBounds, HashIsTyped DEF Cursor, IInv
  <2>2. CASE cursor # NoCursor
    BY <1>1, <2>2 DEF IInv, TypeOK, OnlyConfirmed, Cursor
  <2> QED BY <2>1, <2>2
<1>3. Begin(s, FALSE, StartBlock, at) /\ UNCHANGED <<world, db>> /\ faults' = faults
  BY DEF StartPoll
<1>4. faults' \in 0 .. MaxFaults
  BY <1>3 DEF IInv, TypeOK
<1>5. FALSE \in BOOLEAN /\ StartBlock \in Nat /\ StartBlock <= StartBlock
  BY <1>1
<1> HIDE DEF at
<1> QED BY <1>1, <1>2, <1>3, <1>4, <1>5, BeginGood, Zenon

LEMMA StartBackfillGood ==
  ASSUME IInv, NEW s \in Scans, NEW from \in BackfillBlocks, StartBackfill(s, from)
  PROVE  IInv'
<1> DEFINE at == [last |-> from - 1, hash |-> Hash(from - 1)]
<1>1. from \in Nat \ {0} /\ StartBlock <= from /\ from <= Confirmed
  BY ConfirmedBounds, BlocksAssumption DEF StartBackfill, IInv
<1>2. from - 1 \in 0 .. MaxBlocks /\ from - 1 \in 0 .. Len(chain) /\ from - 1 <= Confirmed
  BY <1>1, ConfirmedBounds, BoundsAssumption DEF IInv
<1>3. at \in Cursor /\ from - 1 <= at.last /\ at.last <= Confirmed
  BY <1>1, <1>2, HashIsTyped DEF Cursor, IInv
<1>4. faults' \in 0 .. MaxFaults
  BY BoundsAssumption DEF StartBackfill, IInv, TypeOK
<1>5. Begin(s, TRUE, from, at) /\ UNCHANGED <<world, db>>
  BY DEF StartBackfill
<1> HIDE DEF at
<1> QED BY <1>1, <1>3, <1>4, <1>5, BeginGood
LEMMA LogsGood ==
  ASSUME IInv, NEW s \in Scans, getLogs(s)
  PROVE  IInv'
<1> DEFINE logs == LogsIn(scan[s].at.last + 1, toBlock(s))
           to == IF pc[s] = "scan" THEN "logs" ELSE "window"
<1>1. pc[s] \in {"scan", "block"} /\ to \in {"logs", "window"}
  BY DEF getLogs
<1>2. scan[s].at.last + 1 \in Nat \ {0} /\ scan[s].at.last < scan[s].target
  BY <1>1 DEF IInv, TypeOK, Bounded, Locals, Cursor
<1>3. logs \subseteq Event /\ \A e \in logs : e.number <= Confirmed
  <2>1. toBlock(s) \in Nat /\ toBlock(s) <= Confirmed
    BY <1>1, WindowBounds
  <2> QED BY <1>2, <2>1, LogsAreBounded DEF IInv
<1>4. /\ scan' = [scan EXCEPT ![s].logs = logs] /\ pc' = [pc EXCEPT ![s] = to]
      /\ UNCHANGED <<world, db, faults>>
  BY DEF getLogs
<1> HIDE DEF logs, to
<1>5. TypeOK'
  <2>1. [scan[s] EXCEPT !.logs = logs] \in Locals
    BY <1>3 DEF IInv, TypeOK, Locals
  <2>2. scan' \in [Scans -> Locals]
    BY <1>4, <2>1 DEF IInv, TypeOK
  <2> QED BY <1>1, <1>4, <2>2 DEF IInv, TypeOK, world, db
<1>6. Confirmed' = Confirmed
  BY <1>4 DEF Confirmed, world
<1>7. OnlyConfirmed'
  BY <1>4, <1>6 DEF IInv, OnlyConfirmed, db
<1>8. Bounded'
  <2>1. /\ scan'[s].logs = logs /\ scan'[s].target = scan[s].target
        /\ scan'[s].at = scan[s].at /\ scan'[s].start = scan[s].start
    BY <1>4 DEF IInv, TypeOK, Locals
  <2>2. \A r \in Scans \ {s} : scan'[r] = scan[r] /\ pc'[r] = pc[r]
    BY <1>4 DEF IInv, TypeOK
  <2>3. pc'[s] = to
    BY <1>4 DEF IInv, TypeOK
  <2> QED BY <1>1, <1>2, <1>3, <1>6, <2>1, <2>2, <2>3 DEF IInv, Bounded
<1> QED BY <1>5, <1>7, <1>8 DEF IInv

(* Where a scan goes, and the hash it is told, move no block number.       *)
LEMMA MoveGood ==
  ASSUME IInv, NEW s \in Scans, pc[s] # "idle", UNCHANGED <<world, db, faults>>,
         NEW to \in {"rewind", "rewound", "scan", "block", "window"},
         to \in {"scan", "block", "window"} => scan[s].at.last < scan[s].target,
         pc' = [pc EXCEPT ![s] = to],
         NEW hash \in Fork,
         scan' = scan \/ scan' = [scan EXCEPT ![s].hash = hash]
  PROVE  IInv'
<1>1. scan' \in [Scans -> Locals]
  <2>1. [scan[s] EXCEPT !.hash = hash] \in Locals
    BY DEF IInv, TypeOK, Locals
  <2> QED BY <2>1 DEF IInv, TypeOK
<1>2. TypeOK'
  BY <1>1 DEF IInv, TypeOK, world, db
<1>3. Confirmed' = Confirmed
  BY DEF Confirmed, world
<1>4. OnlyConfirmed'
  BY <1>3 DEF IInv, OnlyConfirmed, db
<1>5. \A r \in Scans :
        /\ scan'[r].logs = scan[r].logs /\ scan'[r].target = scan[r].target
        /\ scan'[r].at = scan[r].at /\ scan'[r].start = scan[r].start
  BY DEF IInv, TypeOK, Locals
<1>6. pc'[s] = to /\ \A r \in Scans \ {s} : pc'[r] = pc[r]
  BY DEF IInv, TypeOK
<1>7. Bounded'
  BY <1>3, <1>5, <1>6 DEF IInv, Bounded
<1> QED BY <1>2, <1>4, <1>7 DEF IInv
(* The rows below a rewind or outside a window are rows that were there.   *)
LEMMA RewindGood ==
  ASSUME IInv, NEW s \in Scans, rewindCursorWindow(s)
  PROVE  IInv'
<1>1. pc[s] = "rewound" /\ UNCHANGED <<world, faults>>
      /\ Advance(s, rewindTo(s) - 1, scan[s].hash)
  BY DEF rewindCursorWindow
<1>2. StartBlock <= scan[s].start
  BY <1>1 DEF IInv, Bounded
<1>3. scan[s].hash \in Fork /\ scan[s].start \in Nat
  BY DEF IInv, TypeOK, Locals
<1>4. events' \subseteq Event /\ \A e \in events' : e.number <= Confirmed
  BY DEF rewindCursorWindow, Outside, IInv, TypeOK, OnlyConfirmed
<1>5. /\ rewindTo(s) - 1 \in 0 .. MaxBlocks /\ rewindTo(s) - 1 <= Confirmed
      /\ StartBlock - 1 <= rewindTo(s) - 1 /\ scan[s].start - 1 <= rewindTo(s) - 1
  BY <1>2, <1>3, RewindBounds, BlocksAssumption
<1>6. pc[s] # "idle"
  BY <1>1
<1> QED BY <1>1, <1>3, <1>4, <1>5, <1>6, AdvanceGood

LEMMA CommitGood ==
  ASSUME IInv, NEW s \in Scans, CommitWindow(s)
  PROVE  IInv'
<1>1. pc[s] = "window" /\ UNCHANGED <<world, faults>> /\ Advance(s, toBlock(s), scan[s].hash)
  BY DEF CommitWindow
<1>2. StartBlock <= scan[s].start /\ scan[s].start - 1 <= scan[s].at.last
  BY <1>1 DEF IInv, Bounded
<1>3. /\ scan[s].hash \in Fork /\ scan[s].start \in Nat /\ scan[s].at.last \in Nat
      /\ scan[s].logs \subseteq Event
  BY DEF IInv, TypeOK, Locals, Cursor
<1>4. events' \subseteq Event /\ \A e \in events' : e.number <= Confirmed
  <2>1. \A e \in events' : e \in events \/ e \in scan[s].logs
    BY DEF CommitWindow, Outside
  <2> QED BY <1>3, <2>1 DEF IInv, TypeOK, OnlyConfirmed, Bounded
<1>5. /\ toBlock(s) \in 0 .. MaxBlocks /\ toBlock(s) <= Confirmed
      /\ StartBlock - 1 <= toBlock(s) /\ scan[s].start - 1 <= toBlock(s)
  <2>1. /\ toBlock(s) \in 0 .. MaxBlocks /\ toBlock(s) <= Confirmed
        /\ scan[s].at.last < toBlock(s)
    BY <1>1, WindowBounds
  <2> QED BY <1>2, <1>3, <2>1, BlocksAssumption
<1>6. pc[s] # "idle"
  BY <1>1
<1> QED BY <1>1, <1>3, <1>4, <1>5, <1>6, AdvanceGood

LEMMA NextGood ==
  ASSUME IInv, [Next]_vars
  PROVE  IInv'
<1>1. CASE MineBlock
  BY <1>1, MineGood
<1>2. CASE \E depth \in 1 .. MaxBlocks : Reorg(depth)
  BY <1>2, ReorgGood
<1>3. ASSUME NEW s \in Scans, NEW from \in BackfillBlocks, StartBackfill(s, from)
      PROVE  IInv'
  BY <1>3, StartBackfillGood
<1>4. ASSUME NEW s \in Scans, StartPoll(s) PROVE IInv'
  BY <1>4, StartPollGood
<1>5. ASSUME NEW s \in Scans, Done(s) PROVE IInv'
  <2>1. faults' \in 0 .. MaxFaults /\ UNCHANGED <<world, db>>
    BY <1>5 DEF Done, IInv, TypeOK
  <2> QED BY <1>5, <2>1, ForgetGood DEF Done
<1>6. ASSUME NEW s \in Scans, CheckBoundary(s) PROVE IInv'
  <2> DEFINE to == IF boundaryNeedsRescan(scan[s].at) THEN "rewind" ELSE "scan"
  <2>1. /\ to \in {"rewind", "rewound", "scan", "block", "window"}
        /\ scan[s].at.last < scan[s].target /\ pc[s] # "idle"
        /\ pc' = [pc EXCEPT ![s] = to] /\ scan' = scan /\ UNCHANGED <<world, db, faults>>
    BY <1>6 DEF CheckBoundary
  <2>2. 0 \in Fork
    BY BoundsAssumption DEF Fork
  <2> HIDE DEF to
  <2> QED BY <2>1, <2>2, MoveGood
<1>7. ASSUME NEW s \in Scans, getPreviousBlockHash(s) PROVE IInv'
  <2>1. /\ pc[s] # "idle" /\ pc' = [pc EXCEPT ![s] = "rewound"]
        /\ scan' = [scan EXCEPT ![s].hash = Hash(rewindTo(s) - 1)]
        /\ UNCHANGED <<world, db, faults>>
    BY <1>7 DEF getPreviousBlockHash
  <2>2. Hash(rewindTo(s) - 1) \in Fork
    BY RewindBounds, HashIsTyped DEF IInv
  <2> QED BY <2>1, <2>2, MoveGood
<1>8. ASSUME NEW s \in Scans, rewindCursorWindow(s) PROVE IInv'
  BY <1>8, RewindGood
<1>9. ASSUME NEW s \in Scans, getLogs(s) PROVE IInv'
  BY <1>9, LogsGood
<1>10. ASSUME NEW s \in Scans, getBlock(s) PROVE IInv'
  <2> DEFINE to == IF pc[s] = "scan" THEN "block" ELSE "window"
  <2>1. /\ to \in {"rewind", "rewound", "scan", "block", "window"}
        /\ pc[s] \in {"scan", "logs", "block", "window"} /\ pc[s] # "idle"
        /\ pc' = [pc EXCEPT ![s] = to] /\ UNCHANGED <<world, db, faults>>
        /\ scan' = [scan EXCEPT ![s].hash = Hash(toBlock(s))]
    BY <1>10 DEF getBlock
  <2>2. Hash(toBlock(s)) \in Fork
    BY <2>1, WindowBounds, HashIsTyped DEF IInv
  <2>3. scan[s].at.last < scan[s].target
    BY <2>1 DEF IInv, Bounded
  <2> HIDE DEF to
  <2> QED BY <2>1, <2>2, <2>3, MoveGood
<1>11. ASSUME NEW s \in Scans, CommitWindow(s) PROVE IInv'
  BY <1>11, CommitGood
<1>12. ASSUME NEW s \in Scans, Abort(s) PROVE IInv'
  <2>1. faults' \in 0 .. MaxFaults /\ UNCHANGED <<world, db>>
    BY <1>12, BoundsAssumption DEF Abort, IInv, TypeOK
  <2> QED BY <1>12, <2>1, ForgetGood DEF Abort
<1>13. CASE UNCHANGED vars
  <2>1. TypeOK'
    BY <1>13 DEF IInv, TypeOK, vars, world, db
  <2>2. Confirmed' = Confirmed
    BY <1>13 DEF Confirmed, vars, world
  <2> QED BY <1>13, <2>1, <2>2 DEF IInv, OnlyConfirmed, Bounded, vars, db
<1> QED BY <1>1, <1>2, <1>3, <1>4, <1>5, <1>6, <1>7, <1>8, <1>9, <1>10, <1>11, <1>12, <1>13
        DEF Next, Step

THEOREM Invariance == Spec => []IInv
<1> QED BY InitGood, NextGood, PTL DEF Spec

(* Chain, rows, cursor and scans keep their types.                         *)
THEOREM TypeCorrect == Spec => []TypeOK
<1>1. IInv => TypeOK
  BY DEF IInv
<1> QED BY <1>1, Invariance, PTL

(* Neither a row nor the cursor is ever ahead of the confirmed block,      *)
(* whatever the chain reorganises to and however long ago a scan that      *)
(* writes took its target.                                                 *)
THEOREM NothingUnconfirmed == Spec => []OnlyConfirmed
<1>1. IInv => OnlyConfirmed
  BY DEF IInv
<1> QED BY <1>1, Invariance, PTL

-------------------------------------------------------------------------------
(* What the index has of the chain, as long as confirmed blocks are        *)
(* reorganised only while the index rests and no scan starts elsewhere     *)
(* than where the last one ended: Faults = {}.                             *)

(* A transaction is in one block, and forks are numbered as they come.     *)
ChainSound ==
  /\ \A m, n \in DOMAIN chain : chain[m].tx = chain[n].tx => m = n \/ chain[m].tx = NoTx
  /\ \A n \in DOMAIN chain : chain[n].hash <= reorgs
  /\ cursor # NoCursor => cursor.hash <= reorgs

(* The stored hash has left the chain.                                     *)
Off == cursor # NoCursor /\ cursor.hash # Hash(cursor.last)

(* Where a poll that finds it so goes back to.                             *)
RewindPoint == Maximum(StartBlock, Maximum(cursor.last + 1, Window) - Window)

Scanned(n) == LogsIn(StartBlock, n) \subseteq events

RowsSound ==
  /\ cursor = NoCursor => events = {}
  /\ Canonical => events \subseteq LogsIn(StartBlock, Confirmed) /\ Scanned(cursor.last)
  /\ Off =>
       /\ \A e \in events : e.number <= cursor.last
       /\ {e \in events : e.number < RewindPoint} = LogsIn(StartBlock, RewindPoint - 1)

(* A scan that stands on the hash that left has the index to itself and    *)
(* goes back before it writes; any other stands on the chain.              *)
ScanOff(s) ==
  /\ pc[s] \in {"loop", "rewind", "rewound"}
  /\ scan[s].at = cursor /\ scan[s].start = StartBlock
  /\ \A r \in Scans \ {s} : pc[r] = "idle"
  /\ pc[s] = "rewound" => scan[s].hash = Hash(rewindTo(s) - 1)

ScanOn(s) ==
  /\ pc[s] \in {"loop", "scan", "logs", "block", "window"}
  /\ scan[s].at.hash = Hash(scan[s].at.last) /\ Scanned(scan[s].at.last)
  /\ pc[s] \in {"logs", "window"} =>
       scan[s].logs = LogsIn(scan[s].at.last + 1, toBlock(s))
  /\ pc[s] \in {"block", "window"} => scan[s].hash = Hash(toBlock(s))

ScanSound(s) ==
  pc[s] # "idle" => (Off /\ ScanOff(s)) \/ (~Off /\ ScanOn(s))

CInv == IInv /\ ChainSound /\ RowsSound /\ \A s \in Scans : ScanSound(s)

(* The row of the block at a height.                                       *)
RowAt(n) == [tx |-> chain[n].tx, number |-> n, hash |-> chain[n].hash]

LEMMA LogMember ==
  ASSUME NEW from \in Nat, NEW to \in Nat, NEW e
  PROVE  e \in LogsIn(from, to) <=>
           /\ e.number \in from .. to /\ chain[e.number].tx # NoTx
           /\ e = RowAt(e.number)
BY DEF LogsIn, RowAt

LEMMA LogsSame ==
  ASSUME NEW from \in Nat, NEW to \in Nat, \A n \in from .. to : chain'[n] = chain[n]
  PROVE  LogsIn(from, to)' = LogsIn(from, to)
BY DEF LogsIn

(* What a scan or the cursor may speak of.                                 *)
LEMMA CursorTyped ==
  ASSUME IInv, cursor # NoCursor
  PROVE  /\ cursor.last \in Nat /\ StartBlock - 1 <= cursor.last
         /\ cursor.last <= Confirmed /\ cursor.last \in 0 .. Len(chain)
         /\ cursor.hash \in Nat
<1>1. cursor \in Cursor /\ StartBlock - 1 <= cursor.last /\ cursor.last <= Confirmed
  BY BlocksAssumption, BoundsAssumption DEF IInv, TypeOK, OnlyConfirmed, Cursor
<1> QED BY <1>1, ConfirmedBounds, BoundsAssumption DEF Cursor, Fork, IInv

LEMMA ScanTyped ==
  ASSUME IInv, NEW s \in Scans, pc[s] # "idle"
  PROVE  /\ scan[s].at.last \in Nat /\ scan[s].at.last <= Confirmed
         /\ scan[s].at.last \in 0 .. Len(chain)
         /\ StartBlock - 1 <= scan[s].at.last
<1>1. /\ scan[s].start \in Nat /\ scan[s].at.last \in Nat
      /\ scan[s].start - 1 <= scan[s].at.last /\ scan[s].at.last <= Confirmed
      /\ StartBlock <= scan[s].start
  BY BoundsAssumption DEF IInv, TypeOK, Bounded, Locals, Cursor
<1> QED BY <1>1, ConfirmedBounds, BlocksAssumption DEF IInv

LEMMA RewindPointTyped ==
  ASSUME IInv, cursor # NoCursor
  PROVE  /\ RewindPoint \in Nat \ {0} /\ RewindPoint - 1 \in Nat
         /\ StartBlock <= RewindPoint
         /\ RewindPoint - 1 <= cursor.last
         /\ RewindPoint = StartBlock \/ RewindPoint + Window = cursor.last + 1
BY CursorTyped, BlocksAssumption DEF RewindPoint, Maximum

(* Below the rewind point, the rows are those of the chain.                *)
LEMMA RowsBelow ==
  ASSUME IInv, RowsSound, cursor # NoCursor
  PROVE  {e \in events : e.number < RewindPoint} = LogsIn(StartBlock, RewindPoint - 1)
<1>1. CASE Off
  BY <1>1 DEF RowsSound
<1>2. CASE ~Off
  <2>1. /\ events \subseteq LogsIn(StartBlock, Confirmed)
        /\ LogsIn(StartBlock, cursor.last) \subseteq events
    BY <1>2 DEF RowsSound, Off, Canonical, Scanned
  <2>2. PICK r \in Nat, c \in Nat, k \in Nat, b \in Nat \ {0} :
          /\ r = RewindPoint - 1 /\ c = cursor.last /\ k = Confirmed /\ b = StartBlock
          /\ r <= c /\ c <= k
    BY RewindPointTyped, CursorTyped, ConfirmedBounds, BlocksAssumption DEF IInv
  <2>3. \A e \in events : e.number \in Nat /\ (e.number < RewindPoint <=> e.number <= r)
    BY <2>2, RewindPointTyped DEF IInv, TypeOK, Event
  <2>4. ASSUME NEW e \in events, e.number <= r PROVE e \in LogsIn(b, r)
    BY <2>1, <2>2, <2>4, LogMember
  <2>5. ASSUME NEW e \in LogsIn(b, r) PROVE e \in events /\ e.number <= r
    BY <2>1, <2>2, <2>5, LogMember
  <2> QED BY <2>2, <2>3, <2>4, <2>5
<1> QED BY <1>1, <1>2

-------------------------------------------------------------------------------
(* The chain moves.                                                        *)

(* Blocks up to kept stay; those after it are of a new fork. Whatever is   *)
(* confirmed stays, or the index is at rest and at most a window goes.     *)
LEMMA ChainMoves ==
  ASSUME IInv, ChainSound, RowsSound, \A s \in Scans : ScanSound(s),
         IInv', UNCHANGED <<db, pc, scan>>, Confirmed <= Confirmed',
         NEW kept \in 0 .. Len(chain), \A n \in 1 .. kept : chain'[n] = chain[n],
         \A n \in kept + 1 .. Len(chain) : chain'[n].hash > reorgs,
         Confirmed <= kept \/ (Calm /\ Confirmed <= kept + Window)
  PROVE  RowsSound' /\ \A s \in Scans : ScanSound(s)'
<1>1. /\ Confirmed \in Nat /\ Confirmed' \in Nat /\ StartBlock \in Nat \ {0}
      /\ Window \in Nat \ {0} /\ kept \in Nat /\ Len(chain) \in Nat
  <2>1. (TypeOK => Confirmed \in Nat)'
    BY ConfirmedBounds, PTL
  <2>2. TypeOK /\ TypeOK'
    BY DEF IInv
  <2> QED BY <2>1, <2>2, ConfirmedBounds, BlocksAssumption
<1>2. \A n \in 0 .. kept : Hash(n)' = Hash(n)
  BY <1>1 DEF Hash
<1>3. PICK k \in Nat, k1 \in Nat, b \in Nat \ {0} :
        k = Confirmed /\ k1 = Confirmed' /\ b = StartBlock /\ k <= k1
  BY <1>1
<1>4. \A m \in Nat, n \in Nat : 1 <= m /\ n <= kept => LogsIn(m, n)' = LogsIn(m, n)
  <2> SUFFICES ASSUME NEW m \in Nat, NEW n \in Nat, 1 <= m, n <= kept
               PROVE  LogsIn(m, n)' = LogsIn(m, n)
    OBVIOUS
  <2>1. \A i \in m .. n : chain'[i] = chain[i]
    BY <1>1
  <2> QED BY <2>1, LogsSame
<1>5. cursor = NoCursor => RowsSound'
  <2>1. cursor = NoCursor => cursor' = NoCursor /\ events' = {}
    BY DEF RowsSound, db
  <2> QED BY <2>1 DEF RowsSound, Canonical, Off
<1>6. ASSUME cursor # NoCursor, cursor.last <= kept,
             Confirmed <= kept \/ \A e \in events : e.number <= cursor.last
      PROVE  RowsSound' /\ (Off' <=> Off)
  <2>1. PICK c \in Nat : c = cursor.last /\ c <= k /\ c <= kept
    BY <1>3, <1>6, CursorTyped
  <2>2. Hash(cursor.last)' = Hash(cursor.last) /\ cursor' = cursor /\ events' = events
    BY <1>1, <1>2, <2>1 DEF db
  <2>3. (Off' <=> Off) /\ (Canonical' <=> Canonical)
    BY <2>2 DEF Off, Canonical
  <2>4. PICK r \in Nat : r = RewindPoint - 1 /\ r <= c /\ RewindPoint' = RewindPoint
    BY <2>1, <2>2, <1>6, RewindPointTyped DEF RewindPoint
  <2>5. LogsIn(b, r)' = LogsIn(b, r) /\ LogsIn(b, c)' = LogsIn(b, c)
    BY <1>3, <1>4, <2>1, <2>4
  <2>6. ASSUME Canonical PROVE events' \subseteq LogsIn(b, k1)' /\ Scanned(c)'
    <3>1. events \subseteq LogsIn(b, k) /\ LogsIn(b, c) \subseteq events
      BY <1>3, <2>1, <2>6 DEF RowsSound, Scanned
    <3>2. PICK m \in Nat : m <= k /\ m <= kept /\ \A e \in events : e.number <= m
      <4>1. CASE Confirmed <= kept
        <5>1. \A e \in events : e.number <= k
          BY <1>3 DEF IInv, OnlyConfirmed
        <5> QED BY <1>3, <4>1, <5>1
      <4>2. CASE \A e \in events : e.number <= cursor.last
        BY <2>1, <4>2
      <4> QED BY <1>6, <4>1, <4>2
    <3>3. events \subseteq LogsIn(b, m)
      <4> SUFFICES ASSUME NEW e \in events PROVE e \in LogsIn(b, m)
        OBVIOUS
      <4> QED BY <3>1, <3>2, LogMember
    <3>4. LogsIn(b, m)' = LogsIn(b, m)
      BY <1>1, <1>4, <3>2
    <3>5. LogsIn(b, m)' \subseteq LogsIn(b, k1)'
      <4>1. b .. m \subseteq b .. k1
        BY <1>3, <3>2
      <4> QED BY <4>1 DEF LogsIn
    <3> QED BY <2>2, <2>5, <3>1, <3>3, <3>4, <3>5, <1>3 DEF Scanned
  <2>7. ASSUME Off
        PROVE  /\ \A e \in events' : e.number <= cursor'.last
               /\ {e \in events' : e.number < RewindPoint'} = LogsIn(b, r)'
    BY <1>3, <2>2, <2>4, <2>5, <2>7 DEF RowsSound
  <2> QED BY <1>3, <1>6, <2>1, <2>2, <2>3, <2>4, <2>6, <2>7 DEF RowsSound
<1>7. CASE Confirmed <= kept
  <2>1. RowsSound' /\ (Off' <=> Off)
    <3>1. CASE cursor = NoCursor
      <4>1. cursor' = NoCursor
        BY <3>1 DEF db
      <4> QED BY <1>5, <3>1, <4>1 DEF Off
    <3>2. CASE cursor # NoCursor
      <4>1. cursor.last <= kept
        BY <1>1, <1>7, <3>2, CursorTyped
      <4> QED BY <1>6, <1>7, <3>2, <4>1
    <3> QED BY <3>1, <3>2
  <2>2. ASSUME NEW s \in Scans, pc'[s] # "idle" PROVE ScanSound(s)'
    <3>1. /\ scan' = scan /\ pc' = pc /\ cursor' = cursor /\ events' = events
          /\ pc[s] # "idle" /\ ScanSound(s)
      BY <2>2 DEF db
    <3>2. PICK a \in Nat : a = scan[s].at.last /\ a <= kept
      BY <1>1, <1>7, <3>1, ScanTyped
    <3>3. Hash(a)' = Hash(a) /\ LogsIn(b, a)' = LogsIn(b, a)
      BY <1>1, <1>2, <1>4, <3>2
    <3>4. CASE Off
      <4>1. ScanOff(s)
        BY <3>1, <3>4 DEF ScanSound
      <4>2. PICK r \in Nat : r = rewindTo(s) - 1 /\ r <= kept
        BY <1>1, <1>7, RewindBounds
      <4>3. Hash(r)' = Hash(r) /\ rewindTo(s)' = rewindTo(s)
        BY <1>1, <1>2, <3>1, <4>2 DEF rewindTo
      <4>4. ScanOff(s)'
        BY <3>1, <4>1, <4>2, <4>3 DEF ScanOff
      <4> QED BY <2>1, <3>4, <4>4 DEF ScanSound
    <3>5. CASE ~Off
      <4>1. ScanOn(s)
        BY <3>1, <3>5 DEF ScanSound
      <4>2. toBlock(s)' = toBlock(s) /\ Scanned(a)'
        BY <1>3, <3>1, <3>2, <3>3, <4>1 DEF toBlock, ScanOn, Scanned
      <4>3. ASSUME pc[s] \in {"logs", "block", "window"}
            PROVE  /\ Hash(toBlock(s))' = Hash(toBlock(s))
                   /\ LogsIn(a + 1, toBlock(s))' = LogsIn(a + 1, toBlock(s))
        <5>1. PICK t \in Nat : t = toBlock(s) /\ t <= kept
          BY <1>1, <1>7, <4>3, WindowBounds
        <5>2. Hash(t)' = Hash(t) /\ LogsIn(a + 1, t)' = LogsIn(a + 1, t)
          BY <1>1, <1>2, <1>4, <5>1
        <5> QED BY <4>2, <5>1, <5>2
      <4>4. ScanOn(s)'
        BY <3>1, <3>2, <3>3, <4>1, <4>2, <4>3 DEF ScanOn
      <4> QED BY <2>1, <3>5, <4>4 DEF ScanSound
    <3> QED BY <3>4, <3>5
  <2> QED BY <2>1, <2>2 DEF ScanSound
<1>8. CASE Calm /\ Confirmed <= kept + Window
  <2>1. \A s \in Scans : ScanSound(s)'
    BY <1>8 DEF Calm, ScanSound
  <2>2. CASE cursor = NoCursor
    BY <1>5, <2>1, <2>2
  <2>3. CASE cursor # NoCursor /\ cursor.last <= kept
    BY <1>6, <1>8, <2>1, <2>3 DEF Calm
  <2>4. CASE cursor # NoCursor /\ ~(cursor.last <= kept)
    <3>1. PICK c \in Nat : c = cursor.last /\ c \in kept + 1 .. Len(chain) /\ c <= k
      BY <1>1, <1>3, <2>4, CursorTyped
    <3>2. /\ Len(chain') \in Nat /\ Confirmed' <= Len(chain')
          /\ \A n \in 1 .. Len(chain') : chain'[n] \in Block
      <4>1. (TypeOK => Len(chain) \in Nat /\ Confirmed <= Len(chain))'
        BY ConfirmedBounds, PTL
      <4>2. TypeOK' /\ chain' \in Seq(Block)
        BY DEF IInv, TypeOK
      <4> QED BY <4>1, <4>2, ElementOfSeq
    <3>3. chain'[c].hash # cursor.hash
      <4>1. cursor.hash <= reorgs /\ chain'[c].hash > reorgs
        BY <2>4, <3>1 DEF ChainSound
      <4>2. c \in 1 .. Len(chain')
        <5>1. c <= Confirmed'
          BY <2>4, <3>1 DEF IInv, OnlyConfirmed, db
        <5> QED BY <1>1, <3>1, <3>2, <5>1
      <4>3. cursor.hash \in Nat /\ reorgs \in Nat /\ chain'[c].hash \in Nat
        BY <2>4, <3>2, <4>2, CursorTyped, BoundsAssumption DEF IInv, TypeOK, Block, Fork
      <4> QED BY <4>1, <4>3
    <3>4. Off' /\ ~Canonical' /\ cursor' # NoCursor
      <4>1. c # 0
        BY <1>1, <3>1
      <4> QED BY <2>4, <3>1, <3>3, <4>1 DEF Off, Canonical, Hash, db
    <3>5. PICK r \in Nat :
            /\ r = RewindPoint - 1 /\ RewindPoint' = RewindPoint
            /\ r = b - 1 \/ r <= kept
      BY <1>1, <1>3, <1>8, <2>4, <3>1, RewindPointTyped DEF RewindPoint, db
    <3>6. LogsIn(b, r)' = LogsIn(b, r)
      <4>1. CASE r <= kept
        BY <1>3, <1>4, <4>1
      <4>2. CASE r = b - 1
        <5>1. b .. r = {}
          BY <4>2
        <5>2. LogsIn(b, r) = {} /\ LogsIn(b, r)' = {}
          BY <5>1 DEF LogsIn
        <5> QED BY <5>2
      <4> QED BY <3>5, <4>1, <4>2
    <3>7. {e \in events' : e.number < RewindPoint'} = LogsIn(b, r)'
      BY <1>3, <2>4, <3>5, <3>6, RowsBelow DEF db
    <3>8. \A e \in events' : e.number <= cursor'.last
      BY <1>8 DEF Calm, db
    <3>9. RowsSound'
      BY <1>3, <3>4, <3>5, <3>7, <3>8 DEF RowsSound
    <3> QED BY <2>1, <3>9
  <2> QED BY <2>2, <2>3, <2>4
<1> QED BY <1>7, <1>8


LEMMA MineSound ==
  ASSUME CInv, MineBlock
  PROVE  CInv'
<1>1. IInv /\ IInv' /\ ChainSound /\ RowsSound /\ \A s \in Scans : ScanSound(s)
  BY MineGood DEF CInv
<1>2. PICK n \in Nat : n = Len(chain) /\ DOMAIN chain = 1 .. n
  BY <1>1, LenProperties DEF IInv, TypeOK
<1>3. PICK tx \in (Txs \ Included) \cup {NoTx} :
        chain' = Append(chain, [hash |-> reorgs, tx |-> tx])
  BY DEF MineBlock
<1>4. /\ \A i \in 1 .. n : chain'[i] = chain[i]
      /\ chain'[n + 1].hash = reorgs /\ chain'[n + 1].tx = tx
      /\ Len(chain') = n + 1 /\ DOMAIN chain' = 1 .. n + 1
  <2>1. chain \in Seq(Block) /\ [hash |-> reorgs, tx |-> tx] \in Block
    BY <1>1 DEF IInv, TypeOK, Block
  <2> QED BY <1>2, <1>3, <2>1, AppendProperties
<1>5. UNCHANGED <<db, pc, scan>> /\ reorgs' = reorgs
  BY DEF MineBlock
<1>6. ChainSound'
  <2>1. \A i \in 1 .. n : chain[i].tx = tx => tx = NoTx
    BY <1>2 DEF Included
  <2>2. \A i \in 1 .. n + 1 : i \in 1 .. n \/ i = n + 1
    OBVIOUS
  <2>3. \A i, j \in DOMAIN chain' : chain'[i].tx = chain'[j].tx => i = j \/ chain'[i].tx = NoTx
    BY <1>1, <1>2, <1>4, <2>1, <2>2 DEF ChainSound
  <2>4. reorgs \in Nat /\ \A i \in DOMAIN chain' : chain'[i].hash <= reorgs'
    BY <1>1, <1>2, <1>4, <1>5, <2>2, BoundsAssumption DEF ChainSound, IInv, TypeOK, Fork
  <2> QED BY <1>1, <1>5, <2>3, <2>4 DEF ChainSound, db
<1>7. Confirmed \in Nat /\ Confirmed <= n /\ Confirmed <= Confirmed'
  <2>1. Confirmed \in Nat /\ Confirmed <= n
    BY <1>1, <1>2, ConfirmedBounds DEF IInv
  <2> QED BY <1>2, <1>4, <2>1, BlocksAssumption DEF Confirmed, Maximum
<1>8. RowsSound' /\ \A s \in Scans : ScanSound(s)'
  <2>1. n \in 0 .. Len(chain) /\ n + 1 .. Len(chain) = {}
    BY <1>2
  <2> QED BY <1>1, <1>4, <1>5, <1>7, <2>1, ChainMoves
<1> QED BY <1>1, <1>6, <1>8 DEF CInv

LEMMA ReorgSound ==
  ASSUME CInv, NEW depth \in 1 .. MaxBlocks, Reorg(depth), Faults = {}
  PROVE  CInv'
<1>1. IInv /\ IInv' /\ ChainSound /\ RowsSound /\ \A s \in Scans : ScanSound(s)
  BY ReorgGood DEF CInv
<1>2. PICK n \in Nat : n = Len(chain) /\ DOMAIN chain = 1 .. n
  BY <1>1, LenProperties DEF IInv, TypeOK
<1>3. PICK kept \in Nat : kept = n - depth /\ depth \in 1 .. n
  <2>1. depth \in 1 .. n
    BY <1>2 DEF Reorg
  <2> QED BY <2>1
<1>4. PICK fork \in [kept + 1 .. n ->
                       (Txs \ {chain[i].tx : i \in 1 .. kept}) \cup {NoTx}] :
        /\ \A i, j \in DOMAIN fork : fork[i] = fork[j] => i = j \/ fork[i] = NoTx
        /\ chain' = [i \in 1 .. n |->
                      IF i <= kept THEN chain[i]
                                   ELSE [hash |-> reorgs + 1, tx |-> fork[i]]]
  <2> DEFINE k == Len(chain) - depth
  <2>1. \E fork \in [k + 1 .. Len(chain) ->
                     (Txs \ {chain[i].tx : i \in 1 .. k}) \cup {NoTx}] :
          /\ \A i, j \in DOMAIN fork : fork[i] = fork[j] => i = j \/ fork[i] = NoTx
          /\ chain' = [i \in 1 .. Len(chain) |->
                        IF i <= k THEN chain[i]
                                  ELSE [hash |-> reorgs + 1, tx |-> fork[i]]]
    BY DEF Reorg
  <2>2. k = kept
    BY <1>2, <1>3
  <2> HIDE DEF k
  <2> QED BY <1>2, <2>1, <2>2
<1>5. /\ DOMAIN chain' = 1 .. n
      /\ \A i \in 1 .. kept : chain'[i] = chain[i] /\ i \in 1 .. n
      /\ \A i \in kept + 1 .. n : chain'[i].hash = reorgs + 1 /\ chain'[i].tx = fork[i]
      /\ \A i \in 1 .. n : i \in 1 .. kept \/ i \in kept + 1 .. n
  BY <1>3, <1>4
<1>6. UNCHANGED <<db, pc, scan>> /\ reorgs' = reorgs + 1 /\ reorgs \in Nat
  BY <1>1, BoundsAssumption DEF Reorg, IInv, TypeOK, Fork
<1>7. ChainSound'
  <2>1. \A i \in 1 .. kept, j \in kept + 1 .. n : chain[i].tx = fork[j] => fork[j] = NoTx
    <3> SUFFICES ASSUME NEW i \in 1 .. kept, NEW j \in kept + 1 .. n,
                        chain[i].tx = fork[j], fork[j] # NoTx
                 PROVE  FALSE
      OBVIOUS
    <3>1. fork[j] \in (Txs \ {chain[m].tx : m \in 1 .. kept}) \cup {NoTx}
      BY <1>4
    <3>2. fork[j] \in {chain[m].tx : m \in 1 .. kept}
      OBVIOUS
    <3> QED BY <3>1, <3>2
  <2>2. DOMAIN fork = kept + 1 .. n
    BY <1>4
  <2>3. ASSUME NEW i \in 1 .. n, NEW j \in 1 .. n, chain'[i].tx = chain'[j].tx
        PROVE  i = j \/ chain'[i].tx = NoTx
    <3>1. CASE i \in 1 .. kept /\ j \in 1 .. kept
      BY <1>1, <1>2, <1>5, <2>3, <3>1 DEF ChainSound
    <3>2. CASE i \in 1 .. kept /\ j \in kept + 1 .. n
      BY <1>5, <2>1, <2>3, <3>2
    <3>3. CASE i \in kept + 1 .. n /\ j \in 1 .. kept
      BY <1>5, <2>1, <2>3, <3>3
    <3>4. CASE i \in kept + 1 .. n /\ j \in kept + 1 .. n
      BY <1>4, <1>5, <2>2, <2>3, <3>4
    <3> QED BY <1>5, <3>1, <3>2, <3>3, <3>4
  <2>4. \A i \in 1 .. n : chain'[i].hash <= reorgs'
    <3>1. \A i \in 1 .. n : chain[i] \in Block /\ chain[i].hash <= reorgs
      BY <1>1, <1>2, ChainIsTyped DEF ChainSound, IInv
    <3>2. \A i \in 1 .. n : chain[i].hash \in Nat
      BY <3>1, BoundsAssumption DEF Block, Fork
    <3> QED BY <1>5, <1>6, <3>1, <3>2
  <2>5. cursor' # NoCursor => cursor'.hash <= reorgs'
    <3>1. cursor # NoCursor => cursor.hash \in Nat /\ cursor.hash <= reorgs
      BY <1>1, CursorTyped DEF ChainSound
    <3> QED BY <1>6, <3>1 DEF db
  <2> QED BY <1>5, <2>3, <2>4, <2>5 DEF ChainSound
<1>8. Len(chain') = n
  <2>1. chain' \in Seq(Block)
    BY <1>1 DEF IInv, TypeOK
  <2>2. Len(chain') \in Nat /\ DOMAIN chain' = 1 .. Len(chain')
    BY <2>1, LenProperties
  <2> QED BY <1>5, <2>2
<1>9. Confirmed \in Nat /\ Confirmed' = Confirmed
  BY <1>1, <1>2, <1>8, ConfirmedBounds DEF Confirmed, IInv
<1>10. Confirmed <= kept \/ (Calm /\ Confirmed <= kept + Window)
  <2>1. /\ depth > Confirmations => Calm /\ depth <= Confirmations + Window
        /\ Confirmed = IF n > Confirmations THEN n - Confirmations ELSE 0
    BY <1>2, BlocksAssumption DEF Reorg, Confirmed, Maximum
  <2> QED BY <1>3, <2>1, BlocksAssumption
<1>11. RowsSound' /\ \A s \in Scans : ScanSound(s)'
  <2>1. kept \in 0 .. Len(chain) /\ Confirmed <= Confirmed'
    BY <1>2, <1>3, <1>9
  <2>2. \A i \in kept + 1 .. Len(chain) : chain'[i].hash > reorgs
    BY <1>2, <1>5, <1>6
  <2> QED BY <1>1, <1>5, <1>6, <1>10, <2>1, <2>2, ChainMoves
<1> QED BY <1>1, <1>7, <1>11 DEF CInv

-------------------------------------------------------------------------------
(* The scans.                                                              *)

(* A step that leaves chain and tables alone.                              *)
LEMMA LocalSound ==
  ASSUME CInv, IInv', UNCHANGED <<world, db>>, NEW s \in Scans,
         \A r \in Scans \ {s} : pc'[r] = pc[r] /\ scan'[r] = scan[r],
         pc[s] # "idle" \/ ~Off \/ \A r \in Scans : pc[r] = "idle",
         ScanSound(s)'
  PROVE  CInv'
<1>1. ChainSound' /\ RowsSound'
  BY DEF CInv, ChainSound, RowsSound, world, db, Canonical, Scanned, Off, Hash, LogsIn,
         Confirmed, RewindPoint
<1>2. ASSUME NEW r \in Scans, r # s, pc'[r] # "idle" PROVE ScanSound(r)'
  <2>1. pc[r] # "idle" /\ ScanSound(r) /\ pc'[r] = pc[r] /\ scan'[r] = scan[r]
    BY <1>2 DEF CInv
  <2>2. ~Off
    BY <1>2, <2>1 DEF CInv, ScanSound, ScanOff
  <2>3. ScanOn(r)
    BY <2>1, <2>2 DEF ScanSound
  <2>4. /\ \A n : Hash(n)' = Hash(n) /\ Scanned(n)' = Scanned(n)
        /\ \A m, n : LogsIn(m, n)' = LogsIn(m, n)
        /\ toBlock(r)' = toBlock(r)
    BY <2>1 DEF Hash, Scanned, LogsIn, toBlock, world, db
  <2>5. ~Off'
    BY <2>2, <2>4 DEF Off, Hash, world, db
  <2>6. ScanOn(r)'
    BY <2>1, <2>3, <2>4 DEF ScanOn
  <2> QED BY <2>5, <2>6 DEF ScanSound
<1>3. \A r \in Scans : ScanSound(r)'
  BY <1>2 DEF ScanSound
<1> QED BY <1>1, <1>3 DEF CInv


LEMMA Frozen ==
  ASSUME UNCHANGED <<world, db>>
  PROVE  /\ Off' <=> Off
         /\ \A n : Hash(n)' = Hash(n) /\ (Scanned(n)' <=> Scanned(n))
         /\ \A m, n : LogsIn(m, n)' = LogsIn(m, n)
BY DEF Off, Hash, Scanned, LogsIn, world, db

LEMMA NothingBeforeStart ==
  ASSUME NEW n \in Nat, n < StartBlock
  PROVE  LogsIn(StartBlock, n) = {}
<1>1. StartBlock .. n = {}
  BY BlocksAssumption
<1> QED BY <1>1 DEF LogsIn

LEMMA ScannedBelow ==
  ASSUME NEW m \in Nat, NEW n \in Nat, m <= n, Scanned(n)
  PROVE  Scanned(m)
<1>1. StartBlock .. m \subseteq StartBlock .. n
  BY BlocksAssumption
<1> QED BY <1>1 DEF Scanned, LogsIn

(* What a scan that begins stands on.                                      *)
LEMMA BeginSound ==
  ASSUME CInv, IInv', UNCHANGED <<world, db>>, NEW s \in Scans,
         NEW replace, NEW start, NEW at, Begin(s, replace, start, at),
         \/ /\ Off /\ at = cursor /\ start = StartBlock
            /\ \A r \in Scans : pc[r] = "idle"
         \/ ~Off /\ at.hash = Hash(at.last) /\ Scanned(at.last)
  PROVE  CInv'
<1>1. /\ pc'[s] = "loop" /\ scan'[s].at = at /\ scan'[s].start = start
      /\ \A r \in Scans \ {s} : pc'[r] = pc[r] /\ scan'[r] = scan[r]
  BY DEF Begin, CInv, IInv, TypeOK
<1>2. CASE Off
  <2>1. cursor' = cursor /\ \A r \in Scans : pc[r] = "idle"
    BY <1>2 DEF db
  <2>2. ScanOff(s)' /\ Off'
    BY <1>1, <1>2, <2>1, Frozen DEF ScanOff
  <2> QED BY <1>1, <2>1, <2>2, LocalSound DEF ScanSound
<1>3. CASE ~Off
  <2>1. ScanOn(s)' /\ ~Off'
    BY <1>1, <1>3, Frozen DEF ScanOn
  <2> QED BY <1>1, <1>3, <2>1, LocalSound DEF ScanSound
<1> QED BY <1>2, <1>3

LEMMA StartPollSound ==
  ASSUME CInv, NEW s \in Scans, StartPoll(s), Faults = {}
  PROVE  CInv'
<1>1. IInv /\ IInv' /\ UNCHANGED <<world, db>>
  BY StartPollGood DEF CInv, StartPoll
<1>2. StartBlock - 1 \in Nat /\ StartBlock - 1 < StartBlock
  BY BlocksAssumption
<1>3. CASE cursor = NoCursor
  <2> DEFINE at == [last |-> StartBlock - 1, hash |-> Hash(StartBlock - 1)]
  <2>1. Begin(s, FALSE, StartBlock, at)
    BY <1>3 DEF StartPoll
  <2>2. ~Off /\ at.hash = Hash(at.last) /\ Scanned(at.last)
    BY <1>2, <1>3, NothingBeforeStart DEF Off, Scanned
  <2> HIDE DEF at
  <2> QED BY <1>1, <2>1, <2>2, BeginSound
<1>4. CASE cursor # NoCursor
  <2>1. Begin(s, FALSE, StartBlock, cursor)
    BY <1>4 DEF StartPoll
  <2>2. \/ Off /\ \A r \in Scans : pc[r] = "idle"
        \/ ~Off /\ cursor.hash = Hash(cursor.last) /\ Scanned(cursor.last)
    BY <1>4 DEF StartPoll, Off, Canonical, CInv, RowsSound
  <2> QED BY <1>1, <2>1, <2>2, BeginSound
<1> QED BY <1>3, <1>4

LEMMA StartBackfillSound ==
  ASSUME CInv, NEW s \in Scans, NEW from \in BackfillBlocks, StartBackfill(s, from),
         Faults = {}
  PROVE  CInv'
<1>1. IInv /\ IInv' /\ UNCHANGED <<world, db>>
  BY StartBackfillGood DEF CInv, StartBackfill
<1> DEFINE at == [last |-> from - 1, hash |-> Hash(from - 1)]
<1>2. Begin(s, TRUE, from, at) /\ Canonical /\ cursor # NoCursor /\ from <= cursor.last + 1
  BY DEF StartBackfill
<1>3. from \in Nat \ {0}
  BY BlocksAssumption
<1>4. Scanned(from - 1)
  <2>1. from - 1 \in Nat /\ cursor.last \in Nat /\ from - 1 <= cursor.last
    BY <1>1, <1>2, <1>3, CursorTyped
  <2> QED BY <1>2, <2>1, ScannedBelow DEF CInv, RowsSound
<1>5. ~Off /\ at.hash = Hash(at.last) /\ Scanned(at.last)
  BY <1>2, <1>4 DEF Off, Canonical
<1> HIDE DEF at
<1> QED BY <1>1, <1>2, <1>5, BeginSound

LEMMA CheckSound ==
  ASSUME CInv, NEW s \in Scans, CheckBoundary(s), IInv'
  PROVE  CInv'
<1>1. /\ pc[s] = "loop" /\ UNCHANGED <<world, db, scan>> /\ UNCHANGED <<world, db>>
      /\ ScanSound(s) /\ pc \in [Scans -> {"idle", "loop", "rewind", "rewound", "scan",
                                           "logs", "block", "window"}]
  BY DEF CheckBoundary, CInv, IInv, TypeOK
<1>2. /\ pc'[s] = IF boundaryNeedsRescan(scan[s].at) THEN "rewind" ELSE "scan"
      /\ \A r \in Scans \ {s} : pc'[r] = pc[r] /\ scan'[r] = scan[r]
  BY <1>1 DEF CheckBoundary
<1>3. CASE Off
  <2>1. ScanOff(s) /\ pc'[s] = "rewind"
    BY <1>1, <1>2, <1>3 DEF ScanSound, ScanOff, Off, boundaryNeedsRescan
  <2>2. ScanOff(s)' /\ Off'
    BY <1>1, <1>2, <1>3, <2>1, Frozen DEF ScanOff, db
  <2> QED BY <1>1, <1>2, <2>2, LocalSound DEF ScanSound
<1>4. CASE ~Off
  <2>1. ScanOn(s) /\ pc'[s] = "scan"
    BY <1>1, <1>2, <1>4 DEF ScanSound, ScanOn, boundaryNeedsRescan
  <2>2. ScanOn(s)' /\ ~Off'
    BY <1>1, <1>4, <2>1, Frozen DEF ScanOn
  <2> QED BY <1>1, <1>2, <2>2, LocalSound DEF ScanSound
<1> QED BY <1>3, <1>4

LEMMA PreviousSound ==
  ASSUME CInv, NEW s \in Scans, getPreviousBlockHash(s), IInv'
  PROVE  CInv'
<1>1. /\ pc[s] = "rewind" /\ UNCHANGED <<world, db>> /\ Off /\ ScanOff(s)
  BY DEF getPreviousBlockHash, CInv, ScanSound, ScanOn
<1>2. /\ pc'[s] = "rewound" /\ scan'[s].hash = Hash(rewindTo(s) - 1)
      /\ scan'[s].at = scan[s].at /\ scan'[s].start = scan[s].start
      /\ \A r \in Scans \ {s} : pc'[r] = pc[r] /\ scan'[r] = scan[r]
  BY DEF getPreviousBlockHash, CInv, IInv, TypeOK, Locals
<1>3. rewindTo(s)' = rewindTo(s)
  BY <1>2 DEF rewindTo
<1>4. ScanOff(s)' /\ Off'
  BY <1>1, <1>2, <1>3, Frozen DEF ScanOff, db
<1> QED BY <1>1, <1>2, <1>4, LocalSound DEF ScanSound

LEMMA AnswerSound ==
  ASSUME CInv, NEW s \in Scans, getLogs(s) \/ getBlock(s), IInv'
  PROVE  CInv'
<1>1. /\ pc[s] \in {"scan", "logs", "block"} /\ UNCHANGED <<world, db>>
      /\ ~Off /\ ScanOn(s)
  BY DEF getLogs, getBlock, CInv, ScanSound, ScanOff
<1>2. /\ scan'[s].at = scan[s].at /\ scan'[s].target = scan[s].target
      /\ \A r \in Scans \ {s} : pc'[r] = pc[r] /\ scan'[r] = scan[r]
  BY DEF getLogs, getBlock, CInv, IInv, TypeOK, Locals
<1>3. toBlock(s)' = toBlock(s)
  BY <1>2 DEF toBlock
<1>4. /\ pc'[s] \in {"logs", "block", "window"}
      /\ pc'[s] \in {"logs", "window"} =>
           scan'[s].logs = LogsIn(scan[s].at.last + 1, toBlock(s))
      /\ pc'[s] \in {"block", "window"} => scan'[s].hash = Hash(toBlock(s))
  <2>1. pc \in [Scans -> {"idle", "loop", "rewind", "rewound", "scan",
                          "logs", "block", "window"}] /\ scan \in [Scans -> Locals]
    BY DEF CInv, IInv, TypeOK
  <2>2. CASE getLogs(s)
    <3>1. /\ scan'[s].logs = LogsIn(scan[s].at.last + 1, toBlock(s))
          /\ scan'[s].hash = scan[s].hash
      BY <2>1, <2>2 DEF getLogs, Locals
    <3>2. pc'[s] = IF pc[s] = "scan" THEN "logs" ELSE "window"
      BY <2>1, <2>2 DEF getLogs
    <3>3. pc[s] \in {"scan", "block"}
      BY <2>2 DEF getLogs
    <3> QED BY <1>1, <3>1, <3>2, <3>3 DEF ScanOn
  <2>3. CASE getBlock(s)
    <3>1. scan'[s].hash = Hash(toBlock(s)) /\ scan'[s].logs = scan[s].logs
      BY <2>1, <2>3 DEF getBlock, Locals
    <3>2. pc'[s] = IF pc[s] = "scan" THEN "block" ELSE "window"
      BY <2>1, <2>3 DEF getBlock
    <3>3. pc[s] \in {"scan", "logs"}
      BY <2>3 DEF getBlock
    <3> QED BY <1>1, <3>1, <3>2, <3>3 DEF ScanOn
  <2> QED BY <2>2, <2>3
<1>5. ScanOn(s)' /\ ~Off'
  BY <1>1, <1>2, <1>3, <1>4, Frozen DEF ScanOn
<1> QED BY <1>1, <1>2, <1>5, LocalSound DEF ScanSound


(* The rows from the rewound block on go, and those below are the chain's. *)
LEMMA RewindSound ==
  ASSUME CInv, NEW s \in Scans, rewindCursorWindow(s)
  PROVE  CInv'
<1>1. /\ IInv /\ IInv' /\ ChainSound /\ RowsSound
      /\ pc[s] = "rewound" /\ Off /\ ScanOff(s)
  BY RewindGood DEF rewindCursorWindow, CInv, ScanSound, ScanOn
<1>2. PICK b \in Nat \ {0}, k \in Nat, r \in Nat, c \in Nat :
        /\ b = StartBlock /\ k = Confirmed /\ r = RewindPoint - 1 /\ c = cursor.last
        /\ r <= c /\ c <= k /\ b <= r + 1 /\ r + 1 = RewindPoint
        /\ r \in 0 .. Len(chain)
  <2>1. cursor # NoCursor
    BY <1>1 DEF Off
  <2>2. /\ RewindPoint \in Nat \ {0} /\ RewindPoint - 1 \in Nat
        /\ StartBlock <= RewindPoint /\ RewindPoint - 1 <= cursor.last
        /\ cursor.last \in Nat /\ cursor.last <= Confirmed
        /\ cursor.last \in 0 .. Len(chain)
    BY <1>1, <2>1, CursorTyped, RewindPointTyped
  <2>3. Confirmed \in Nat /\ StartBlock \in Nat \ {0} /\ Len(chain) \in Nat
    BY <1>1, ConfirmedBounds, BlocksAssumption DEF IInv
  <2>4. PICK b \in Nat \ {0}, k \in Nat : b = StartBlock /\ k = Confirmed
    BY <2>3
  <2>5. PICK r \in Nat, c \in Nat : r = RewindPoint - 1 /\ c = cursor.last
    BY <2>2
  <2>6. /\ r <= c /\ c <= k /\ b <= r + 1 /\ r + 1 = RewindPoint
        /\ r \in 0 .. Len(chain)
    BY <2>2, <2>3, <2>4, <2>5
  <2> QED BY <2>4, <2>5, <2>6
<1>3. rewindTo(s) = r + 1 /\ rewindTo(s) - 1 = r
  BY <1>1, <1>2 DEF ScanOff, rewindTo, RewindPoint
<1>4. /\ events' = {e \in events : e.number \notin r + 1 .. c}
      /\ cursor' = [last |-> r, hash |-> Hash(r)]
      /\ UNCHANGED <<world, faults>>
  BY <1>1, <1>2, <1>3 DEF rewindCursorWindow, Outside, Advance, ScanOff
<1>5. /\ pc'[s] = "loop" /\ scan'[s].at = cursor'
      /\ \A q \in Scans \ {s} : pc'[q] = "idle"
  <2>1. /\ pc' = [pc EXCEPT ![s] = "loop"]
        /\ scan' = [scan EXCEPT ![s].at = cursor', ![s].logs = {}, ![s].hash = 0]
    BY DEF rewindCursorWindow, Advance
  <2>2. pc'[s] = "loop" /\ \A q \in Scans \ {s} : pc'[q] = "idle"
    BY <1>1, <2>1 DEF ScanOff, IInv, TypeOK
  <2>3. scan'[s].at = cursor'
    BY <1>1, <2>1 DEF IInv, TypeOK, Locals
  <2> QED BY <2>2, <2>3
<1>6. events' = LogsIn(b, r)
  <2>1. \A e \in events : e.number \in Nat /\ e.number <= c
    BY <1>1, <1>2 DEF RowsSound, IInv, TypeOK, Event
  <2>2. events' = {e \in events : e.number < RewindPoint}
    BY <1>2, <1>4, <2>1
  <2> QED BY <1>1, <1>2, <2>2 DEF RowsSound
<1>7. /\ \A n : Hash(n)' = Hash(n) /\ \A l, m : LogsIn(l, m)' = LogsIn(l, m)
      /\ Confirmed' = Confirmed /\ chain' = chain /\ reorgs' = reorgs
  BY <1>4 DEF Hash, LogsIn, Confirmed, world
<1>8. ~Off' /\ Scanned(r)' /\ cursor' # NoCursor
  <2>1. Hash(r)' = cursor'.hash
    BY <1>4, <1>7
  <2>2. cursor' # NoCursor
    <3>1. Hash(r) \in 0 .. MaxReorgs
      BY <1>1, <1>2, HashIsTyped DEF IInv, Fork
    <3>2. Hash(r) # MaxReorgs + 1
      BY <3>1, BoundsAssumption
    <3> QED BY <1>4, <3>2 DEF NoCursor
  <2> QED BY <1>2, <1>4, <1>6, <1>7, <2>1, <2>2 DEF Off, Scanned
<1>9. ChainSound'
  <2>1. Hash(r) <= reorgs
    <3>1. 0 <= reorgs /\ \A n \in 1 .. Len(chain) : chain[n].hash <= reorgs
      <4>1. chain \in Seq(Block) /\ reorgs \in Nat
        BY <1>1, BoundsAssumption DEF IInv, TypeOK, Fork
      <4>2. DOMAIN chain = 1 .. Len(chain)
        BY <4>1, LenProperties
      <4> QED BY <1>1, <4>1, <4>2 DEF ChainSound
    <3> QED BY <1>2, <3>1 DEF Hash
  <2> QED BY <1>1, <1>4, <1>7, <2>1 DEF ChainSound
<1>10. RowsSound'
  <2>1. LogsIn(b, r) \subseteq LogsIn(b, k)
    <3>1. b .. r \subseteq b .. k
      BY <1>2
    <3> QED BY <3>1 DEF LogsIn
  <2> QED BY <1>2, <1>4, <1>6, <1>7, <1>8, <2>1 DEF RowsSound
<1>11. ASSUME NEW q \in Scans PROVE ScanSound(q)'
  <2>1. CASE q # s
    BY <1>5, <2>1 DEF ScanSound
  <2>2. CASE q = s
    <3>1. scan'[s].at.last = r /\ scan'[s].at.hash = Hash(r)
      BY <1>4, <1>5
    <3>2. ScanOn(s)'
      BY <1>5, <1>7, <1>8, <3>1 DEF ScanOn
    <3> QED BY <1>8, <2>2, <3>2 DEF ScanSound
  <2> QED BY <2>1, <2>2
<1> QED BY <1>1, <1>9, <1>10, <1>11 DEF CInv

(* A window adds the logs of its blocks and takes no other row away.       *)
LEMMA CommitSound ==
  ASSUME CInv, NEW s \in Scans, CommitWindow(s)
  PROVE  CInv'
<1>1. /\ IInv /\ IInv' /\ ChainSound /\ RowsSound
      /\ pc[s] = "window" /\ ~Off /\ ScanOn(s)
  BY CommitGood DEF CommitWindow, CInv, ScanSound, ScanOff
<1>2. PICK b \in Nat \ {0}, k \in Nat, a \in Nat, t \in Nat :
        /\ b = StartBlock /\ k = Confirmed /\ a = scan[s].at.last /\ t = toBlock(s)
        /\ b <= a + 1 /\ a < t /\ t <= k /\ t \in 0 .. Len(chain) /\ k <= Len(chain)
  <2>1. /\ scan[s].at.last \in Nat /\ StartBlock - 1 <= scan[s].at.last
        /\ toBlock(s) \in Nat /\ scan[s].at.last < toBlock(s)
        /\ toBlock(s) <= Confirmed /\ toBlock(s) \in 0 .. Len(chain)
    BY <1>1, ScanTyped, WindowBounds
  <2>2. Confirmed \in Nat /\ StartBlock \in Nat \ {0} /\ Confirmed <= Len(chain)
    BY <1>1, ConfirmedBounds, BlocksAssumption DEF IInv
  <2>3. PICK b \in Nat \ {0}, k \in Nat : b = StartBlock /\ k = Confirmed
    BY <2>2
  <2>4. PICK a \in Nat, t \in Nat : a = scan[s].at.last /\ t = toBlock(s)
    BY <2>1
  <2>5. b <= a + 1 /\ a < t /\ t <= k /\ t \in 0 .. Len(chain) /\ k <= Len(chain)
    BY <2>1, <2>2, <2>3, <2>4
  <2> QED BY <2>3, <2>4, <2>5
<1> DEFINE logs == LogsIn(a + 1, t)
           rows == IF scan[s].replace THEN Outside(a + 1, t) ELSE events
<1>3. /\ scan[s].logs = logs /\ scan[s].hash = Hash(t) /\ Scanned(a)
  BY <1>1, <1>2 DEF ScanOn
<1>4. /\ events' = {e \in rows : e.tx \notin {l.tx : l \in logs}} \cup logs
      /\ cursor' = [last |-> t, hash |-> Hash(t)]
      /\ UNCHANGED <<world, faults>>
  BY <1>2, <1>3 DEF CommitWindow, Advance
<1>5. /\ pc'[s] = "loop" /\ scan'[s].at = cursor'
      /\ \A q \in Scans \ {s} : pc'[q] = pc[q] /\ scan'[q] = scan[q]
  BY <1>1 DEF CommitWindow, Advance, IInv, TypeOK, Locals
<1>6. events \subseteq LogsIn(b, k)
  BY <1>1, <1>2 DEF RowsSound, Off, Canonical
<1>7. \A m, n \in 1 .. Len(chain) : chain[m].tx = chain[n].tx => m = n \/ chain[m].tx = NoTx
  <2>1. DOMAIN chain = 1 .. Len(chain)
    BY <1>1, LenProperties DEF IInv, TypeOK
  <2> QED BY <1>1, <2>1 DEF ChainSound
<1>8. events \subseteq events'
  <2> SUFFICES ASSUME NEW e \in events PROVE e \in events'
    OBVIOUS
  <2>1. /\ e.number \in b .. k /\ chain[e.number].tx # NoTx
        /\ e = RowAt(e.number) /\ e.tx = chain[e.number].tx
    BY <1>6, LogMember DEF RowAt
  <2>2. CASE e.number \in a + 1 .. t
    BY <1>4, <2>1, <2>2, LogMember
  <2>3. CASE e.number \notin a + 1 .. t
    <3>1. e \in rows
      BY <2>3 DEF Outside
    <3>2. ASSUME NEW l \in logs PROVE e.tx # l.tx
      <4>1. l.number \in a + 1 .. t /\ l.tx = chain[l.number].tx
        <5>1. l.number \in a + 1 .. t /\ l = RowAt(l.number)
          BY LogMember
        <5> QED BY <5>1 DEF RowAt
      <4>2. e.number \in 1 .. Len(chain) /\ l.number \in 1 .. Len(chain)
        BY <1>2, <2>1, <4>1
      <4> QED BY <1>7, <2>1, <2>3, <4>1, <4>2
    <3> HIDE DEF rows, logs
    <3> QED BY <1>4, <3>1, <3>2
  <2> QED BY <2>2, <2>3
<1>9. logs \subseteq events' /\ events' \subseteq LogsIn(b, k)
  <2>1. rows \subseteq events
    BY DEF Outside
  <2>2. logs \subseteq LogsIn(b, k)
    <3>1. a + 1 .. t \subseteq b .. k
      BY <1>2
    <3> QED BY <3>1 DEF LogsIn
  <2> HIDE DEF rows, logs
  <2> QED BY <1>4, <1>6, <2>1, <2>2
<1>10. LogsIn(b, t) \subseteq events'
  <2> SUFFICES ASSUME NEW e \in LogsIn(b, t) PROVE e \in events'
    OBVIOUS
  <2>1. /\ e.number \in b .. t /\ chain[e.number].tx # NoTx /\ e = RowAt(e.number)
    BY LogMember
  <2>2. e \in LogsIn(b, a) \/ e \in logs
    <3>1. e.number \in b .. a \/ e.number \in a + 1 .. t
      BY <1>2, <2>1
    <3> QED BY <2>1, <3>1, LogMember
  <2>3. LogsIn(b, a) \subseteq events
    BY <1>2, <1>3 DEF Scanned
  <2> HIDE DEF logs
  <2> QED BY <1>8, <1>9, <2>2, <2>3
<1> HIDE DEF logs, rows
<1>11. /\ \A n : Hash(n)' = Hash(n) /\ \A l, m : LogsIn(l, m)' = LogsIn(l, m)
       /\ Confirmed' = Confirmed /\ chain' = chain /\ reorgs' = reorgs
  BY <1>4 DEF Hash, LogsIn, Confirmed, world
<1>12. ~Off' /\ cursor' # NoCursor
  <2>1. Hash(t)' = cursor'.hash
    BY <1>4, <1>11
  <2>2. cursor' # NoCursor
    <3>1. Hash(t) \in 0 .. MaxReorgs
      BY <1>1, <1>2, HashIsTyped DEF IInv, Fork
    <3>2. Hash(t) # MaxReorgs + 1
      BY <3>1, BoundsAssumption
    <3> QED BY <1>4, <3>2 DEF NoCursor
  <2> QED BY <1>4, <2>1, <2>2 DEF Off
<1>13. ChainSound'
  <2>1. Hash(t) <= reorgs
    <3>1. DOMAIN chain = 1 .. Len(chain)
      BY <1>1, LenProperties DEF IInv, TypeOK
    <3>2. t \in 1 .. Len(chain)
      BY <1>2
    <3> QED BY <1>1, <3>1, <3>2 DEF ChainSound, Hash
  <2> QED BY <1>1, <1>4, <1>11, <2>1 DEF ChainSound
<1>14. RowsSound'
  BY <1>2, <1>4, <1>9, <1>10, <1>11, <1>12 DEF RowsSound, Scanned
<1>15. ASSUME NEW q \in Scans PROVE ScanSound(q)'
  <2>1. CASE q # s /\ pc'[q] # "idle"
    <3>1. ScanOn(q) /\ pc'[q] = pc[q] /\ scan'[q] = scan[q]
      BY <1>1, <1>5, <2>1 DEF CInv, ScanSound
    <3>2. toBlock(q)' = toBlock(q)
      BY <3>1 DEF toBlock
    <3>3. PICK n \in Nat : n = scan[q].at.last
      BY <1>1, <2>1, <3>1, ScanTyped
    <3>4. Scanned(n)'
      BY <1>8, <1>11, <3>1, <3>3 DEF ScanOn, Scanned
    <3>5. ScanOn(q)'
      BY <1>11, <3>1, <3>2, <3>3, <3>4 DEF ScanOn
    <3> QED BY <1>12, <3>5 DEF ScanSound
  <2>2. CASE q = s
    <3>1. scan'[s].at.last = t /\ scan'[s].at.hash = Hash(t)
      BY <1>4, <1>5
    <3>2. Scanned(t)'
      BY <1>2, <1>10, <1>11 DEF Scanned
    <3>3. ScanOn(s)'
      BY <1>5, <1>11, <3>1, <3>2 DEF ScanOn
    <3> QED BY <1>12, <2>2, <3>3 DEF ScanSound
  <2> QED BY <2>1, <2>2 DEF ScanSound
<1> QED BY <1>1, <1>13, <1>14, <1>15 DEF CInv

LEMMA ForgetSound ==
  ASSUME CInv, NEW s \in Scans, Done(s) \/ Abort(s), IInv'
  PROVE  CInv'
<1>1. /\ pc[s] # "idle" /\ UNCHANGED <<world, db>> /\ pc'[s] = "idle"
      /\ \A r \in Scans \ {s} : pc'[r] = pc[r] /\ scan'[r] = scan[r]
  BY DEF Done, Abort, CInv, IInv, TypeOK
<1>2. ScanSound(s)'
  BY <1>1 DEF ScanSound
<1> QED BY <1>1, <1>2, LocalSound

LEMMA InitSound == Init => CInv
<1> SUFFICES ASSUME Init PROVE CInv
  OBVIOUS
<1>1. DOMAIN chain = {} /\ cursor = NoCursor /\ events = {}
  BY DEF Init
<1>2. ChainSound /\ RowsSound
  BY <1>1 DEF ChainSound, RowsSound, Canonical, Off
<1>3. \A s \in Scans : ScanSound(s)
  BY DEF Init, ScanSound
<1> QED BY <1>2, <1>3, InitGood DEF CInv

LEMMA NextSound ==
  ASSUME CInv, [Next]_vars, Faults = {}
  PROVE  CInv'
<1>1. IInv'
  BY NextGood DEF CInv
<1>2. CASE MineBlock
  BY <1>2, MineSound
<1>3. CASE \E depth \in 1 .. MaxBlocks : Reorg(depth)
  BY <1>3, ReorgSound
<1>4. ASSUME NEW s \in Scans, NEW from \in BackfillBlocks, StartBackfill(s, from)
      PROVE  CInv'
  BY <1>4, StartBackfillSound
<1>5. ASSUME NEW s \in Scans, Step(s) PROVE CInv'
  <2>1. CASE StartPoll(s)
    BY <2>1, StartPollSound
  <2>2. CASE Done(s)
    BY <1>1, <2>2, ForgetSound
  <2>3. CASE CheckBoundary(s)
    BY <1>1, <2>3, CheckSound
  <2>4. CASE getPreviousBlockHash(s)
    BY <1>1, <2>4, PreviousSound
  <2>5. CASE rewindCursorWindow(s)
    BY <2>5, RewindSound
  <2>6. CASE getLogs(s) \/ getBlock(s)
    BY <1>1, <2>6, AnswerSound
  <2>7. CASE CommitWindow(s)
    BY <2>7, CommitSound
  <2> QED BY <1>5, <2>1, <2>2, <2>3, <2>4, <2>5, <2>6, <2>7 DEF Step
<1>6. ASSUME NEW s \in Scans, Abort(s) PROVE CInv'
  BY <1>1, <1>6, ForgetSound
<1>7. CASE UNCHANGED vars
  <2>1. UNCHANGED <<world, db>> /\ pc' = pc /\ scan' = scan
    BY <1>7 DEF vars
  <2>2. ChainSound' /\ RowsSound'
    BY <2>1 DEF CInv, ChainSound, RowsSound, world, db, Canonical, Scanned, Off, Hash,
                LogsIn, Confirmed, RewindPoint
  <2>3. ASSUME NEW s \in Scans PROVE ScanSound(s)'
    <3>1. ScanSound(s) /\ toBlock(s)' = toBlock(s) /\ rewindTo(s)' = rewindTo(s)
      BY <2>1 DEF CInv, toBlock, rewindTo
    <3>2. /\ ScanOn(s)' <=> ScanOn(s)
          /\ ScanOff(s)' <=> ScanOff(s)
      BY <2>1, <3>1, Frozen DEF ScanOn, ScanOff, db
    <3> QED BY <2>1, <3>1, <3>2, Frozen DEF ScanSound
  <2> QED BY <1>1, <2>2, <2>3 DEF CInv
<1> QED BY <1>2, <1>3, <1>4, <1>5, <1>6, <1>7 DEF Next

(* While the stored hash is on the chain, the rows up to the cursor are    *)
(* exactly the logs of the chain, whatever polls, backfills, rewinds,      *)
(* reorganisations and failures came before (scanner.ts, backfill.ts), for *)
(* reorganisations and backfills of the kinds that Faults = {} leaves.     *)
THEOREM IndexIsExact == ASSUME Faults = {} PROVE Spec => []IndexIsCanonical
<1>1. CInv /\ [Next]_vars => CInv'
  BY NextSound
<1>2. CInv => IndexIsCanonical
  <2> SUFFICES ASSUME CInv, Canonical
               PROVE  {e \in events : e.number <= cursor.last} = LogsIn(StartBlock, cursor.last)
    BY DEF IndexIsCanonical
  <2>1. PICK b \in Nat, c \in Nat, k \in Nat :
          /\ b = StartBlock /\ c = cursor.last /\ k = Confirmed
    BY CursorTyped, ConfirmedBounds, BlocksAssumption DEF CInv, IInv, Canonical
  <2>2. events \subseteq LogsIn(b, k) /\ LogsIn(b, c) \subseteq events
    BY <2>1 DEF CInv, RowsSound, Scanned
  <2>3. ASSUME NEW e \in events, e.number <= c PROVE e \in LogsIn(b, c)
    BY <2>2, <2>3, LogMember
  <2>4. ASSUME NEW e \in LogsIn(b, c) PROVE e \in events /\ e.number <= c
    BY <2>2, LogMember
  <2> QED BY <2>1, <2>3, <2>4
<1> QED BY InitSound, <1>1, <1>2, PTL DEF Spec

===============================================================================
