----------------------------- MODULE ServicesProofs -----------------------------
(***************************************************************************)
(* Proofs about the services of the API that need no other, for any number *)
(* of operations, processes and failures.                                  *)
(***************************************************************************)
EXTENDS Accounts, AgentIdentity, Transfers, RoomNumbers, InferencePairs, JudgeTracker,
        FiniteSetTheorems, WellFoundedInduction, TLAPS

-----------------------------------------------------------------------------
(* Transfers.  Circle's transactions are never undone, so the invariant says *)
(* of every state of a record, and of every place a run may be in, what the  *)
(* transactions already are.                                                 *)

Unknown == {"PENDING", "SUBMITTED", "RECOVERY_REQUIRED"}

\* A withdrawal's record, its run, its transaction and the answers not applied yet.
WithdrawalKept(w) ==
    LET state == withdrawal[w].state
    IN  /\ state \in Unknown => unresolved = w
        /\ state = "ABSENT" => send[w] = "idle" /\ answers[w] = {}
        /\ state = "SUBMITTED" \/ send[w] = "answered" \/ answers[w] # {} => moved[w] # "none"
        /\ state = "CONFIRMED" \/ "confirmed" \in answers[w] => moved[w] = "confirmed"
        /\ state = "FAILED" \/ "failed" \in answers[w] => moved[w] = "failed"

Burn == [bridge : Bridges, key : Nat, total : Nat, state : Executions \ {"none"}]
BridgeRecord == [state : Resumable \cup {"ABSENT", "COMPLETE", "FAILED", "RECOVERY_REQUIRED"},
                 approvalKey : BOOLEAN, burnKey : Nat, approvalId : BOOLEAN, burnId : BOOLEAN,
                 hash : {"none", "approval", "burn"}, plan : Nat]

TransfersTyped ==
    /\ TransfersTypeOK
    /\ bridge \in [Bridges -> BridgeRecord] /\ drawn \in [Bridges -> Nat]
    /\ burns \subseteq Burn

Planned == {"approve", "approved", "approval", "burn", "burned", "burning"}

\* A bridge's record, the place its run is at and its burns, of which there is at most one.
Fits(b, own, pc, burnt, done) ==
    /\ own.state = "ABSENT" => own = NoBridge
    /\ pc = "checked" => own.state = "ABSENT"
    /\ pc \notin {"idle", "checked", "mint"} => own.burnKey > 0
    /\ pc = "quoting" => own.state \in {"PENDING", "APPROVING", "BURNING"}
    /\ pc \in {"approve", "approved", "approval"} => own.state \in {"APPROVING", "BURNING"}
    /\ pc \in {"burn", "burned", "burning"} => own.state = "BURNING"
    /\ pc \in Planned => own.plan > 0
    /\ pc = "mint" => own.state = "SUBMITTED"
    /\ \A x \in burnt : x.bridge = b =>
          /\ own.state \in {"BURNING", "SUBMITTED", "COMPLETE", "RECOVERY_REQUIRED"}
          /\ x.key = own.burnKey
          /\ x.key > 0 => x.total = own.plan /\ own.plan > 0
    /\ own.state \in {"SUBMITTED", "COMPLETE"} =>
          \E x \in burnt : x.bridge = b /\ x.state = "confirmed" /\ x.total = own.plan
    /\ own.state = "COMPLETE" => b \in done

BridgeKept(b) == Fits(b, bridge[b], run[b], burns, minted)

TransfersInv ==
    /\ TransfersTyped
    /\ \A w \in Withdrawals : WithdrawalKept(w)
    /\ \A b \in Bridges : BridgeKept(b)
    /\ \A x \in burns, y \in burns : x.bridge = y.bridge => x = y

\* What an update does to the record it is of, and to no other.
LEMMA Updated ==
    ASSUME TransfersInv, NEW w \in Withdrawals, withdrawal[w].state # "ABSENT",
           NEW state \in {"SUBMITTED", "CONFIRMED", "FAILED", "RECOVERY_REQUIRED"},
           UpdateUsdc(w, state)
    PROVE  /\ withdrawal' \in [Withdrawals ->
                  [state : {"ABSENT", "PENDING", "SUBMITTED", "CONFIRMED", "FAILED", "RECOVERY_REQUIRED"},
                   payment : Payments \cup {Nothing}]]
           /\ unresolved' \in Withdrawals \cup {Nothing}
           /\ \A v \in Withdrawals : withdrawal'[v].state \in Unknown => unresolved' = v
           /\ \A v \in Withdrawals \ {w} : withdrawal'[v] = withdrawal[v]
           /\ withdrawal'[w].state \in {state, withdrawal[w].state}
           /\ withdrawal'[w].state = "PENDING" => withdrawal' = withdrawal
           /\ withdrawal'[w].state = withdrawal[w].state \/ withdrawal[w].state \in {"PENDING", "SUBMITTED"}
<1>1. /\ \A v \in Withdrawals : withdrawal[v].state \in Unknown => unresolved = v
      /\ withdrawal \in [Withdrawals ->
             [state : {"ABSENT", "PENDING", "SUBMITTED", "CONFIRMED", "FAILED", "RECOVERY_REQUIRED"},
              payment : Payments \cup {Nothing}]]
      /\ unresolved \in Withdrawals \cup {Nothing}
  BY DEF TransfersInv, WithdrawalKept, TransfersTyped, TransfersTypeOK
<1>2. CASE UNCHANGED <<withdrawal, unresolved>>
  BY <1>1, <1>2
<1>3. CASE /\ withdrawal[w].state \in {"PENDING", "SUBMITTED"}
           /\ withdrawal' = [withdrawal EXCEPT ![w].state = state]
           /\ unresolved' = IF state \in {"CONFIRMED", "FAILED"} /\ unresolved = w
                            THEN Nothing ELSE unresolved
  <2>1. /\ withdrawal'[w].state = state /\ unresolved = w
        /\ \A v \in Withdrawals \ {w} : withdrawal'[v] = withdrawal[v]
    BY <1>1, <1>3 DEF Unknown
  <2>2. withdrawal' \in [Withdrawals ->
             [state : {"ABSENT", "PENDING", "SUBMITTED", "CONFIRMED", "FAILED", "RECOVERY_REQUIRED"},
              payment : Payments \cup {Nothing}]]
    BY <1>1, <1>3
  <2>3. \A v \in Withdrawals : withdrawal'[v].state \in Unknown => unresolved' = v
    BY <1>1, <1>3, <2>1 DEF Unknown
  <2> QED BY <1>1, <1>3, <2>1, <2>2, <2>3
<1> QED BY <1>1, <1>2, <1>3 DEF UpdateUsdc

\* The bridges do not notice a withdrawal.
LEMMA BridgesStay ==
    ASSUME TransfersInv, UNCHANGED <<cctpVars, ends>>,
           /\ withdrawal' \in [Withdrawals ->
                 [state : {"ABSENT", "PENDING", "SUBMITTED", "CONFIRMED", "FAILED", "RECOVERY_REQUIRED"},
                  payment : Payments \cup {Nothing}]]
           /\ unresolved' \in Withdrawals \cup {Nothing}
           /\ send' \in [Withdrawals -> {"idle", "sending", "answered"}]
           /\ moved' \in [Withdrawals -> Executions]
           /\ answers' \in [Withdrawals -> SUBSET Answer],
           \A w \in Withdrawals : WithdrawalKept(w)'
    PROVE  TransfersInv'
<1> USE DEF cctpVars
<1>1. TransfersTyped'
  BY DEF TransfersInv, TransfersTyped, TransfersTypeOK
<1>2. ASSUME NEW b \in Bridges PROVE BridgeKept(b)'
  BY DEF TransfersInv, BridgeKept
<1> QED BY <1>1, <1>2 DEF TransfersInv

LEMMA WithdrawalTyped ==
    ASSUME TransfersInv
    PROVE  /\ withdrawal \in [Withdrawals ->
                 [state : {"ABSENT", "PENDING", "SUBMITTED", "CONFIRMED", "FAILED", "RECOVERY_REQUIRED"},
                  payment : Payments \cup {Nothing}]]
           /\ unresolved \in Withdrawals \cup {Nothing}
           /\ send \in [Withdrawals -> {"idle", "sending", "answered"}]
           /\ moved \in [Withdrawals -> Executions]
           /\ answers \in [Withdrawals -> SUBSET Answer]
           /\ \A w \in Withdrawals : WithdrawalKept(w)
           /\ Nothing \notin Withdrawals \cup Payments
BY TransfersAssumption DEF TransfersInv, TransfersTyped, TransfersTypeOK

LEMMA StartKeeps ==
    ASSUME TransfersInv, NEW w \in Withdrawals, NEW p \in Payments, StartWithdrawal(w, p)
    PROVE  TransfersInv'
<1> DEFINE a == unresolved
<1> USE WithdrawalTyped
<1>1. UNCHANGED <<moved, answers, cctpVars, ends>>
  BY DEF StartWithdrawal
<1>2. CASE /\ a # Nothing /\ ~Settled(a)
           /\ withdrawal[a].payment = p /\ withdrawal[a].state = "PENDING" /\ send[a] = "idle"
           /\ send' = [send EXCEPT ![a] = "sending"]
           /\ UNCHANGED <<withdrawal, unresolved>>
  <2>1. ASSUME NEW v \in Withdrawals PROVE WithdrawalKept(v)'
    BY <1>1, <1>2, WithdrawalKept(v) DEF WithdrawalKept
  <2>2. send' \in [Withdrawals -> {"idle", "sending", "answered"}]
    BY <1>2
  <2> QED BY <1>1, <1>2, <2>1, <2>2, BridgesStay
<1>3. CASE /\ a = Nothing \/ Settled(a)
           /\ withdrawal[w] = NoWithdrawal
           /\ withdrawal' = [withdrawal EXCEPT ![w] = [state |-> "PENDING", payment |-> p]]
           /\ unresolved' = w
           /\ send' = [send EXCEPT ![w] = "sending"]
  <2>1. \A v \in Withdrawals : withdrawal[v].state \notin Unknown
    BY <1>3 DEF WithdrawalKept, Settled, Unknown
  <2>2. withdrawal[w].state = "ABSENT" /\ withdrawal'[w].state = "PENDING"
    BY <1>3 DEF NoWithdrawal
  <2>3. ASSUME NEW v \in Withdrawals PROVE WithdrawalKept(v)'
    <3>1. CASE v = w
      BY <1>1, <1>3, <2>2, <3>1, WithdrawalKept(w) DEF WithdrawalKept
    <3>2. CASE v # w
      <4>1. withdrawal'[v] = withdrawal[v] /\ send'[v] = send[v]
        BY <1>3, <3>2
      <4> QED BY <1>1, <2>1, <4>1, WithdrawalKept(v) DEF WithdrawalKept
    <3> QED BY <3>1, <3>2
  <2>4. /\ send' \in [Withdrawals -> {"idle", "sending", "answered"}]
        /\ withdrawal' \in [Withdrawals ->
                 [state : {"ABSENT", "PENDING", "SUBMITTED", "CONFIRMED", "FAILED", "RECOVERY_REQUIRED"},
                  payment : Payments \cup {Nothing}]]
    BY <1>3
  <2> QED BY <1>1, <1>3, <2>3, <2>4, BridgesStay
<1> QED BY <1>2, <1>3 DEF StartWithdrawal

\* Circle's side of a withdrawal, which only moves forward.
LEMMA MovedKeeps ==
    ASSUME TransfersInv, NEW w \in Withdrawals,
           TransferUsdc(w) \/ ReadTransfer(w) \/ ExecuteWithdrawal(w)
    PROVE  TransfersInv'
<1> USE WithdrawalTyped
<1>1. CASE TransferUsdc(w)
  <2>1. /\ send' \in [Withdrawals -> {"idle", "sending", "answered"}]
        /\ moved' \in [Withdrawals -> Executions]
    BY <1>1 DEF TransferUsdc, Executions
  <2>2. ASSUME NEW v \in Withdrawals PROVE WithdrawalKept(v)'
    BY <1>1, WithdrawalKept(v) DEF TransferUsdc, WithdrawalKept, Executions
  <2> QED BY <1>1, <2>1, <2>2, BridgesStay DEF TransferUsdc
<1>2. CASE ReadTransfer(w)
  <2>1. PICK a \in {moved[w], "replaced"} : answers' = [answers EXCEPT ![w] = @ \cup {a}]
    BY <1>2 DEF ReadTransfer
  <2>2. moved[w] # "none" /\ withdrawal[w].state = "SUBMITTED"
    BY <1>2 DEF ReadTransfer, WithdrawalKept
  <2>3. answers' \in [Withdrawals -> SUBSET Answer]
    BY <2>1, <2>2 DEF Answer, Executions
  <2>4. ASSUME NEW v \in Withdrawals PROVE WithdrawalKept(v)'
    BY <1>2, <2>1, <2>2, WithdrawalKept(v) DEF ReadTransfer, WithdrawalKept
  <2> QED BY <1>2, <2>3, <2>4, BridgesStay DEF ReadTransfer
<1>3. CASE ExecuteWithdrawal(w)
  <2>1. moved' \in [Withdrawals -> Executions]
    BY <1>3 DEF ExecuteWithdrawal, Executions
  <2>2. ASSUME NEW v \in Withdrawals PROVE WithdrawalKept(v)'
    BY <1>3, WithdrawalKept(v) DEF ExecuteWithdrawal, WithdrawalKept
  <2> QED BY <1>3, <2>1, <2>2, BridgesStay DEF ExecuteWithdrawal
<1> QED BY <1>1, <1>2, <1>3

\* What the process records of it.
LEMMA NotedKeeps ==
    ASSUME TransfersInv, NEW w \in Withdrawals,
           Submitted(w) \/ SendFails(w) \/ ApplyAnswer(w)
    PROVE  TransfersInv'
<1> USE WithdrawalTyped
<1>1. CASE Submitted(w) \/ SendFails(w)
  <2>1. PICK state \in {"SUBMITTED", "RECOVERY_REQUIRED"} :
           /\ UpdateUsdc(w, state) /\ send[w] # "idle" /\ send' = [send EXCEPT ![w] = "idle"]
           /\ state = "SUBMITTED" => send[w] = "answered"
           /\ UNCHANGED <<moved, answers, cctpVars, ends>>
    BY <1>1 DEF Submitted, SendFails, Uncertain
  <2>2. withdrawal[w].state # "ABSENT"
    BY <2>1 DEF WithdrawalKept
  <2>3. send' \in [Withdrawals -> {"idle", "sending", "answered"}]
    BY <2>1
  <2>4. ASSUME NEW v \in Withdrawals PROVE WithdrawalKept(v)'
    <3>1. CASE v = w
      BY <2>1, <2>2, <3>1, Updated, WithdrawalKept(w) DEF WithdrawalKept
    <3>2. CASE v # w
      BY <2>1, <2>2, <3>2, Updated, WithdrawalKept(v) DEF WithdrawalKept
    <3> QED BY <3>1, <3>2
  <2> QED BY <2>1, <2>2, <2>3, <2>4, Updated, BridgesStay
<1>2. CASE ApplyAnswer(w)
  <2>1. PICK a \in answers[w] :
           /\ answers' = [answers EXCEPT ![w] = @ \ {a}] /\ UpdateUsdc(w, Applied[a])
           /\ UNCHANGED <<send, moved, cctpVars, ends>>
    BY <1>2 DEF ApplyAnswer
  <2>2. withdrawal[w].state # "ABSENT" /\ moved[w] # "none" /\ a \in Answer
    BY DEF WithdrawalKept
  <2>3. /\ Applied[a] \in {"SUBMITTED", "CONFIRMED", "FAILED", "RECOVERY_REQUIRED"}
        /\ Applied[a] = "CONFIRMED" => a = "confirmed"
        /\ Applied[a] = "FAILED" => a = "failed"
    BY <2>2 DEF Applied, Answer
  <2>4. answers' \in [Withdrawals -> SUBSET Answer]
    BY <2>1
  <2>5. ASSUME NEW v \in Withdrawals PROVE WithdrawalKept(v)'
    <3>1. CASE v = w
      BY <2>1, <2>2, <2>3, <3>1, Updated, WithdrawalKept(w) DEF WithdrawalKept
    <3>2. CASE v # w
      BY <2>1, <2>2, <2>3, <3>2, Updated, WithdrawalKept(v) DEF WithdrawalKept
    <3> QED BY <3>1, <3>2
  <2> QED BY <2>1, <2>2, <2>3, <2>4, <2>5, Updated, BridgesStay
<1> QED BY <1>1, <1>2

-----------------------------------------------------------------------------
(* Bridges. *)

LEMMA BridgeTyped ==
    ASSUME TransfersInv
    PROVE  /\ bridge \in [Bridges -> BridgeRecord] /\ run \in [Bridges -> RunPc]
           /\ drawn \in [Bridges -> Nat] /\ approval \in [Bridges -> Executions]
           /\ burns \subseteq Burn /\ allowance \in Nat /\ source \in Nat
           /\ minted \subseteq Bridges
           /\ \A b \in Bridges : BridgeKept(b) /\ bridge[b].burnKey <= drawn[b]
BY DEF TransfersInv, TransfersTyped, TransfersTypeOK

\* The withdrawals do not notice a bridge.
LEMMA WithdrawalsStay ==
    ASSUME TransfersInv, UNCHANGED usdcVars, ends' \in 0..MaxEnds,
           bridge' \in [Bridges -> BridgeRecord], run' \in [Bridges -> RunPc],
           drawn' \in [Bridges -> Nat], approval' \in [Bridges -> Executions],
           burns' \subseteq Burn, allowance' \in Nat, source' \in Nat, minted' \subseteq Bridges,
           \A b \in Bridges : bridge'[b].burnKey <= drawn'[b],
           \A b \in Bridges : BridgeKept(b)',
           \A x \in burns', y \in burns' : x.bridge = y.bridge => x = y
    PROVE  TransfersInv'
<1> USE DEF usdcVars
<1>1. ASSUME NEW b \in Bridges
      PROVE  /\ bridge'[b].state \in Resumable \cup {"ABSENT", "COMPLETE", "FAILED", "RECOVERY_REQUIRED"}
             /\ bridge'[b].hash \in {"none", "approval", "burn"}
             /\ bridge'[b].burnKey \in 0..drawn'[b]
  <2>1. bridge'[b] \in BridgeRecord /\ drawn'[b] \in Nat
    OBVIOUS
  <2> QED BY <2>1 DEF BridgeRecord
<1>2. \A x \in burns' : x.bridge \in Bridges /\ x.state \in Executions \ {"none"}
  BY DEF Burn
<1>3. TransfersTyped'
  BY <1>1, <1>2 DEF TransfersInv, TransfersTyped, TransfersTypeOK
<1>4. ASSUME NEW w \in Withdrawals PROVE WithdrawalKept(w)'
  BY DEF TransfersInv, WithdrawalKept
<1> QED BY <1>3, <1>4 DEF TransfersInv

\* A step of one bridge's run that burns nothing.
LEMMA OwnStep ==
    ASSUME TransfersInv, NEW b \in Bridges, NEW own \in BridgeRecord, NEW pc \in RunPc,
           bridge' = [bridge EXCEPT ![b] = own], run' = [run EXCEPT ![b] = pc],
           UNCHANGED <<usdcVars, burns, source, minted, ends>>, allowance' \in Nat,
           approval' \in [Bridges -> Executions], drawn' \in [Bridges -> Nat],
           own.burnKey <= drawn'[b], \A c \in Bridges \ {b} : drawn'[c] = drawn[c],
           Fits(b, own, pc, burns, minted)
    PROVE  TransfersInv'
<1> USE BridgeTyped
<1>1. bridge' \in [Bridges -> BridgeRecord] /\ run' \in [Bridges -> RunPc]
  OBVIOUS
<1>2. ASSUME NEW c \in Bridges PROVE BridgeKept(c)' /\ bridge'[c].burnKey <= drawn'[c]
  <2>1. CASE c = b
    BY <2>1 DEF BridgeKept
  <2>2. CASE c # b
    <3>1. bridge'[c] = bridge[c] /\ run'[c] = run[c] /\ bridge[c].burnKey <= drawn[c]
          /\ drawn'[c] = drawn[c] /\ BridgeKept(c)
      BY <2>2
    <3> QED BY <3>1 DEF BridgeKept
  <2> QED BY <2>1, <2>2
<1>3. /\ ends' \in 0..MaxEnds
      /\ \A x \in burns', y \in burns' : x.bridge = y.bridge => x = y
  BY DEF TransfersInv, TransfersTyped, TransfersTypeOK
<1> QED BY <1>1, <1>2, <1>3, WithdrawalsStay

\* The later of two states of a record: it never goes back.
Later(old, new) == IF Rank[new] < Rank[old] THEN old ELSE new

LEMMA LaterIs ==
    ASSUME NEW old \in Resumable, NEW new \in Resumable \cup {"COMPLETE", "FAILED", "RECOVERY_REQUIRED"}
    PROVE  /\ Later(old, new) \in {old, new}
           /\ new \in {"COMPLETE", "FAILED", "RECOVERY_REQUIRED", "SUBMITTED"} => Later(old, new) = new
           /\ new = "BURNING" /\ old # "SUBMITTED" => Later(old, new) = "BURNING"
           /\ new = "APPROVING" => Later(old, new) = IF old = "PENDING" THEN "APPROVING" ELSE old
<1>1. /\ Rank["PENDING"] = 0 /\ Rank["APPROVING"] = 1 /\ Rank["BURNING"] = 2
      /\ Rank["SUBMITTED"] = 3 /\ Rank["COMPLETE"] = 4 /\ Rank["FAILED"] = 4
      /\ Rank["RECOVERY_REQUIRED"] = 4
  BY DEF Rank
<1> QED BY <1>1 DEF Later, Resumable

\* What an update makes of a record that is not finished.
LEMMA PatchedTo ==
    ASSUME TransfersInv, NEW b \in Bridges, bridge[b].state \in Resumable,
           NEW patch \in BridgeRecord, UpdateCctp(b, patch)
    PROVE  \E own \in BridgeRecord :
              /\ bridge' = [bridge EXCEPT ![b] = own]
              /\ own.burnKey = patch.burnKey /\ own.plan = patch.plan
              /\ own.state = Later(bridge[b].state, patch.state)
<1> DEFINE own == Patched(b, patch)
           back == [patch EXCEPT !.state = bridge[b].state]
<1>1. Rank[bridge[b].state] # 4
  BY DEF Rank, Resumable
<1>2. own = IF Rank[patch.state] < Rank[bridge[b].state] THEN back ELSE patch
  BY <1>1 DEF Patched
<1>3. /\ back \in BridgeRecord /\ back.burnKey = patch.burnKey /\ back.plan = patch.plan
      /\ back.state = bridge[b].state
  BY BridgeTyped DEF BridgeRecord
<1>4. bridge' = [bridge EXCEPT ![b] = own]
  BY DEF UpdateCctp
<1> HIDE DEF own, back
<1>5. /\ own \in BridgeRecord /\ own.burnKey = patch.burnKey /\ own.plan = patch.plan
      /\ own.state = Later(bridge[b].state, patch.state)
  BY <1>2, <1>3 DEF Later
<1> QED BY <1>4, <1>5

\* What is known of a bridge whose run is under way.
LEMMA Running ==
    ASSUME TransfersInv, NEW b \in Bridges, run[b] \notin {"idle", "checked"}
    PROVE  /\ bridge[b] \in BridgeRecord /\ bridge[b].state \in Resumable
           /\ bridge[b].state # "ABSENT" /\ (run[b] # "mint" => bridge[b].burnKey > 0)
           /\ Fits(b, bridge[b], run[b], burns, minted)
BY BridgeTyped DEF BridgeKept, Fits, Resumable, RunPc, Planned

\* A bridge is begun: the balance is read, then the record is made.
LEMMA BeginKeeps ==
    ASSUME TransfersInv, NEW b \in Bridges, CheckSource(b) \/ StartBridge(b)
    PROVE  TransfersInv'
<1> USE BridgeTyped
<1>1. CASE CheckSource(b)
  <2>1. /\ bridge' = [bridge EXCEPT ![b] = bridge[b]] /\ bridge[b] = NoBridge
        /\ run' = [run EXCEPT ![b] = "checked"] /\ "checked" \in RunPc
        /\ UNCHANGED <<usdcVars, approval, burns, drawn, allowance, source, minted, ends>>
    BY <1>1 DEF CheckSource, RunsAt, RunPc
  <2>2. Fits(b, bridge[b], "checked", burns, minted)
    BY <2>1 DEF BridgeKept, Fits, NoBridge, Planned
  <2> QED BY <2>1, <2>2, OwnStep
<1>2. CASE StartBridge(b)
  <2> DEFINE own == [NoBridge EXCEPT !.state = "PENDING", !.approvalKey = TRUE, !.burnKey = 1]
  <2>1. /\ run[b] = "checked" /\ bridge' = [bridge EXCEPT ![b] = own]
        /\ run' = [run EXCEPT ![b] = "quoting"] /\ drawn' = [drawn EXCEPT ![b] = 1]
        /\ UNCHANGED <<usdcVars, approval, burns, allowance, source, minted, ends>>
    BY <1>2 DEF StartBridge, RunsAt
  <2>2. own \in BridgeRecord /\ own.state = "PENDING" /\ own.burnKey = 1
    BY DEF NoBridge, BridgeRecord, Resumable
  <2> HIDE DEF own
  <2>3. \A x \in burns : x.bridge # b
    BY <2>1 DEF BridgeKept, Fits, NoBridge
  <2>4. Fits(b, own, "quoting", burns, minted) /\ "quoting" \in RunPc
    BY <2>2, <2>3 DEF Fits, Planned, RunPc
  <2>5. drawn'[b] = 1 /\ drawn' \in [Bridges -> Nat] /\ \A c \in Bridges \ {b} : drawn'[c] = drawn[c]
    BY <2>1
  <2>6. /\ own.burnKey <= drawn'[b] /\ approval' \in [Bridges -> Executions] /\ allowance' \in Nat
        /\ UNCHANGED <<usdcVars, burns, source, minted, ends>>
    BY <2>1, <2>2, <2>5
  <2> QED BY <2>1, <2>2, <2>4, <2>5, <2>6, OwnStep
<1> QED BY <1>1, <1>2

\* An unfinished bridge is taken up again, under keys that are recorded.
LEMMA ResumeKeeps ==
    ASSUME TransfersInv, NEW b \in Bridges, ResumeBridge(b)
    PROVE  TransfersInv'
<1> USE BridgeTyped
<1> DEFINE fresh == bridge[b].burnKey = 0
           key == IF fresh THEN drawn[b] + 1 ELSE bridge[b].burnKey
           keyed == IF fresh THEN [bridge[b] EXCEPT !.burnKey = drawn[b] + 1] ELSE bridge[b]
           stopped == [bridge[b] EXCEPT !.state = "RECOVERY_REQUIRED"]
<1>1. /\ run[b] = "idle" /\ bridge[b].state \in Resumable /\ bridge[b].state # "ABSENT"
      /\ bridge[b] \in BridgeRecord /\ Fits(b, bridge[b], "idle", burns, minted)
      /\ UNCHANGED <<usdcVars, approval, burns, allowance, source, minted, ends>>
  BY DEF ResumeBridge, Resumable, BridgeKept
<1>2. CASE bridge[b].state = "SUBMITTED" /\ RunsAt(b, "mint") /\ UNCHANGED <<bridge, drawn>>
  <2>1. /\ bridge' = [bridge EXCEPT ![b] = bridge[b]] /\ run' = [run EXCEPT ![b] = "mint"]
        /\ "mint" \in RunPc
    BY <1>2 DEF RunsAt, RunPc
  <2>2. Fits(b, bridge[b], "mint", burns, minted)
    BY <1>1, <1>2 DEF Fits, Planned
  <2> QED BY <1>1, <1>2, <2>1, <2>2, OwnStep
<1>3. CASE UpdateCctp(b, stopped) /\ UNCHANGED <<run, drawn>>
  <2>1. stopped \in BridgeRecord /\ stopped.state = "RECOVERY_REQUIRED"
        /\ stopped.burnKey = bridge[b].burnKey /\ stopped.plan = bridge[b].plan
    BY <1>1 DEF BridgeRecord
  <2> HIDE DEF stopped
  <2>2. PICK own \in BridgeRecord :
           /\ bridge' = [bridge EXCEPT ![b] = own] /\ own.burnKey = bridge[b].burnKey
           /\ own.plan = bridge[b].plan /\ own.state = "RECOVERY_REQUIRED"
    BY <1>1, <1>3, <2>1, PatchedTo, LaterIs
  <2>3. Fits(b, own, "idle", burns, minted)
    BY <1>1, <2>2 DEF Fits, Planned
  <2>4. run' = [run EXCEPT ![b] = "idle"] /\ "idle" \in RunPc
    BY <1>1, <1>3 DEF RunPc
  <2> QED BY <1>1, <1>3, <2>2, <2>3, <2>4, OwnStep
<1>4. CASE /\ bridge[b].state # "SUBMITTED" /\ ~Irreconcilable(b)
           /\ RunsAt(b, "quoting") /\ UpdateCctp(b, keyed)
           /\ drawn' = [drawn EXCEPT ![b] = IF fresh THEN @ + 1 ELSE @]
  <2>1. /\ bridge[b].burnKey \in Nat /\ drawn[b] \in Nat /\ bridge[b].burnKey <= drawn[b]
    BY <1>1 DEF BridgeRecord
  <2>2. /\ keyed \in BridgeRecord /\ keyed.state = bridge[b].state /\ keyed.burnKey = key
        /\ keyed.plan = bridge[b].plan
    BY <1>1, <2>1 DEF BridgeRecord
  <2>3. /\ drawn' \in [Bridges -> Nat] /\ key <= drawn'[b] /\ key > 0
        /\ \A c \in Bridges \ {b} : drawn'[c] = drawn[c]
    BY <1>4, <2>1
  <2> HIDE DEF keyed
  <2>4. PICK own \in BridgeRecord :
           /\ bridge' = [bridge EXCEPT ![b] = own] /\ own.burnKey = key
           /\ own.plan = bridge[b].plan /\ own.state = bridge[b].state
    BY <1>1, <1>4, <2>2, PatchedTo, LaterIs
  <2>5. fresh => bridge[b].state \in {"PENDING", "APPROVING"}
    BY <1>1, <1>4 DEF Irreconcilable, Resumable
  <2>6. fresh => \A x \in burns : x.bridge # b
    BY <1>1, <2>5 DEF Fits
  <2>7. bridge[b].state \in {"PENDING", "APPROVING", "BURNING"}
    BY <1>1, <1>4 DEF Resumable
  <2>8. Fits(b, own, "quoting", burns, minted)
    BY <1>1, <2>3, <2>4, <2>6, <2>7 DEF Fits, Planned
  <2>9. run' = [run EXCEPT ![b] = "quoting"] /\ "quoting" \in RunPc
    BY <1>4 DEF RunPc, RunsAt
  <2>10. approval' \in [Bridges -> Executions] /\ allowance' \in Nat
    BY <1>1
  <2> HIDE DEF key, fresh
  <2> QED BY <1>1, <2>3, <2>4, <2>8, <2>9, <2>10, OwnStep
<1> QED BY <1>2, <1>3, <1>4 DEF ResumeBridge

\* A record that is patched and a run that goes on, or ends, with it.
LEMMA PatchKeeps ==
    ASSUME TransfersInv, NEW b \in Bridges, run[b] \notin {"idle", "checked"},
           NEW patch \in BridgeRecord, UpdateCctp(b, patch), NEW pc \in RunPc, RunsAt(b, pc),
           UNCHANGED <<usdcVars, approval, burns, drawn, allowance, source, minted, ends>>,
           patch.burnKey = bridge[b].burnKey,
           \A own \in BridgeRecord :
              /\ own.burnKey = bridge[b].burnKey /\ own.plan = patch.plan
              /\ own.state = Later(bridge[b].state, patch.state)
              => Fits(b, own, pc, burns, minted)
    PROVE  TransfersInv'
<1>1. PICK own \in BridgeRecord :
         /\ bridge' = [bridge EXCEPT ![b] = own]
         /\ own.burnKey = patch.burnKey /\ own.plan = patch.plan
         /\ own.state = Later(bridge[b].state, patch.state)
  BY Running, PatchedTo
<1>2. Fits(b, own, pc, burns, minted)
  BY <1>1
<1>3. run' = [run EXCEPT ![b] = pc]
  BY DEF RunsAt
<1>4. /\ own.burnKey <= drawn'[b] /\ approval' \in [Bridges -> Executions] /\ allowance' \in Nat
      /\ drawn' \in [Bridges -> Nat]
  BY <1>1, BridgeTyped
<1> QED BY <1>1, <1>2, <1>3, <1>4, OwnStep

\* A fee is quoted and the plan is kept, or the balance is too small for it.
LEMMA QuoteKeeps ==
    ASSUME TransfersInv, NEW b \in Bridges, Quote(b)
    PROVE  TransfersInv'
<1>1. /\ run[b] = "quoting"
      /\ UNCHANGED <<usdcVars, approval, burns, drawn, allowance, source, minted, ends>>
  BY DEF Quote
<1>2. PICK fee \in Fees :
         LET total == IF bridge[b].plan > 0 THEN bridge[b].plan ELSE BridgeAmount[b] + fee
         IN  IF bridge[b].plan = 0 /\ source < total
             THEN UpdateCctp(b, [bridge[b] EXCEPT !.state = Refused(b)]) /\ RunsAt(b, "idle")
             ELSE /\ UpdateCctp(b, [bridge[b] EXCEPT !.state = "APPROVING", !.plan = total])
                  /\ RunsAt(b, IF bridge[b].approvalId THEN "approval" ELSE "approve")
  BY DEF Quote
<1>3. /\ bridge[b] \in BridgeRecord /\ bridge[b].plan \in Nat /\ bridge[b].burnKey > 0
      /\ Fits(b, bridge[b], "quoting", burns, minted)
      /\ bridge[b].state \in {"PENDING", "APPROVING", "BURNING"}
  BY <1>1, Running DEF BridgeRecord, Fits
<1> DEFINE total == IF bridge[b].plan > 0 THEN bridge[b].plan ELSE BridgeAmount[b] + fee
           refused == [bridge[b] EXCEPT !.state = Refused(b)]
           planned == [bridge[b] EXCEPT !.state = "APPROVING", !.plan = total]
           next == IF bridge[b].approvalId THEN "approval" ELSE "approve"
<1>4. CASE UpdateCctp(b, refused) /\ RunsAt(b, "idle")
  <2>1. /\ refused \in BridgeRecord /\ refused.burnKey = bridge[b].burnKey
        /\ refused.plan = bridge[b].plan /\ refused.state = Refused(b)
        /\ Refused(b) \in {"FAILED", "RECOVERY_REQUIRED"}
        /\ Refused(b) = "FAILED" => bridge[b].state = "PENDING"
    BY <1>3 DEF BridgeRecord, Refused
  <2> HIDE DEF refused
  <2>2. ASSUME NEW own \in BridgeRecord, own.burnKey = bridge[b].burnKey, own.plan = refused.plan,
               own.state = Later(bridge[b].state, refused.state)
        PROVE  Fits(b, own, "idle", burns, minted)
    <3>1. own.state = refused.state
      BY <1>3, <2>1, <2>2, LaterIs DEF Resumable
    <3> QED BY <1>3, <2>1, <2>2, <3>1 DEF Fits, Planned
  <2> QED BY <1>1, <1>4, <2>1, <2>2, PatchKeeps DEF RunPc
<1>5. CASE UpdateCctp(b, planned) /\ RunsAt(b, next)
  <2>1. total \in Nat /\ total > 0 /\ (bridge[b].plan > 0 => total = bridge[b].plan)
    BY <1>3, TransfersAssumption
  <2> HIDE DEF total
  <2>2. /\ planned \in BridgeRecord /\ planned.burnKey = bridge[b].burnKey
        /\ planned.plan = total /\ planned.state = "APPROVING"
    BY <1>3, <2>1 DEF BridgeRecord, Resumable
  <2> HIDE DEF planned
  <2>3. next \in {"approval", "approve"} /\ next \in RunPc
    BY DEF RunPc
  <2> HIDE DEF next
  <2>4. ASSUME NEW own \in BridgeRecord, own.burnKey = bridge[b].burnKey, own.plan = planned.plan,
               own.state = Later(bridge[b].state, planned.state)
        PROVE  Fits(b, own, next, burns, minted)
    <3>1. own.state = IF bridge[b].state = "PENDING" THEN "APPROVING" ELSE bridge[b].state
      BY <1>3, <2>2, <2>4, LaterIs DEF Resumable
    <3>2. own.state \in {"APPROVING", "BURNING"} /\ own.plan = total
      BY <1>3, <2>2, <2>4, <3>1
    <3>3. ASSUME NEW x \in burns, x.bridge = b
          PROVE  /\ own.state = "BURNING" /\ x.key = own.burnKey
                 /\ x.key > 0 => x.total = own.plan /\ own.plan > 0
      BY <1>3, <2>1, <2>4, <3>1, <3>2, <3>3 DEF Fits
    <3> QED BY <1>3, <2>1, <2>3, <2>4, <3>2, <3>3 DEF Fits, Planned
  <2> QED BY <1>1, <1>5, <2>2, <2>3, <2>4, PatchKeeps
<1> QED BY <1>2, <1>4, <1>5

\* The approval is asked for, and its answer recorded.
LEMMA ApprovalKeeps ==
    ASSUME TransfersInv, NEW b \in Bridges,
           CreateApproval(b) \/ ApprovalKnown(b) \/ ApprovalConfirmed(b)
    PROVE  TransfersInv'
<1>1. CASE CreateApproval(b)
  <2>1. /\ run[b] = "approve" /\ run' = [run EXCEPT ![b] = "approved"] /\ "approved" \in RunPc
        /\ UNCHANGED <<usdcVars, bridge, burns, drawn, allowance, source, minted, ends>>
        /\ approval' \in [Bridges -> Executions]
    BY <1>1, BridgeTyped DEF CreateApproval, RunsAt, RunPc, Executions
  <2>2. /\ bridge' = [bridge EXCEPT ![b] = bridge[b]] /\ bridge[b] \in BridgeRecord
        /\ bridge[b].burnKey <= drawn'[b] /\ drawn' \in [Bridges -> Nat] /\ allowance' \in Nat
    BY <2>1, BridgeTyped
  <2>3. Fits(b, bridge[b], "approved", burns, minted)
    BY <2>1, Running DEF Fits, Planned
  <2> QED BY <2>1, <2>2, <2>3, OwnStep
<1>2. CASE ApprovalKnown(b)
  <2> DEFINE known == [bridge[b] EXCEPT !.approvalId = TRUE]
  <2>1. /\ run[b] = "approved" /\ UpdateCctp(b, known) /\ RunsAt(b, "approval") /\ "approval" \in RunPc
        /\ UNCHANGED <<usdcVars, approval, burns, drawn, allowance, source, minted, ends>>
    BY <1>2 DEF ApprovalKnown, RunPc
  <2>2. /\ known \in BridgeRecord /\ known.burnKey = bridge[b].burnKey
        /\ known.plan = bridge[b].plan /\ known.state = bridge[b].state
    BY <2>1, Running DEF BridgeRecord
  <2> HIDE DEF known
  <2>3. ASSUME NEW own \in BridgeRecord, own.burnKey = bridge[b].burnKey, own.plan = known.plan,
               own.state = Later(bridge[b].state, known.state)
        PROVE  Fits(b, own, "approval", burns, minted)
    <3>1. own.state = bridge[b].state
      BY <2>2, <2>3 DEF Later
    <3>2. own.plan = bridge[b].plan /\ own.burnKey = bridge[b].burnKey
      BY <2>2, <2>3
    <3> QED BY <2>1, <3>1, <3>2, Running DEF Fits, Planned
  <2> QED BY <2>1, <2>2, <2>3, PatchKeeps
<1>3. CASE ApprovalConfirmed(b)
  <2> DEFINE next == IF bridge[b].burnId THEN "burning" ELSE "burn"
             sure == [bridge[b] EXCEPT !.state = "BURNING", !.hash = "approval"]
  <2>1. /\ run[b] = "approval" /\ UpdateCctp(b, sure) /\ RunsAt(b, next)
        /\ UNCHANGED <<usdcVars, approval, burns, drawn, allowance, source, minted, ends>>
    BY <1>3 DEF ApprovalConfirmed
  <2>2. /\ sure \in BridgeRecord /\ sure.burnKey = bridge[b].burnKey
        /\ sure.plan = bridge[b].plan /\ sure.state = "BURNING"
    BY <2>1, Running DEF BridgeRecord, Resumable
  <2>3. next \in {"burning", "burn"} /\ next \in RunPc
    BY DEF RunPc
  <2> HIDE DEF sure, next
  <2>4. /\ bridge[b].state \in {"APPROVING", "BURNING"} /\ bridge[b].plan > 0 /\ bridge[b].burnKey > 0
        /\ Fits(b, bridge[b], "approval", burns, minted)
    BY <2>1, Running DEF Fits, Planned
  <2>5. ASSUME NEW own \in BridgeRecord, own.burnKey = bridge[b].burnKey, own.plan = sure.plan,
               own.state = Later(bridge[b].state, sure.state)
        PROVE  Fits(b, own, next, burns, minted)
    <3>1. own.state = "BURNING"
      BY <2>2, <2>4, <2>5, LaterIs DEF Resumable
    <3>2. own.plan = bridge[b].plan /\ own.burnKey = bridge[b].burnKey
      BY <2>2, <2>5
    <3> QED BY <2>3, <2>4, <3>1, <3>2 DEF Fits, Planned
  <2> QED BY <2>1, <2>2, <2>3, <2>5, PatchKeeps
<1> QED BY <1>1, <1>2, <1>3

\* The run gives up for now, or for good.
LEMMA StopKeeps ==
    ASSUME TransfersInv, NEW b \in Bridges, NotYet(b) \/ BridgeFails(b)
    PROVE  TransfersInv'
<1>1. CASE NotYet(b)
  <2>1. /\ run[b] \in {"approval", "burning"} /\ run' = [run EXCEPT ![b] = "idle"] /\ "idle" \in RunPc
        /\ UNCHANGED <<usdcVars, bridge, approval, burns, drawn, allowance, source, minted, ends>>
    BY <1>1 DEF NotYet, RunsAt, RunPc
  <2>2. /\ bridge' = [bridge EXCEPT ![b] = bridge[b]] /\ bridge[b] \in BridgeRecord
        /\ bridge[b].burnKey <= drawn'[b] /\ drawn' \in [Bridges -> Nat] /\ allowance' \in Nat
        /\ approval' \in [Bridges -> Executions]
    BY <2>1, BridgeTyped
  <2>3. Fits(b, bridge[b], "idle", burns, minted)
    BY <2>1, Running DEF Fits, Planned
  <2> QED BY <2>1, <2>2, <2>3, OwnStep
<1>2. CASE BridgeFails(b)
  <2> DEFINE stopped == [bridge[b] EXCEPT !.state = "RECOVERY_REQUIRED"]
  <2>1. /\ run[b] \notin {"idle", "checked"} /\ UpdateCctp(b, stopped) /\ RunsAt(b, "idle")
        /\ "idle" \in RunPc
        /\ UNCHANGED <<usdcVars, approval, burns, drawn, allowance, source, minted, ends>>
    BY <1>2 DEF BridgeFails, RunPc
  <2>2. /\ stopped \in BridgeRecord /\ stopped.burnKey = bridge[b].burnKey
        /\ stopped.plan = bridge[b].plan /\ stopped.state = "RECOVERY_REQUIRED"
    BY <2>1, Running DEF BridgeRecord
  <2> HIDE DEF stopped
  <2>3. ASSUME NEW own \in BridgeRecord, own.burnKey = bridge[b].burnKey, own.plan = stopped.plan,
               own.state = Later(bridge[b].state, stopped.state)
        PROVE  Fits(b, own, "idle", burns, minted)
    <3>1. own.state = "RECOVERY_REQUIRED"
      BY <2>1, <2>2, <2>3, LaterIs, Running
    <3>2. own.plan = bridge[b].plan /\ own.burnKey = bridge[b].burnKey
      BY <2>2, <2>3
    <3> QED BY <2>1, <3>1, <3>2, Running DEF Fits, Planned
  <2> QED BY <2>1, <2>2, <2>3, PatchKeeps
<1> QED BY <1>1, <1>2

\* The answers about the burn and about its mint are recorded.
LEMMA BurnNotedKeeps ==
    ASSUME TransfersInv, NEW b \in Bridges, BurnKnown(b) \/ BurnConfirmed(b) \/ ReadMint(b)
    PROVE  TransfersInv'
<1>1. CASE BurnKnown(b)
  <2> DEFINE known == [bridge[b] EXCEPT !.burnId = TRUE]
  <2>1. /\ run[b] = "burned" /\ UpdateCctp(b, known) /\ RunsAt(b, "burning") /\ "burning" \in RunPc
        /\ UNCHANGED <<usdcVars, approval, burns, drawn, allowance, source, minted, ends>>
    BY <1>1 DEF BurnKnown, RunPc
  <2>2. /\ known \in BridgeRecord /\ known.burnKey = bridge[b].burnKey
        /\ known.plan = bridge[b].plan /\ known.state = bridge[b].state
    BY <2>1, Running DEF BridgeRecord
  <2> HIDE DEF known
  <2>3. ASSUME NEW own \in BridgeRecord, own.burnKey = bridge[b].burnKey, own.plan = known.plan,
               own.state = Later(bridge[b].state, known.state)
        PROVE  Fits(b, own, "burning", burns, minted)
    <3>1. own.state = bridge[b].state /\ own.plan = bridge[b].plan /\ own.burnKey = bridge[b].burnKey
      BY <2>2, <2>3 DEF Later
    <3> QED BY <2>1, <3>1, Running DEF Fits, Planned
  <2> QED BY <2>1, <2>2, <2>3, PatchKeeps
<1>2. CASE BurnConfirmed(b)
  <2> DEFINE sure == [bridge[b] EXCEPT !.state = "SUBMITTED", !.hash = "burn"]
  <2>1. /\ run[b] = "burning" /\ UpdateCctp(b, sure) /\ RunsAt(b, "idle") /\ "idle" \in RunPc
        /\ UNCHANGED <<usdcVars, approval, burns, drawn, allowance, source, minted, ends>>
    BY <1>2 DEF BurnConfirmed, RunPc
  <2>2. /\ sure \in BridgeRecord /\ sure.burnKey = bridge[b].burnKey
        /\ sure.plan = bridge[b].plan /\ sure.state = "SUBMITTED"
    BY <2>1, Running DEF BridgeRecord, Resumable
  <2> HIDE DEF sure
  <2>3. PICK x \in burns : x.bridge = b /\ x.key = bridge[b].burnKey /\ x.state = "confirmed"
    BY <1>2 DEF BurnConfirmed, BurnOf
  <2>4. /\ bridge[b].state = "BURNING" /\ bridge[b].burnKey > 0 /\ bridge[b].plan > 0
        /\ x.total = bridge[b].plan /\ Fits(b, bridge[b], "burning", burns, minted)
    BY <2>1, <2>3, Running DEF Fits, Planned
  <2>5. ASSUME NEW own \in BridgeRecord, own.burnKey = bridge[b].burnKey, own.plan = sure.plan,
               own.state = Later(bridge[b].state, sure.state)
        PROVE  Fits(b, own, "idle", burns, minted)
    <3>1. own.state = "SUBMITTED"
      BY <2>2, <2>4, <2>5, LaterIs DEF Resumable
    <3>2. own.plan = bridge[b].plan /\ own.burnKey = bridge[b].burnKey
      BY <2>2, <2>5
    <3> QED BY <2>3, <2>4, <3>1, <3>2 DEF Fits, Planned
  <2> QED BY <2>1, <2>2, <2>5, PatchKeeps
<1>3. CASE ReadMint(b)
  <2> DEFINE seen == IF MintSeen(b) THEN [bridge[b] EXCEPT !.state = "COMPLETE"] ELSE bridge[b]
  <2>1. /\ run[b] = "mint" /\ UpdateCctp(b, seen) /\ RunsAt(b, "idle") /\ "idle" \in RunPc
        /\ UNCHANGED <<usdcVars, approval, burns, drawn, allowance, source, minted, ends>>
    BY <1>3 DEF ReadMint, RunPc
  <2>2. /\ seen \in BridgeRecord /\ seen.burnKey = bridge[b].burnKey /\ seen.plan = bridge[b].plan
        /\ (seen.state = "COMPLETE" /\ b \in minted) \/ seen.state = bridge[b].state
    BY <2>1, Running DEF BridgeRecord, MintSeen
  <2> HIDE DEF seen
  <2>3. bridge[b].state = "SUBMITTED" /\ Fits(b, bridge[b], "mint", burns, minted)
    BY <2>1, Running DEF Fits
  <2>4. ASSUME NEW own \in BridgeRecord, own.burnKey = bridge[b].burnKey, own.plan = seen.plan,
               own.state = Later(bridge[b].state, seen.state)
        PROVE  Fits(b, own, "idle", burns, minted)
    <3>1. own.state = seen.state
      BY <2>2, <2>3, <2>4, LaterIs DEF Resumable
    <3>2. own.plan = bridge[b].plan /\ own.burnKey = bridge[b].burnKey
      BY <2>2, <2>4
    <3> QED BY <2>2, <2>3, <3>1, <3>2 DEF Fits, Planned
  <2> QED BY <2>1, <2>2, <2>4, PatchKeeps
<1> QED BY <1>1, <1>2, <1>3

\* A step on the chains: records, runs and keys stay.
LEMMA ChainStep ==
    ASSUME TransfersInv, UNCHANGED <<usdcVars, bridge, drawn, ends>>,
           approval' \in [Bridges -> Executions], run' \in [Bridges -> RunPc],
           burns' \subseteq Burn, allowance' \in Nat, source' \in Nat, minted' \subseteq Bridges,
           \A b \in Bridges : Fits(b, bridge[b], run'[b], burns', minted'),
           \A x \in burns', y \in burns' : x.bridge = y.bridge => x = y
    PROVE  TransfersInv'
<1>1. \A b \in Bridges : BridgeKept(b)'
  BY DEF BridgeKept
<1>2. /\ bridge' \in [Bridges -> BridgeRecord] /\ drawn' \in [Bridges -> Nat]
      /\ \A b \in Bridges : bridge'[b].burnKey <= drawn'[b]
  BY BridgeTyped
<1>3. ends' \in 0..MaxEnds
  BY DEF TransfersInv, TransfersTyped, TransfersTypeOK
<1> QED BY <1>1, <1>2, <1>3, WithdrawalsStay

\* A burn is asked for: under a key that already has one, it is that one.
LEMMA CreateBurnKeeps ==
    ASSUME TransfersInv, NEW b \in Bridges, CreateBurn(b)
    PROVE  TransfersInv'
<1> DEFINE new == [bridge |-> b, key |-> bridge[b].burnKey, total |-> bridge[b].plan,
                   state |-> "created"]
<1>1. /\ run[b] = "burn" /\ run' = [run EXCEPT ![b] = "burned"]
      /\ UNCHANGED <<usdcVars, bridge, approval, drawn, allowance, source, minted, ends>>
      /\ burns' = IF BurnOf(b) # {} THEN burns ELSE burns \cup {new}
  BY DEF CreateBurn, RunsAt
<1>2. /\ bridge[b] \in BridgeRecord /\ bridge[b].state = "BURNING" /\ bridge[b].burnKey > 0
      /\ bridge[b].plan > 0 /\ Fits(b, bridge[b], "burn", burns, minted)
  BY <1>1, Running DEF Fits, Planned
<1>3. new \in Burn
  BY <1>2 DEF Burn, BridgeRecord, Executions
<1>4. new.bridge = b /\ new.key = bridge[b].burnKey /\ new.total = bridge[b].plan
  OBVIOUS
<1> HIDE DEF new
<1>5. /\ run' \in [Bridges -> RunPc] /\ burns' \subseteq Burn
      /\ approval' \in [Bridges -> Executions] /\ allowance' \in Nat /\ source' \in Nat
      /\ minted' \subseteq Bridges
  BY <1>1, <1>3, BridgeTyped DEF RunPc
<1>6. \A x \in burns' : x \in burns \/ x = new
  BY <1>1
<1>7. \A x \in burns : x.bridge = b => burns' = burns
  BY <1>1, <1>2 DEF Fits, BurnOf
<1>8. \A x \in burns', y \in burns' : x.bridge = y.bridge => x = y
  BY <1>4, <1>6, <1>7 DEF TransfersInv
<1>9. ASSUME NEW c \in Bridges PROVE Fits(c, bridge[c], run'[c], burns', minted')
  <2>1. CASE c = b
    <3>1. run'[b] = "burned"
      BY <1>1, BridgeTyped
    <3> QED BY <1>1, <1>2, <1>4, <1>6, <2>1, <3>1 DEF Fits, Planned
  <2>2. CASE c # b
    <3>1. run'[c] = run[c] /\ BridgeKept(c) /\ minted' = minted /\ burns \subseteq burns'
      BY <1>1, <2>2, BridgeTyped
    <3>2. \A x \in burns' : x.bridge = c => x \in burns
      BY <1>4, <1>6, <2>2
    <3> QED BY <3>1, <3>2 DEF BridgeKept, Fits
  <2> QED BY <2>1, <2>2
<1> QED BY <1>1, <1>5, <1>8, <1>9, ChainStep

\* A burn is executed, or fails: no other is touched and a confirmed one never is.
LEMMA ExecuteBurnKeeps ==
    ASSUME TransfersInv, NEW x \in burns, ExecuteBurn(x)
    PROVE  TransfersInv'
<1> DEFINE to(s) == (burns \ {x}) \cup {[x EXCEPT !.state = s]}
<1>1. x \in Burn /\ x.state = "created" /\ x.total \in Nat
  BY BridgeTyped DEF ExecuteBurn, Burn
<1>2. /\ UNCHANGED <<usdcVars, bridge, run, approval, drawn, minted, ends>>
      /\ allowance' \in Nat /\ source' \in Nat
  BY <1>1, BridgeTyped DEF ExecuteBurn
<1>3. PICK s \in {"confirmed", "failed"} : burns' = to(s)
  BY DEF ExecuteBurn
<1> DEFINE y == [x EXCEPT !.state = s]
<1>4. y \in Burn /\ y.bridge = x.bridge /\ y.key = x.key /\ y.total = x.total
  BY <1>1 DEF Burn, Executions
<1>5. burns' = (burns \ {x}) \cup {y}
  BY <1>3
<1> HIDE DEF y, to
<1>6. /\ run' \in [Bridges -> RunPc] /\ burns' \subseteq Burn
      /\ approval' \in [Bridges -> Executions] /\ minted' \subseteq Bridges
  BY <1>2, <1>4, <1>5, BridgeTyped
<1>7. \A u \in burns', v \in burns' : u.bridge = v.bridge => u = v
  BY <1>4, <1>5 DEF TransfersInv
<1>8. ASSUME NEW c \in Bridges PROVE Fits(c, bridge[c], run'[c], burns', minted')
  <2>1. BridgeKept(c) /\ run' = run /\ minted' = minted
    BY <1>2, BridgeTyped
  <2>2. \A u \in burns : u.state = "confirmed" => u \in burns'
    BY <1>1, <1>5
  <2>3. ASSUME NEW u \in burns'
        PROVE  \E v \in burns : v.bridge = u.bridge /\ v.key = u.key /\ v.total = u.total
    BY <1>4, <1>5
  <2> QED BY <2>1, <2>2, <2>3 DEF BridgeKept, Fits
<1> QED BY <1>2, <1>6, <1>7, <1>8, ChainStep

\* An approval is executed, a burn forwarded, or the process ends.
LEMMA ChainKeeps ==
    ASSUME TransfersInv, NEW b \in Bridges, ExecuteApproval(b) \/ Forward(b)
    PROVE  TransfersInv'
<1>1. UNCHANGED <<usdcVars, bridge, run, burns, drawn, source, ends>> /\ minted \subseteq minted'
  BY DEF ExecuteApproval, Forward
<1>2. approval' \in [Bridges -> Executions] /\ allowance' \in Nat /\ minted' \subseteq Bridges
  <2>1. bridge[b].plan \in Nat
    BY BridgeTyped DEF BridgeRecord
  <2> QED BY <2>1, BridgeTyped DEF ExecuteApproval, Forward, Executions
<1>3. ASSUME NEW c \in Bridges PROVE Fits(c, bridge[c], run'[c], burns', minted')
  BY <1>1, BridgeTyped DEF BridgeKept, Fits
<1>4. /\ run' \in [Bridges -> RunPc] /\ burns' \subseteq Burn /\ source' \in Nat
      /\ \A x \in burns', y \in burns' : x.bridge = y.bridge => x = y
  BY <1>1, BridgeTyped DEF TransfersInv
<1> QED BY <1>1, <1>2, <1>3, <1>4, ChainStep

LEMMA RestartedKeeps ==
    ASSUME TransfersInv, Restarted
    PROVE  TransfersInv'
<1> USE WithdrawalTyped, BridgeTyped
<1>1. /\ ends' \in 0..MaxEnds
      /\ UNCHANGED <<withdrawal, unresolved, moved, bridge, approval, burns, drawn,
                     allowance, source, minted>>
  BY TransfersAssumption DEF Restarted, TransfersInv, TransfersTyped, TransfersTypeOK
<1>2. /\ send' \in [Withdrawals -> {"idle", "sending", "answered"}]
      /\ answers' \in [Withdrawals -> SUBSET Answer] /\ run' \in [Bridges -> RunPc]
      /\ \A w \in Withdrawals :
            answers'[w] = {} /\ send'[w] # "answered" /\ (withdrawal[w].state = "ABSENT" => send'[w] = "idle")
      /\ \A b \in Bridges : run'[b] = "idle"
  BY DEF Restarted, RunPc
<1>3. ASSUME NEW w \in Withdrawals PROVE WithdrawalKept(w)'
  BY <1>1, <1>2, WithdrawalKept(w) DEF WithdrawalKept
<1>4. ASSUME NEW b \in Bridges
      PROVE  /\ BridgeKept(b)'
             /\ bridge'[b].state \in Resumable \cup {"ABSENT", "COMPLETE", "FAILED", "RECOVERY_REQUIRED"}
             /\ bridge'[b].hash \in {"none", "approval", "burn"}
             /\ bridge'[b].burnKey \in 0..drawn'[b]
  <2>1. BridgeKept(b)'
    BY <1>1, <1>2, BridgeKept(b) DEF BridgeKept, Fits, Planned
  <2> QED BY <1>1, <2>1 DEF TransfersInv, TransfersTyped, TransfersTypeOK
<1>5. TransfersTyped'
  BY <1>1, <1>2, <1>4 DEF TransfersInv, TransfersTyped, TransfersTypeOK
<1> QED BY <1>1, <1>3, <1>4, <1>5 DEF TransfersInv

\* What an earlier version left of a bridge fits.
LEMMA InitTransfers == TransfersInit => TransfersInv
<1> SUFFICES ASSUME TransfersInit PROVE TransfersInv
  OBVIOUS
<1> USE TransfersAssumption DEF TransfersInit
<1>1. ASSUME NEW w \in Withdrawals PROVE WithdrawalKept(w)
  BY DEF WithdrawalKept, NoWithdrawal, Unknown
<1>2. ASSUME NEW b \in Bridges
      PROVE  /\ bridge[b] \in BridgeRecord /\ bridge[b].burnKey = 0
             /\ bridge[b].state \in {"ABSENT", "PENDING", "APPROVING", "BURNING"}
             /\ bridge[b].state = "ABSENT" => bridge[b] = NoBridge
  <2>1. NoBridge \in BridgeRecord /\ NoBridge.burnKey = 0 /\ NoBridge.state = "ABSENT"
    BY DEF NoBridge, BridgeRecord
  <2>2. ASSUME NEW l \in LegacyBridge
        PROVE  l \in BridgeRecord /\ l.burnKey = 0 /\ l.state \in {"PENDING", "APPROVING", "BURNING"}
    <3>1. CASE l = [NoBridge EXCEPT !.state = "PENDING"]
      BY <3>1 DEF NoBridge, BridgeRecord, Resumable
    <3>2. ASSUME NEW s \in {"PENDING", "APPROVING", "BURNING"},
                 l = [NoBridge EXCEPT !.state = s, !.approvalKey = TRUE]
          PROVE  l \in BridgeRecord /\ l.burnKey = 0 /\ l.state = s
      BY <3>2 DEF NoBridge, BridgeRecord, Resumable
    <3> QED BY <3>1, <3>2 DEF LegacyBridge
  <2> QED BY <2>1, <2>2
<1>3. ASSUME NEW x \in burns
      PROVE  /\ x \in Burn /\ x.key = 0 /\ x = OldBurn(x.bridge)
             /\ bridge[x.bridge].state = "BURNING"
  BY DEF OldBurn, Burn, Executions
<1>4. ASSUME NEW b \in Bridges PROVE BridgeKept(b)
  <2>1. run[b] = "idle"
    OBVIOUS
  <2> QED BY <1>2, <1>3, <2>1 DEF BridgeKept, Fits, Planned
<1>5. TransfersTyped
  <2>1. bridge \in [Bridges -> BridgeRecord] /\ drawn \in [Bridges -> Nat] /\ burns \subseteq Burn
    BY <1>2, <1>3
  <2>2. ASSUME NEW b \in Bridges
        PROVE  /\ bridge[b].state \in Resumable \cup {"ABSENT", "COMPLETE", "FAILED", "RECOVERY_REQUIRED"}
               /\ bridge[b].hash \in {"none", "approval", "burn"}
               /\ bridge[b].burnKey \in 0..drawn[b]
    BY <1>2 DEF BridgeRecord
  <2>3. \A x \in burns : x.bridge \in Bridges /\ x.state \in Executions \ {"none"}
    BY <1>3 DEF Burn
  <2>4. /\ withdrawal \in [Withdrawals ->
            [state : {"ABSENT", "PENDING", "SUBMITTED", "CONFIRMED", "FAILED", "RECOVERY_REQUIRED"},
             payment : Payments \cup {Nothing}]]
        /\ unresolved \in Withdrawals \cup {Nothing}
        /\ send \in [Withdrawals -> {"idle", "sending", "answered"}]
        /\ moved \in [Withdrawals -> Executions]
        /\ answers \in [Withdrawals -> SUBSET Answer]
    BY DEF NoWithdrawal, Executions
  <2>5. /\ run \in [Bridges -> RunPc] /\ approval \in [Bridges -> Executions]
        /\ allowance \in Nat /\ source \in Nat /\ ends \in 0..MaxEnds /\ minted \subseteq Bridges
    BY DEF RunPc, Executions
  <2> QED BY <2>1, <2>2, <2>3, <2>4, <2>5 DEF TransfersTyped, TransfersTypeOK
<1> QED BY <1>1, <1>3, <1>4, <1>5 DEF TransfersInv

LEMMA NextTransfers == TransfersInv /\ [TransfersNext]_transferVars => TransfersInv'
<1> SUFFICES ASSUME TransfersInv, [TransfersNext]_transferVars PROVE TransfersInv'
  OBVIOUS
<1>1. CASE UNCHANGED transferVars
  <2>1. UNCHANGED <<usdcVars, bridge, drawn, ends, approval, run, burns, allowance, source, minted>>
    BY <1>1 DEF transferVars, cctpVars
  <2>2. \A x \in burns', y \in burns' : x.bridge = y.bridge => x = y
    BY <2>1 DEF TransfersInv
  <2>3. \A b \in Bridges : Fits(b, bridge[b], run'[b], burns', minted')
    BY <2>1, BridgeTyped DEF BridgeKept
  <2> QED BY <2>1, <2>2, <2>3, BridgeTyped, ChainStep
<1>2. ASSUME NEW w \in Withdrawals, WithdrawalStep(w) PROVE TransfersInv'
  BY <1>2, StartKeeps, MovedKeeps, NotedKeeps DEF WithdrawalStep
<1>3. ASSUME NEW b \in Bridges, BridgeStep(b) PROVE TransfersInv'
  BY <1>3, BeginKeeps, ResumeKeeps, QuoteKeeps, ApprovalKeeps, CreateBurnKeeps, StopKeeps,
     BurnNotedKeeps, ChainKeeps DEF BridgeStep
<1>4. ASSUME NEW x \in burns, ExecuteBurn(x) PROVE TransfersInv'
  BY <1>4, ExecuteBurnKeeps
<1>5. CASE Restarted
  BY <1>5, RestartedKeeps
<1> QED BY <1>1, <1>2, <1>3, <1>4, <1>5 DEF TransfersNext

\* What the invariant says of one state is that money moved once.
LEMMA InvMovedOnce == TransfersInv => MovedOnce
<1> SUFFICES ASSUME TransfersInv PROVE MovedOnce
  OBVIOUS
<1>1. WithdrawnOnce
  BY WithdrawalTyped DEF WithdrawalKept, WithdrawnOnce, Unknown
<1>2. ASSUME NEW b \in Bridges
      PROVE  LET mine == {x \in burns : x.bridge = b}
             IN  /\ Cardinality(mine) <= 1
                 /\ bridge[b].state = "FAILED" => mine = {}
                 /\ bridge[b].state \in {"SUBMITTED", "COMPLETE"} =>
                       \E x \in mine : x.state = "confirmed" /\ x.total = bridge[b].plan
                 /\ bridge[b].state = "COMPLETE" => b \in minted
  <2> DEFINE mine == {x \in burns : x.bridge = b}
  <2>1. Fits(b, bridge[b], run[b], burns, minted)
    BY BridgeTyped DEF BridgeKept
  <2>2. Cardinality(mine) <= 1
    <3>1. CASE mine = {}
      BY <3>1, FS_EmptySet
    <3>2. CASE mine # {}
      <4>1. PICK x \in mine : TRUE
        BY <3>2
      <4>2. mine = {x}
        BY <4>1 DEF TransfersInv
      <4> QED BY <4>2, FS_Singleton
    <3> QED BY <3>1, <3>2
  <2> QED BY <2>1, <2>2 DEF Fits
<1>3. BurnedOnce
  BY <1>2 DEF BurnedOnce
<1>4. TransfersTypeOK
  BY DEF TransfersInv, TransfersTyped
<1> QED BY <1>1, <1>3, <1>4 DEF MovedOnce

LEMMA TransfersAlways == TransfersSpec => []TransfersInv
<1> QED BY InitTransfers, NextTransfers, PTL DEF TransfersSpec

\* Money leaves a wallet once for each thing its account asked for: for any number of
\* withdrawals and bridges, under every order of Circle's answers, failed calls,
\* restarts of the process, and records an earlier version left.
THEOREM MovedAlwaysOnce == TransfersSpec => []MovedOnce
BY TransfersAlways, InvMovedOnce, PTL

\* Every record stays one of those the code writes, with every key a bridge names drawn.
THEOREM TransfersAlwaysTyped == TransfersSpec => []TransfersTypeOK
<1>1. TransfersInv => TransfersTypeOK
  BY DEF TransfersInv, TransfersTyped
<1> QED BY <1>1, TransfersAlways, PTL

-----------------------------------------------------------------------------
(* Accounts.  Circle makes a wallet per key, so the key of a user's record   *)
(* never changes once it may have been used; a challenge or a code is in one *)
(* place at a time, and used up before it opens a session.                   *)

\* A user's record, where its provisioning is, and the wallets Circle has for it.
WalletKept(i) ==
    LET own == wallets[i]
    IN  /\ own.type # "SCA" => circle[i] = {} /\ provisioning[i] = "idle"
        /\ circle[i] \subseteq {own.key}
        /\ InFlight(i) => own.state = "PENDING"
        /\ provisioning[i] = "made" => circle[i] # {}
        /\ Ready(i) => circle[i] = {own.key}

LoginKept(r) ==
    LET own == login[r]
    IN  /\ own.pc = "idle" <=> own.proof = 0
        /\ own.pc # "idle" => own.who \in Identities
        /\ own.pc \in {"waiting", "ready"} => own.who \in identities
        /\ own.pc = "ready" => Ready(own.who)

\* Each challenge and code is in one place: stored, in a login under way, or spent.
ChallengeKept(a) ==
    LET n == challenges[a]
    IN  n # 0 => /\ n <= issued /\ opened[n] = 0
                 /\ \A c \in Addresses \ {a} : challenges[c] # n
                 /\ \A e \in Emails : codes[e].code # n
                 /\ \A r \in Logins : login[r].proof # n

CodeKept(e) ==
    LET n == codes[e].code
    IN  /\ n = 0 => codes[e].attempts = 0
        /\ n # 0 => /\ n <= issued /\ opened[n] = 0 /\ tried[n] = codes[e].attempts
                    /\ \A f \in Emails \ {e} : codes[f].code # n
                    /\ \A r \in Logins : login[r].proof # n

InLogin(r) ==
    LET n == login[r].proof
    IN  n # 0 => /\ n <= issued /\ opened[n] = 0
                 /\ \A q \in Logins \ {r} : login[q].proof # n

Spends(n) ==
    /\ opened[n] <= 1 /\ tried[n] <= Guesses
    /\ n > issued => opened[n] = 0 /\ tried[n] = 0

WalletsInv ==
    /\ \A i \in Identities : WalletKept(i)
    /\ \A r \in Logins : LoginKept(r)
    /\ \A s \in sessions : s[1] \in identities /\ Ready(s[1])

ProofsInv ==
    /\ \A a \in Addresses : ChallengeKept(a)
    /\ \A e \in Emails : CodeKept(e)
    /\ \A r \in Logins : InLogin(r)
    /\ \A n \in Proofs : Spends(n)

AccountsInv == AccountsTypeOK /\ WalletsInv /\ ProofsInv

\* The types, with the state spelled out.
LEMMA AccountsTyped ==
    ASSUME AccountsInv
    PROVE  /\ challenges \in [Addresses -> 0..MaxProofs]
           /\ codes \in [Emails -> [code : 0..MaxProofs, attempts : 0..(Guesses - 1)]]
           /\ login \in [Logins -> [pc : {"idle", "verifying", "waiting", "ready"},
                                    who : Identities \cup {NoOne}, proof : 0..MaxProofs]]
           /\ opened \in [Proofs -> Nat] /\ tried \in [Proofs -> Nat] /\ issued \in 0..MaxProofs
           /\ wallets \in [Identities -> [type : {"NONE", "EOA", "SCA"}, key : Nat,
                                          state : {"ABSENT", "PENDING", "READY", "FAILED"}]]
           /\ provisioning \in [Identities -> {"idle", "listing", "creating", "made"}]
           /\ circle \in [Identities -> SUBSET Nat] /\ keys \in [Identities -> Nat]
           /\ sessions \subseteq Identities \X Proofs /\ mailing \subseteq Emails \X Proofs
           /\ identities \subseteq Identities /\ archived \subseteq Identities
           /\ restarts \in 0..MaxRestarts
           /\ Guesses \in Nat \ {0} /\ MaxProofs \in Nat /\ MaxRestarts \in Nat
           /\ Addresses \cap Emails = {} /\ Addresses \subseteq Identities /\ Emails \subseteq Identities
           /\ \A i \in Identities : WalletKept(i)
           /\ \A r \in Logins : LoginKept(r) /\ InLogin(r)
           /\ \A s \in sessions : s[1] \in identities /\ Ready(s[1])
           /\ \A a \in Addresses : ChallengeKept(a)
           /\ \A e \in Emails : CodeKept(e)
           /\ \A n \in Proofs : Spends(n)
BY AccountsAssumption DEF AccountsInv, AccountsTypeOK, WalletsInv, ProofsInv, Identities

\* A step that leaves the wallets and what they were given to.
LEMMA WalletsStay ==
    ASSUME AccountsInv, UNCHANGED walletVars, identities \subseteq identities',
           \A r \in Logins : LoginKept(r)', sessions' \subseteq sessions
    PROVE  WalletsInv'
<1>1. /\ \A i \in Identities : WalletKept(i)
      /\ \A s \in sessions : s[1] \in identities /\ Ready(s[1])
  BY AccountsTyped
<1>2. \A i \in Identities : WalletKept(i)'
  BY <1>1 DEF walletVars, WalletKept, InFlight, Ready
<1> QED BY <1>1, <1>2 DEF WalletsInv, walletVars, Ready

\* ... and the logins too.
LEMMA LoginsStay ==
    ASSUME AccountsInv, UNCHANGED <<walletVars, login, identities>>, sessions' \subseteq sessions
    PROVE  WalletsInv'
<1>1. \A r \in Logins : LoginKept(r)'
  BY AccountsTyped DEF LoginKept, Ready, walletVars
<1> QED BY <1>1, WalletsStay

\* A challenge or a code is issued under a number nothing has had before.
LEMMA IssueKeeps ==
    ASSUME AccountsInv, (\E a \in Addresses : Challenge(a)) \/ (\E e \in Emails : RequestEmailCode(e))
    PROVE  AccountsInv'
<1> USE AccountsTyped
<1>1. /\ issued' = issued + 1 /\ issued' \in Proofs /\ issued \in Nat
      /\ UNCHANGED <<sessions, opened, tried, walletVars, login, identities, restarts>>
  <2>1. /\ issued < MaxProofs /\ issued' = issued + 1
        /\ UNCHANGED <<sessions, opened, tried, walletVars, login, identities, restarts>>
    BY DEF Challenge, RequestEmailCode
  <2>2. issued \in 0..MaxProofs /\ MaxProofs \in Nat
    OBVIOUS
  <2> QED BY <2>1, <2>2 DEF Proofs
<1>2. opened[issued'] = 0 /\ tried[issued'] = 0
  BY <1>1 DEF Spends
<1>3. WalletsInv'
  BY <1>1, LoginsStay
<1>4. \A n \in Proofs : Spends(n)'
  BY <1>1 DEF Spends, Proofs
<1>5. \A r \in Logins : InLogin(r)'
  BY <1>1 DEF InLogin
<1>6. ASSUME NEW a \in Addresses, Challenge(a) PROVE AccountsInv'
  <2>1. challenges' = [challenges EXCEPT ![a] = issued'] /\ UNCHANGED <<codes, mailing>>
    BY <1>6 DEF Challenge
  <2>2. challenges'[a] = issued' /\ \A c \in Addresses \ {a} : challenges'[c] = challenges[c]
    BY <2>1
  <2>3. ASSUME NEW c \in Addresses PROVE ChallengeKept(c)'
    <3>1. CASE c = a
      <4>1. /\ \A d \in Addresses \ {a} : challenges'[d] # issued'
            /\ \A e \in Emails : codes[e].code # issued'
            /\ \A r \in Logins : login[r].proof # issued'
        <5>1. ASSUME NEW d \in Addresses \ {a} PROVE challenges'[d] # issued'
          <6>1. challenges'[d] = challenges[d] /\ challenges[d] \in 0..MaxProofs /\ ChallengeKept(d)
            BY <2>2
          <6> QED BY <1>1, <6>1 DEF ChallengeKept
        <5>2. ASSUME NEW e \in Emails PROVE codes[e].code # issued'
          BY <1>1, CodeKept(e) DEF CodeKept
        <5>3. ASSUME NEW r \in Logins PROVE login[r].proof # issued'
          BY <1>1, InLogin(r) DEF InLogin
        <5> QED BY <5>1, <5>2, <5>3
      <4> QED BY <1>1, <1>2, <2>1, <2>2, <3>1, <4>1 DEF ChallengeKept
    <3>2. CASE c # a
      <4>1. challenges'[c] = challenges[c] /\ (challenges[c] # 0 => challenges[c] # issued')
        BY <1>1, <2>2, <3>2 DEF ChallengeKept
      <4> QED BY <1>1, <2>1, <2>2, <4>1 DEF ChallengeKept
    <3> QED BY <3>1, <3>2
  <2>4. \A e \in Emails : CodeKept(e)'
    BY <1>1, <2>1 DEF CodeKept
  <2>5. ProofsInv'
    BY <1>4, <1>5, <2>3, <2>4 DEF ProofsInv
  <2>6. challenges' \in [Addresses -> 0..MaxProofs] /\ issued' \in 0..MaxProofs
    BY <1>1, <2>1 DEF Proofs
  <2>7. AccountsTypeOK'
    BY <1>1, <2>1, <2>6 DEF AccountsTypeOK, walletVars
  <2> QED BY <1>3, <2>5, <2>7 DEF AccountsInv
<1>7. ASSUME NEW e \in Emails, RequestEmailCode(e) PROVE AccountsInv'
  <2>1. /\ codes' = [codes EXCEPT ![e] = [code |-> issued', attempts |-> 0]]
        /\ mailing' = mailing \cup {<<e, issued'>>} /\ UNCHANGED challenges
    BY <1>7 DEF RequestEmailCode
  <2>2. /\ codes'[e].code = issued' /\ codes'[e].attempts = 0
        /\ \A f \in Emails \ {e} : codes'[f] = codes[f]
    BY <2>1
  <2>3. ASSUME NEW f \in Emails PROVE CodeKept(f)'
    <3>1. CASE f = e
      <4>1. /\ \A g \in Emails \ {e} : codes'[g].code # issued'
            /\ \A r \in Logins : login[r].proof # issued'
        <5>1. ASSUME NEW g \in Emails \ {e} PROVE codes'[g].code # issued'
          <6>1. codes'[g] = codes[g] /\ codes[g].code \in 0..MaxProofs /\ CodeKept(g)
            BY <2>2
          <6> QED BY <1>1, <6>1 DEF CodeKept
        <5>2. ASSUME NEW r \in Logins PROVE login[r].proof # issued'
          BY <1>1, InLogin(r) DEF InLogin
        <5> QED BY <5>1, <5>2
      <4> QED BY <1>1, <1>2, <2>2, <3>1, <4>1 DEF CodeKept
    <3>2. CASE f # e
      <4>1. codes'[f] = codes[f] /\ (codes[f].code # 0 => codes[f].code # issued') /\ CodeKept(f)
        BY <1>1, <2>2, <3>2 DEF CodeKept
      <4>2. ASSUME codes[f].code # 0, NEW g \in Emails \ {f} PROVE codes'[g].code # codes[f].code
        <5>1. CASE g = e
          BY <2>2, <4>1, <4>2, <5>1
        <5>2. CASE g # e
          BY <2>2, <4>1, <4>2, <5>2 DEF CodeKept
        <5> QED BY <5>1, <5>2
      <4> QED BY <1>1, <4>1, <4>2 DEF CodeKept
    <3> QED BY <3>1, <3>2
  <2>4. \A a \in Addresses : ChallengeKept(a)'
    BY <1>1, <2>1, <2>2 DEF ChallengeKept
  <2>5. ProofsInv'
    BY <1>4, <1>5, <2>3, <2>4 DEF ProofsInv
  <2>6. codes' \in [Emails -> [code : 0..MaxProofs, attempts : 0..(Guesses - 1)]]
        /\ issued' \in 0..MaxProofs
    <3>1. [code |-> issued', attempts |-> 0] \in [code : 0..MaxProofs, attempts : 0..(Guesses - 1)]
      BY <1>1 DEF Proofs
    <3> QED BY <1>1, <2>1, <3>1 DEF Proofs
  <2>7. AccountsTypeOK'
    <3>1. mailing' \subseteq Emails \X Proofs
      BY <1>1, <2>1
    <3> QED BY <1>1, <2>1, <2>6, <3>1 DEF AccountsTypeOK, walletVars
  <2> QED BY <1>3, <2>5, <2>7 DEF AccountsInv
<1> QED BY <1>6, <1>7

\* A challenge, a code or a session ends, or a code was guessed wrong.
LEMMA EndsKeeps ==
    ASSUME AccountsInv,
           \/ \E a \in Addresses : ExpireChallenge(a)
           \/ \E e \in Emails : ExpireCode(e)
           \/ \E m \in mailing : CodeSent(m) \/ CodeNotSent(m)
           \/ \E s \in sessions : EndSession(s)
    PROVE  AccountsInv'
<1> USE AccountsTyped
<1>1. /\ UNCHANGED <<issued, opened, tried, walletVars, login, identities, restarts>>
      /\ sessions' \subseteq sessions /\ mailing' \subseteq mailing
  BY DEF ExpireChallenge, ExpireCode, CodeSent, CodeNotSent, EndSession
<1>2. /\ challenges' \in [Addresses -> 0..MaxProofs]
      /\ \A a \in Addresses : challenges'[a] \in {0, challenges[a]}
  BY DEF ExpireChallenge, ExpireCode, CodeSent, CodeNotSent, EndSession
<1>3. /\ codes' \in [Emails -> [code : 0..MaxProofs, attempts : 0..(Guesses - 1)]]
      /\ \A e \in Emails : codes'[e] \in {NoCode, codes[e]}
  <2>1. NoCode \in [code : 0..MaxProofs, attempts : 0..(Guesses - 1)]
    BY DEF NoCode
  <2>2. \A m \in mailing : m[1] \in Emails
    OBVIOUS
  <2>3. codes' = codes \/ \E e \in Emails : codes' = [codes EXCEPT ![e] = NoCode]
    BY <2>2 DEF ExpireChallenge, ExpireCode, CodeSent, CodeNotSent, EndSession
  <2>4. CASE codes' = codes
    BY <2>4
  <2>5. ASSUME NEW e \in Emails, codes' = [codes EXCEPT ![e] = NoCode]
        PROVE  /\ codes' \in [Emails -> [code : 0..MaxProofs, attempts : 0..(Guesses - 1)]]
               /\ \A f \in Emails : codes'[f] \in {NoCode, codes[f]}
    BY <2>1, <2>5
  <2> QED BY <2>3, <2>4, <2>5
<1>4. NoCode.code = 0 /\ NoCode.attempts = 0
  BY DEF NoCode
<1>5. ASSUME NEW a \in Addresses PROVE ChallengeKept(a)'
  BY <1>1, <1>2, <1>3, <1>4, ChallengeKept(a) DEF ChallengeKept
<1>6. ASSUME NEW e \in Emails PROVE CodeKept(e)'
  BY <1>1, <1>3, <1>4, CodeKept(e) DEF CodeKept
<1>7. \A r \in Logins : InLogin(r)'
  BY <1>1 DEF InLogin
<1>8. \A n \in Proofs : Spends(n)'
  BY <1>1 DEF Spends
<1>9. WalletsInv'
  BY <1>1, LoginsStay
<1>10. AccountsTypeOK'
  BY <1>1, <1>2, <1>3 DEF AccountsInv, AccountsTypeOK, walletVars
<1> QED BY <1>5, <1>6, <1>7, <1>8, <1>9, <1>10 DEF AccountsInv, ProofsInv

\* A wrong guess is counted, and the last one forgets the code.
LEMMA GuessKeeps ==
    ASSUME AccountsInv, NEW e \in Emails, GuessWrong(e)
    PROVE  AccountsInv'
<1> USE AccountsTyped
<1> DEFINE c == codes[e].code
           n == codes[e].attempts + 1
           next == IF LastGuess(n) THEN NoCode ELSE [codes[e] EXCEPT !.attempts = n]
<1>1. /\ codes[e] # NoCode /\ codes' = [codes EXCEPT ![e] = next]
      /\ tried' = [tried EXCEPT ![c] = @ + 1]
      /\ UNCHANGED <<issued, challenges, mailing, sessions, opened, walletVars, login, identities, restarts>>
  BY DEF GuessWrong
<1>2. c \in Proofs /\ c <= issued /\ opened[c] = 0 /\ tried[c] = codes[e].attempts
  <2>1. c # 0
    BY <1>1 DEF CodeKept, NoCode
  <2> QED BY <2>1 DEF CodeKept, Proofs
<1>3. tried' \in [Proofs -> Nat] /\ tried'[c] = n /\ \A d \in Proofs \ {c} : tried'[d] = tried[d]
  BY <1>1, <1>2
<1>4. /\ n \in Nat /\ n <= Guesses /\ next \in [code : 0..MaxProofs, attempts : 0..(Guesses - 1)]
      /\ next.code \in {0, c} /\ (next.code = 0 => next.attempts = 0) /\ (next.code # 0 => next.attempts = n)
  <2>1. n \in Nat /\ n <= Guesses /\ c \in 0..MaxProofs
    OBVIOUS
  <2>2. CASE LastGuess(n)
    <3>1. next = NoCode
      BY <2>2
    <3>2. NoCode \in [code : 0..MaxProofs, attempts : 0..(Guesses - 1)] /\ NoCode.code = 0
          /\ NoCode.attempts = 0
      BY DEF NoCode
    <3> HIDE DEF n, c, next
    <3> QED BY <2>1, <3>1, <3>2
  <2>3. CASE ~LastGuess(n)
    <3>1. next = [codes[e] EXCEPT !.attempts = n]
      BY <2>3
    <3>2. n \in 0..(Guesses - 1)
      BY <2>1, <2>3 DEF LastGuess
    <3>3. codes[e] \in [code : 0..MaxProofs, attempts : 0..(Guesses - 1)]
      OBVIOUS
    <3>4. /\ next \in [code : 0..MaxProofs, attempts : 0..(Guesses - 1)]
          /\ next.code = c /\ next.attempts = n
      <4> HIDE DEF n, next
      <4> QED BY <3>1, <3>2, <3>3
    <3> HIDE DEF n, c, next
    <3> QED BY <1>2, <2>1, <3>4 DEF Proofs
  <2> QED BY <2>1, <2>2, <2>3
<1> HIDE DEF next, n
<1>5. /\ codes' \in [Emails -> [code : 0..MaxProofs, attempts : 0..(Guesses - 1)]]
      /\ codes'[e] = next /\ \A f \in Emails \ {e} : codes'[f] = codes[f]
  BY <1>1, <1>4
<1>6. \A f \in Emails : codes'[f].code \in {0, codes[f].code}
  BY <1>4, <1>5
<1>7. ASSUME NEW f \in Emails PROVE CodeKept(f)'
  <2>1. CASE f = e
    BY <1>1, <1>2, <1>3, <1>4, <1>5, <1>6, <2>1, CodeKept(e) DEF CodeKept
  <2>2. CASE f # e
    <3>1. codes'[f] = codes[f] /\ codes[f].code # c
      <4>1. codes'[f] = codes[f]
        BY <1>5, <2>2
      <4>2. c # 0 /\ CodeKept(e)
        BY <1>2 DEF Proofs
      <4> QED BY <2>2, <4>1, <4>2 DEF CodeKept
    <3>2. codes[f].code # 0 => tried'[codes[f].code] = tried[codes[f].code]
      <4>1. codes[f].code \in 0..MaxProofs
        OBVIOUS
      <4>2. codes[f].code # 0 => codes[f].code \in Proofs
        BY <4>1 DEF Proofs
      <4> HIDE DEF c
      <4> QED BY <1>3, <3>1, <4>2
    <3> QED BY <1>1, <1>6, <3>1, <3>2, CodeKept(f) DEF CodeKept
  <2> QED BY <2>1, <2>2
<1>8. ASSUME NEW a \in Addresses PROVE ChallengeKept(a)'
  BY <1>1, <1>6, ChallengeKept(a) DEF ChallengeKept
<1>9. \A r \in Logins : InLogin(r)'
  BY <1>1 DEF InLogin
<1>10. \A d \in Proofs : Spends(d)'
  BY <1>1, <1>2, <1>3, <1>4 DEF Spends
<1>11. WalletsInv'
  BY <1>1, LoginsStay
<1>12. AccountsTypeOK'
  BY <1>1, <1>3, <1>5 DEF AccountsInv, AccountsTypeOK, walletVars
<1> QED BY <1>7, <1>8, <1>9, <1>10, <1>11, <1>12 DEF AccountsInv, ProofsInv

\* A wallet is made sure of: whoever has one keeps it, whoever may have one keeps its key.
LEMMA EnsureKeeps ==
    ASSUME AccountsInv, NEW i \in Identities, EnsureWallet(i)
    PROVE  /\ wallets' \in [Identities -> [type : {"NONE", "EOA", "SCA"}, key : Nat,
                                           state : {"ABSENT", "PENDING", "READY", "FAILED"}]]
           /\ provisioning' \in [Identities -> {"idle", "listing", "creating", "made"}]
           /\ circle' \in [Identities -> SUBSET Nat] /\ keys' \in [Identities -> Nat]
           /\ archived' \subseteq Identities
           /\ \A j \in Identities : WalletKept(j)' /\ (Ready(j) => Ready(j)')
<1> USE AccountsTyped
<1>1. CASE UNCHANGED walletVars
  <2>1. UNCHANGED <<wallets, archived, provisioning, circle, keys>>
    BY <1>1 DEF walletVars
  <2> QED BY <2>1 DEF WalletKept, Ready, InFlight
<1>2. CASE ~Ready(i) /\ ~InFlight(i)
  <2> DEFINE new == [type |-> "SCA", state |-> "PENDING", key |-> KeyFor(i)]
  <2>1. /\ archived' \subseteq Identities /\ wallets' = [wallets EXCEPT ![i] = new]
        /\ keys' = [keys EXCEPT ![i] = IF KeyFor(i) > @ THEN KeyFor(i) ELSE @]
        /\ provisioning' = [provisioning EXCEPT ![i] = "listing"] /\ circle' = circle
    BY <1>2 DEF EnsureWallet, walletVars
  <2>2. /\ KeyFor(i) \in Nat /\ circle[i] \subseteq {KeyFor(i)}
    BY WalletKept(i) DEF KeyFor, WalletKept
  <2>3. /\ new \in [type : {"NONE", "EOA", "SCA"}, key : Nat,
                    state : {"ABSENT", "PENDING", "READY", "FAILED"}]
        /\ new.type = "SCA" /\ new.state = "PENDING" /\ new.key = KeyFor(i)
    BY <2>2
  <2> HIDE DEF new
  <2>4. /\ wallets' \in [Identities -> [type : {"NONE", "EOA", "SCA"}, key : Nat,
                                        state : {"ABSENT", "PENDING", "READY", "FAILED"}]]
        /\ provisioning' \in [Identities -> {"idle", "listing", "creating", "made"}]
        /\ circle' \in [Identities -> SUBSET Nat] /\ keys' \in [Identities -> Nat]
        /\ wallets'[i] = new /\ provisioning'[i] = "listing"
    BY <2>1, <2>2, <2>3
  <2>5. ASSUME NEW j \in Identities PROVE WalletKept(j)' /\ (Ready(j) => Ready(j)')
    <3>1. CASE j = i
      BY <1>2, <2>1, <2>2, <2>3, <2>4, <3>1 DEF WalletKept, Ready, InFlight
    <3>2. CASE j # i
      <4>1. wallets'[j] = wallets[j] /\ provisioning'[j] = provisioning[j] /\ circle'[j] = circle[j]
        BY <2>1, <3>2
      <4> QED BY <4>1, WalletKept(j) DEF WalletKept, Ready, InFlight
    <3> QED BY <3>1, <3>2
  <2> QED BY <2>1, <2>4, <2>5
<1> QED BY <1>1, <1>2 DEF EnsureWallet

\* One wallet's step: those of the other users, and what sessions rest on, stay.
LEMMA WalletKeeps ==
    ASSUME AccountsInv, NEW i \in Identities, WalletStep(i)
    PROVE  AccountsInv'
<1> USE AccountsTyped
<1>1. /\ InFlight(i) /\ ~Ready(i) /\ wallets[i].type = "SCA"
      /\ UNCHANGED <<authVars, archived, keys, identities, restarts>>
  <2>1. InFlight(i) /\ UNCHANGED <<authVars, archived, keys, identities, restarts>>
    BY DEF WalletStep, FindWallet, CreateWallet, WalletReady, WalletFails, InFlight
  <2> QED BY <2>1, WalletKept(i) DEF WalletKept, Ready, InFlight
<1>2. PICK own \in [type : {"NONE", "EOA", "SCA"}, key : Nat,
                    state : {"ABSENT", "PENDING", "READY", "FAILED"}],
           pc \in {"idle", "listing", "creating", "made"}, at \in SUBSET Nat :
         /\ wallets' = [wallets EXCEPT ![i] = own]
         /\ provisioning' = [provisioning EXCEPT ![i] = pc]
         /\ circle' = [circle EXCEPT ![i] = at]
         /\ own.type = "SCA" /\ at \subseteq {own.key}
         /\ pc # "idle" => own.state = "PENDING"
         /\ pc = "made" => at # {}
         /\ own.state = "READY" => at = {own.key}
         /\ \A r \in Logins :
               \/ login'[r] = login[r]
               \/ r \in Waiting(i) /\ login'[r] = NoLogin
               \/ r \in Waiting(i) /\ login'[r] = [login[r] EXCEPT !.pc = "ready"] /\ own.state = "READY"
         /\ DOMAIN login' = Logins /\ login' = [r \in Logins |-> login'[r]]
  <2>1. CASE FindWallet(i)
    <3>1. PICK pc \in {"creating", "made"} :
             /\ provisioning' = [provisioning EXCEPT ![i] = pc] /\ (pc = "made" => circle[i] # {})
             /\ UNCHANGED <<wallets, circle, login>>
      BY <2>1 DEF FindWallet
    <3>2. /\ wallets' = [wallets EXCEPT ![i] = wallets[i]] /\ circle' = [circle EXCEPT ![i] = circle[i]]
          /\ wallets[i].state = "PENDING" /\ circle[i] \subseteq {wallets[i].key}
      BY <1>1, <3>1, WalletKept(i) DEF WalletKept
    <3> QED BY <1>1, <3>1, <3>2
  <2>2. CASE CreateWallet(i)
    <3> DEFINE at == circle[i] \cup {wallets[i].key}
    <3>1. /\ circle' = [circle EXCEPT ![i] = at]
          /\ provisioning' = [provisioning EXCEPT ![i] = "made"] /\ UNCHANGED <<wallets, login>>
      BY <2>2 DEF CreateWallet
    <3>2. /\ wallets' = [wallets EXCEPT ![i] = wallets[i]] /\ at \in SUBSET Nat
          /\ wallets[i].state = "PENDING" /\ at = {wallets[i].key}
      BY <1>1, <3>1, WalletKept(i) DEF WalletKept
    <3> HIDE DEF at
    <3> QED BY <1>1, <3>1, <3>2
  <2>3. CASE WalletReady(i)
    <3>1. PICK made \in circle[i] :
             wallets' = [wallets EXCEPT ![i] = [type |-> "SCA", state |-> "READY", key |-> made]]
      BY <2>3 DEF WalletReady
    <3> DEFINE own == [type |-> "SCA", state |-> "READY", key |-> made]
    <3>2. /\ own \in [type : {"NONE", "EOA", "SCA"}, key : Nat,
                      state : {"ABSENT", "PENDING", "READY", "FAILED"}]
          /\ own.type = "SCA" /\ own.key = made /\ own.state = "READY"
      OBVIOUS
    <3>3. circle[i] = {made} /\ circle' = [circle EXCEPT ![i] = circle[i]]
      BY <2>3, <3>1, WalletKept(i) DEF WalletKept, WalletReady
    <3>4. provisioning' = [provisioning EXCEPT ![i] = "idle"]
          /\ login' = [r \in Logins |-> IF r \in Waiting(i) THEN [login[r] EXCEPT !.pc = "ready"] ELSE login[r]]
      BY <2>3 DEF WalletReady
    <3>5. wallets' = [wallets EXCEPT ![i] = own]
      BY <3>1
    <3>6. /\ \A r \in Logins :
                \/ login'[r] = login[r]
                \/ r \in Waiting(i) /\ login'[r] = [login[r] EXCEPT !.pc = "ready"]
          /\ DOMAIN login' = Logins /\ login' = [r \in Logins |-> login'[r]]
      BY <3>4
    <3>7. circle[i] \in SUBSET Nat /\ circle[i] \subseteq {own.key}
      BY <3>2, <3>3
    <3> HIDE DEF own
    <3> QED BY <3>2, <3>3, <3>4, <3>5, <3>6, <3>7
  <2>4. CASE WalletFails(i)
    <3> DEFINE own == [wallets[i] EXCEPT !.state = "FAILED"]
    <3>1. /\ wallets' = [wallets EXCEPT ![i] = own]
          /\ provisioning' = [provisioning EXCEPT ![i] = "idle"] /\ UNCHANGED circle
          /\ login' = [r \in Logins |-> IF r \in Waiting(i) THEN NoLogin ELSE login[r]]
      BY <2>4 DEF WalletFails
    <3>2. /\ own \in [type : {"NONE", "EOA", "SCA"}, key : Nat,
                      state : {"ABSENT", "PENDING", "READY", "FAILED"}]
          /\ own.type = "SCA" /\ own.key = wallets[i].key /\ own.state = "FAILED"
      BY <1>1
    <3>3. circle' = [circle EXCEPT ![i] = circle[i]] /\ circle[i] \subseteq {wallets[i].key}
      BY <3>1, WalletKept(i) DEF WalletKept
    <3>4. /\ \A r \in Logins :
                \/ login'[r] = login[r]
                \/ r \in Waiting(i) /\ login'[r] = NoLogin
          /\ DOMAIN login' = Logins /\ login' = [r \in Logins |-> login'[r]]
      BY <3>1
    <3>5. circle[i] \in SUBSET Nat
      OBVIOUS
    <3> HIDE DEF own
    <3> QED BY <3>1, <3>2, <3>3, <3>4, <3>5
  <2> QED BY <2>1, <2>2, <2>3, <2>4 DEF WalletStep
<1>3. /\ wallets'[i] = own /\ provisioning'[i] = pc /\ circle'[i] = at
      /\ \A j \in Identities \ {i} :
            wallets'[j] = wallets[j] /\ provisioning'[j] = provisioning[j] /\ circle'[j] = circle[j]
  BY <1>2
<1>4. ASSUME NEW j \in Identities PROVE WalletKept(j)'
  <2>1. CASE j = i
    BY <1>2, <1>3, <2>1 DEF WalletKept, Ready, InFlight
  <2>2. CASE j # i
    BY <1>3, <2>2, WalletKept(j) DEF WalletKept, Ready, InFlight
  <2> QED BY <2>1, <2>2
<1>5. \A j \in Identities : Ready(j) => Ready(j)'
  BY <1>1, <1>3 DEF Ready
<1>6. NoLogin = [pc |-> "idle", who |-> NoOne, proof |-> 0] /\ NoLogin.pc = "idle" /\ NoLogin.proof = 0
  BY DEF NoLogin
<1>7. ASSUME NEW r \in Logins
      PROVE  /\ LoginKept(r)' /\ login'[r].proof \in {0, login[r].proof}
             /\ login'[r] \in [pc : {"idle", "verifying", "waiting", "ready"},
                               who : Identities \cup {NoOne}, proof : 0..MaxProofs]
  <2>1. CASE login'[r] = login[r]
    <3>1. login[r].who \in Identities /\ Ready(login[r].who) => Ready(login[r].who)'
      BY <1>5, <2>1 DEF Ready
    <3> QED BY <1>1, <2>1, <3>1, LoginKept(r) DEF LoginKept, Ready
  <2>2. CASE login'[r] = NoLogin
    BY <1>6, <2>2 DEF LoginKept
  <2>3. CASE /\ r \in Waiting(i) /\ login'[r] = [login[r] EXCEPT !.pc = "ready"]
             /\ own.state = "READY"
    <3>1. login[r].pc = "waiting" /\ login[r].who = i
      BY <2>3 DEF Waiting
    <3>2. /\ login'[r] \in [pc : {"idle", "verifying", "waiting", "ready"},
                           who : Identities \cup {NoOne}, proof : 0..MaxProofs]
          /\ login'[r].pc = "ready" /\ login'[r].who = i /\ login'[r].proof = login[r].proof
      BY <2>3, <3>1
    <3>3. Ready(i)'
      BY <1>2, <1>3, <2>3 DEF Ready
    <3> QED BY <1>1, <3>1, <3>2, <3>3, LoginKept(r) DEF LoginKept, Ready
  <2> QED BY <1>2, <2>1, <2>2, <2>3
<1>8. WalletsInv'
  BY <1>1, <1>4, <1>5, <1>7 DEF WalletsInv, authVars
<1>9. ProofsInv'
  <2>1. UNCHANGED <<issued, challenges, codes, opened, tried>>
    BY <1>1 DEF authVars
  <2>2. ASSUME NEW a \in Addresses PROVE ChallengeKept(a)'
    BY <1>7, <2>1, ChallengeKept(a) DEF ChallengeKept
  <2>3. ASSUME NEW e \in Emails PROVE CodeKept(e)'
    BY <1>7, <2>1, CodeKept(e) DEF CodeKept
  <2>4. ASSUME NEW r \in Logins PROVE InLogin(r)'
    BY <1>7, <2>1, InLogin(r) DEF InLogin
  <2>5. \A n \in Proofs : Spends(n)'
    BY <2>1 DEF Spends
  <2> QED BY <2>2, <2>3, <2>4, <2>5 DEF ProofsInv
<1>10. AccountsTypeOK'
  <2>1. /\ login' \in [Logins -> [pc : {"idle", "verifying", "waiting", "ready"},
                                  who : Identities \cup {NoOne}, proof : 0..MaxProofs]]
    BY <1>2, <1>7
  <2> QED BY <1>1, <1>2, <2>1 DEF AccountsTypeOK, authVars
<1> QED BY <1>8, <1>9, <1>10 DEF AccountsInv

\* A login is begun with the nonce, which nobody else can take any more.
LEMMA VerifyKeeps ==
    ASSUME AccountsInv, NEW a \in Addresses, NEW r \in Logins, VerifyWallet(r, a)
    PROVE  AccountsInv'
<1> USE AccountsTyped
<1> DEFINE n == challenges[a]
           new == [pc |-> "verifying", who |-> a, proof |-> n]
<1>1. /\ login[r].pc = "idle" /\ n # 0 /\ challenges' = [challenges EXCEPT ![a] = 0]
      /\ login' = [login EXCEPT ![r] = new]
      /\ UNCHANGED <<issued, codes, mailing, sessions, opened, tried, walletVars, identities, restarts>>
  BY DEF VerifyWallet, Spent
<1>2. /\ new \in [pc : {"idle", "verifying", "waiting", "ready"},
                  who : Identities \cup {NoOne}, proof : 0..MaxProofs]
      /\ new.pc = "verifying" /\ new.who = a /\ new.proof = n
  BY DEF Identities
<1> HIDE DEF new
<1>3. /\ challenges' \in [Addresses -> 0..MaxProofs] /\ challenges'[a] = 0
      /\ \A c \in Addresses \ {a} : challenges'[c] = challenges[c]
      /\ login' \in [Logins -> [pc : {"idle", "verifying", "waiting", "ready"},
                                who : Identities \cup {NoOne}, proof : 0..MaxProofs]]
      /\ login'[r] = new /\ \A q \in Logins \ {r} : login'[q] = login[q]
  BY <1>1, <1>2
<1>4. ASSUME NEW q \in Logins PROVE LoginKept(q)' /\ InLogin(q)'
  <2>1. CASE q = r
    BY <1>1, <1>2, <1>3, <2>1, ChallengeKept(a) DEF LoginKept, InLogin, ChallengeKept
  <2>2. CASE q # r
    <3>1. login'[q] = login[q] /\ login[q].proof # n
      BY <1>1, <1>3, <2>2, ChallengeKept(a) DEF ChallengeKept
    <3>2. LoginKept(q)'
      BY <1>1, <3>1, LoginKept(q) DEF LoginKept, Ready, walletVars
    <3>3. InLogin(q)'
      BY <1>1, <1>2, <1>3, <2>2, <3>1, InLogin(q) DEF InLogin
    <3> QED BY <3>2, <3>3
  <2> QED BY <2>1, <2>2
<1>5. WalletsInv'
  BY <1>1, <1>4, WalletsStay
<1>6. ASSUME NEW c \in Addresses PROVE ChallengeKept(c)'
  <2>1. CASE c = a
    BY <1>3, <2>1 DEF ChallengeKept
  <2>2. CASE c # a
    <3>1. challenges'[c] = challenges[c] /\ (challenges[c] # 0 => challenges[c] # n)
      BY <1>3, <2>2, ChallengeKept(c) DEF ChallengeKept
    <3>2. \A d \in Addresses : challenges'[d] \in {0, challenges[d]}
      BY <1>3
    <3> QED BY <1>1, <1>2, <1>3, <3>1, <3>2, ChallengeKept(c) DEF ChallengeKept
  <2> QED BY <2>1, <2>2
<1>7. ASSUME NEW e \in Emails PROVE CodeKept(e)'
  <2>1. codes[e].code # 0 => codes[e].code # n
    BY <1>1, ChallengeKept(a) DEF ChallengeKept
  <2> QED BY <1>1, <1>2, <1>3, <2>1, CodeKept(e) DEF CodeKept
<1>8. \A d \in Proofs : Spends(d)'
  BY <1>1 DEF Spends
<1>9. AccountsTypeOK'
  BY <1>1, <1>3 DEF AccountsTypeOK, walletVars
<1> QED BY <1>4, <1>5, <1>6, <1>7, <1>8, <1>9 DEF AccountsInv, ProofsInv

\* A proved identity enters its account, on a proof that is in no other place.
LEMMA EnterKeeps ==
    ASSUME AccountsInv, NEW r \in Logins, NEW i \in Identities, NEW n \in Proofs,
           EnterAccount(r, i, n), UNCHANGED <<issued, challenges, mailing, sessions, opened, restarts>>,
           n <= issued, opened[n] = 0,
           codes' \in [Emails -> [code : 0..MaxProofs, attempts : 0..(Guesses - 1)]],
           tried' \in [Proofs -> Nat],
           \A e \in Emails : /\ codes'[e] \in {NoCode, codes[e]} /\ codes'[e].code # n
                             /\ codes'[e] # NoCode => tried'[codes[e].code] = tried[codes[e].code],
           \A a \in Addresses : challenges[a] # n,
           \A q \in Logins \ {r} : login[q].proof # n,
           \A d \in Proofs : tried'[d] <= Guesses /\ (d > issued => tried'[d] = 0)
    PROVE  AccountsInv'
<1> USE AccountsTyped
<1> DEFINE new == [pc |-> IF Ready(i) THEN "ready" ELSE "waiting", who |-> i, proof |-> n]
<1>1. /\ identities' = identities \cup {i} /\ EnsureWallet(i)
      /\ login' = [login EXCEPT ![r] = new]
  BY DEF EnterAccount
<1>2. /\ new \in [pc : {"idle", "verifying", "waiting", "ready"},
                  who : Identities \cup {NoOne}, proof : 0..MaxProofs]
      /\ new.pc \in {"ready", "waiting"} /\ (new.pc = "ready" => Ready(i))
      /\ new.who = i /\ new.proof = n /\ n # 0
  BY DEF Proofs
<1> HIDE DEF new
<1>3. /\ login' \in [Logins -> [pc : {"idle", "verifying", "waiting", "ready"},
                                who : Identities \cup {NoOne}, proof : 0..MaxProofs]]
      /\ login'[r] = new /\ \A q \in Logins \ {r} : login'[q] = login[q]
  BY <1>1, <1>2
<1>4. /\ wallets' \in [Identities -> [type : {"NONE", "EOA", "SCA"}, key : Nat,
                                      state : {"ABSENT", "PENDING", "READY", "FAILED"}]]
      /\ provisioning' \in [Identities -> {"idle", "listing", "creating", "made"}]
      /\ circle' \in [Identities -> SUBSET Nat] /\ keys' \in [Identities -> Nat]
      /\ archived' \subseteq Identities
      /\ \A j \in Identities : WalletKept(j)' /\ (Ready(j) => Ready(j)')
  BY <1>1, EnsureKeeps
<1>5. ASSUME NEW q \in Logins PROVE LoginKept(q)' /\ InLogin(q)'
  <2>1. CASE q = r
    <3>1. login'[q] = new
      BY <1>3, <2>1
    <3>2. LoginKept(q)'
      BY <1>1, <1>2, <1>4, <3>1 DEF LoginKept, Ready
    <3> QED BY <1>2, <1>3, <2>1, <3>1, <3>2 DEF InLogin
  <2>2. CASE q # r
    <3>1. login'[q] = login[q]
      BY <1>3, <2>2
    <3>2. LoginKept(q)'
      BY <1>1, <1>4, <3>1, LoginKept(q) DEF LoginKept, Ready
    <3>3. InLogin(q)'
      BY <1>2, <1>3, <2>2, <3>1, InLogin(q) DEF InLogin
    <3> QED BY <3>2, <3>3
  <2> QED BY <2>1, <2>2
<1>6. WalletsInv'
  <2>1. \A s \in sessions : s[1] \in identities' /\ Ready(s[1])'
    <3>1. \A s \in sessions : s[1] \in Identities /\ s[1] \in identities /\ Ready(s[1])
      OBVIOUS
    <3> QED BY <1>1, <1>4, <3>1
  <2> QED BY <1>4, <1>5, <2>1 DEF WalletsInv, Ready
<1>7. NoCode.code = 0 /\ NoCode.attempts = 0
  BY DEF NoCode
<1>8. ASSUME NEW a \in Addresses PROVE ChallengeKept(a)'
  <2>1. \A q \in Logins : login'[q].proof \in {n, login[q].proof}
    BY <1>2, <1>3
  <2>2. \A e \in Emails : codes'[e].code \in {0, codes[e].code}
    BY <1>7
  <2> QED BY <2>1, <2>2, ChallengeKept(a) DEF ChallengeKept
<1>9. ASSUME NEW e \in Emails PROVE CodeKept(e)'
  <2>1. CASE codes'[e] = NoCode
    BY <1>7, <2>1 DEF CodeKept
  <2>2. CASE codes'[e] # NoCode /\ codes'[e] = codes[e]
    <3>1. \A q \in Logins : login'[q].proof \in {n, login[q].proof}
      BY <1>2, <1>3
    <3>2. \A f \in Emails : codes'[f].code \in {0, codes[f].code}
      BY <1>7
    <3> QED BY <2>2, <3>1, <3>2, CodeKept(e) DEF CodeKept
  <2> QED BY <2>1, <2>2
<1>10. \A d \in Proofs : Spends(d)'
  BY DEF Spends
<1>11. AccountsTypeOK'
  BY <1>1, <1>3, <1>4 DEF AccountsTypeOK
<1> QED BY <1>5, <1>6, <1>8, <1>9, <1>10, <1>11 DEF AccountsInv, ProofsInv

\* A right signature, or the code.
LEMMA ProvedKeeps ==
    ASSUME AccountsInv, NEW r \in Logins,
           SignatureRight(r) \/ \E e \in Emails : LoginEmail(r, e)
    PROVE  AccountsInv'
<1> USE AccountsTyped
<1>1. CASE SignatureRight(r)
  <2> DEFINE i == login[r].who
             n == login[r].proof
  <2>1. login[r].pc = "verifying" /\ EnterAccount(r, i, n) /\ UNCHANGED <<authVars, restarts>>
    BY <1>1 DEF SignatureRight
  <2>2. UNCHANGED <<issued, challenges, codes, mailing, sessions, opened, tried, restarts>>
    BY <2>1 DEF authVars
  <2>3. /\ i \in Identities /\ n \in Proofs /\ n <= issued /\ opened[n] = 0
        /\ \A q \in Logins \ {r} : login[q].proof # n
    BY <2>1, LoginKept(r), InLogin(r) DEF LoginKept, InLogin, Proofs
  <2>4. \A a \in Addresses : challenges[a] # n
    BY <2>3 DEF ChallengeKept, Proofs
  <2>5. ASSUME NEW e \in Emails PROVE codes[e].code # n
    <3>1. n # 0
      BY <2>3 DEF Proofs
    <3> QED BY <3>1, CodeKept(e) DEF CodeKept
  <2>6. \A d \in Proofs : tried'[d] <= Guesses /\ (d > issued => tried'[d] = 0)
    BY <2>2 DEF Spends
  <2> HIDE DEF i, n
  <2>7. /\ codes' \in [Emails -> [code : 0..MaxProofs, attempts : 0..(Guesses - 1)]]
        /\ tried' \in [Proofs -> Nat]
        /\ \A e \in Emails : /\ codes'[e] \in {NoCode, codes[e]} /\ codes'[e].code # n
                             /\ codes'[e] # NoCode => tried'[codes[e].code] = tried[codes[e].code]
    BY <2>2, <2>5
  <2> QED BY <2>1, <2>2, <2>3, <2>4, <2>6, <2>7, EnterKeeps
<1>2. ASSUME NEW box \in Emails, LoginEmail(r, box) PROVE AccountsInv'
  <2> DEFINE n == codes[box].code
  <2>1. /\ codes[box] # NoCode /\ codes[box].attempts < Guesses
        /\ codes' = [codes EXCEPT ![box] = NoCode] /\ tried' = [tried EXCEPT ![n] = @ + 1]
        /\ EnterAccount(r, box, n) /\ UNCHANGED <<issued, challenges, mailing, sessions, opened, restarts>>
    BY <1>2 DEF LoginEmail
  <2>2. n # 0
    BY <2>1, CodeKept(box) DEF CodeKept, NoCode
  <2>3. /\ n \in Proofs /\ n <= issued /\ opened[n] = 0 /\ tried[n] = codes[box].attempts
        /\ \A f \in Emails \ {box} : codes[f].code # n
        /\ \A q \in Logins : login[q].proof # n
    BY <2>2, CodeKept(box) DEF CodeKept, Proofs
  <2>4. \A a \in Addresses : challenges[a] # n
    BY <2>2, <2>3 DEF ChallengeKept
  <2>5. /\ tried' \in [Proofs -> Nat] /\ tried'[n] = tried[n] + 1
        /\ \A d \in Proofs \ {n} : tried'[d] = tried[d]
    BY <2>1, <2>3
  <2>6. \A d \in Proofs : tried'[d] <= Guesses /\ (d > issued => tried'[d] = 0)
    BY <2>1, <2>3, <2>5 DEF Spends
  <2>7. /\ NoCode \in [code : 0..MaxProofs, attempts : 0..(Guesses - 1)] /\ NoCode.code = 0
    BY DEF NoCode
  <2>8. /\ codes' \in [Emails -> [code : 0..MaxProofs, attempts : 0..(Guesses - 1)]]
        /\ codes'[box] = NoCode /\ \A f \in Emails \ {box} : codes'[f] = codes[f]
    BY <2>1, <2>7
  <2>9. ASSUME NEW f \in Emails
        PROVE  /\ codes'[f] \in {NoCode, codes[f]} /\ codes'[f].code # n
               /\ codes'[f] # NoCode => tried'[codes[f].code] = tried[codes[f].code]
    <3>1. CASE f = box
      BY <2>2, <2>7, <2>8, <3>1
    <3>2. CASE f # box
      <4>1. codes'[f] = codes[f] /\ codes[f].code # n
        BY <2>3, <2>8, <3>2
      <4>2. codes[f] # NoCode => codes[f].code \in Proofs
        BY CodeKept(f) DEF CodeKept, NoCode, Proofs
      <4> QED BY <2>5, <4>1, <4>2
    <3> QED BY <3>1, <3>2
  <2>10. box \in Identities /\ \A q \in Logins \ {r} : login[q].proof # n
    BY <2>3
  <2>11. \A f \in Emails : /\ codes'[f] \in {NoCode, codes[f]} /\ codes'[f].code # n
                           /\ codes'[f] # NoCode => tried'[codes[f].code] = tried[codes[f].code]
    BY <2>9
  <2>12. /\ UNCHANGED <<issued, challenges, mailing, sessions, opened, restarts>>
         /\ EnterAccount(r, box, n) /\ n \in Proofs /\ n <= issued /\ opened[n] = 0
         /\ codes' \in [Emails -> [code : 0..MaxProofs, attempts : 0..(Guesses - 1)]]
         /\ tried' \in [Proofs -> Nat]
    BY <2>1, <2>3, <2>5, <2>8
  <2> HIDE DEF n
  <2> QED BY <2>4, <2>6, <2>10, <2>11, <2>12, EnterKeeps
<1> QED BY <1>1, <1>2

\* A login ends, with a session or without one.
LEMMA LoginEndsKeeps ==
    ASSUME AccountsInv, NEW r \in Logins, SignatureWrong(r) \/ CreateSession(r)
    PROVE  AccountsInv'
<1> USE AccountsTyped
<1> DEFINE n == login[r].proof
<1>1. /\ login[r].pc # "idle" /\ login' = [login EXCEPT ![r] = NoLogin]
      /\ UNCHANGED <<issued, challenges, codes, mailing, tried, walletVars, identities, restarts>>
  BY DEF SignatureWrong, CreateSession, authVars
<1>2. n \in Proofs /\ opened[n] = 0 /\ n <= issued /\ \A q \in Logins \ {r} : login[q].proof # n
  BY <1>1, LoginKept(r), InLogin(r) DEF LoginKept, InLogin, Proofs
<1>3. /\ NoLogin \in [pc : {"idle", "verifying", "waiting", "ready"},
                      who : Identities \cup {NoOne}, proof : 0..MaxProofs]
      /\ NoLogin.pc = "idle" /\ NoLogin.proof = 0
  BY DEF NoLogin
<1>4. /\ login' \in [Logins -> [pc : {"idle", "verifying", "waiting", "ready"},
                                who : Identities \cup {NoOne}, proof : 0..MaxProofs]]
      /\ login'[r] = NoLogin /\ \A q \in Logins \ {r} : login'[q] = login[q]
  BY <1>1, <1>3
<1>5. /\ opened' \in [Proofs -> Nat] /\ opened'[n] <= 1
      /\ \A d \in Proofs \ {n} : opened'[d] = opened[d]
  BY <1>2 DEF SignatureWrong, CreateSession, authVars
<1>6. /\ sessions' \subseteq Identities \X Proofs
      /\ \A s \in sessions' : s \in sessions \/ (Ready(s[1]) /\ s[1] \in identities)
  <2>1. CASE sessions' = sessions
    BY <2>1
  <2>2. CASE login[r].pc = "ready" /\ sessions' = sessions \cup {<<login[r].who, n>>}
    <3>1. login[r].who \in Identities /\ login[r].who \in identities /\ Ready(login[r].who)
      BY <1>1, <2>2, LoginKept(r) DEF LoginKept
    <3> QED BY <1>2, <2>2, <3>1
  <2> QED BY <2>1, <2>2 DEF SignatureWrong, CreateSession, authVars
<1>7. ASSUME NEW q \in Logins PROVE LoginKept(q)' /\ InLogin(q)'
  <2>1. CASE q = r
    BY <1>3, <1>4, <2>1 DEF LoginKept, InLogin
  <2>2. CASE q # r
    <3>1. login'[q] = login[q] /\ login[q].proof # n
      BY <1>2, <1>4, <2>2
    <3>2. LoginKept(q)'
      BY <1>1, <3>1, LoginKept(q) DEF LoginKept, Ready, walletVars
    <3>3. InLogin(q)'
      <4>1. login[q].proof # 0 => login[q].proof \in Proofs
        BY DEF Proofs
      <4> QED BY <1>1, <1>3, <1>4, <1>5, <2>2, <3>1, <4>1, InLogin(q) DEF InLogin
    <3> QED BY <3>2, <3>3
  <2> QED BY <2>1, <2>2
<1>8. WalletsInv'
  <2>1. UNCHANGED <<wallets, circle, provisioning, identities>>
    BY <1>1 DEF walletVars
  <2>2. \A i \in Identities : WalletKept(i)'
    BY <2>1 DEF WalletKept, InFlight, Ready
  <2>3. \A s \in sessions' : s[1] \in identities' /\ Ready(s[1])'
    BY <1>6, <2>1 DEF Ready
  <2> QED BY <1>7, <2>2, <2>3 DEF WalletsInv, Ready
<1>9. \A q \in Logins : login'[q].proof \in {0, login[q].proof}
  BY <1>3, <1>4
<1>10. ASSUME NEW a \in Addresses PROVE ChallengeKept(a)'
  <2>1. challenges[a] # 0 => challenges[a] \in Proofs /\ challenges[a] # n
    BY ChallengeKept(a) DEF ChallengeKept, Proofs
  <2> QED BY <1>1, <1>5, <1>9, <2>1, ChallengeKept(a) DEF ChallengeKept
<1>11. ASSUME NEW e \in Emails PROVE CodeKept(e)'
  <2>1. codes[e].code # 0 => codes[e].code \in Proofs /\ codes[e].code # n
    BY CodeKept(e) DEF CodeKept, Proofs
  <2> QED BY <1>1, <1>5, <1>9, <2>1, CodeKept(e) DEF CodeKept
<1>12. ASSUME NEW d \in Proofs PROVE Spends(d)'
  <2>1. issued \in Nat /\ n \in Nat /\ d \in Nat
    BY DEF Proofs
  <2> QED BY <1>1, <1>2, <1>5, <2>1, Spends(d) DEF Spends
<1>13. AccountsTypeOK'
  BY <1>1, <1>4, <1>5, <1>6 DEF AccountsTypeOK, walletVars
<1> QED BY <1>7, <1>8, <1>10, <1>11, <1>12, <1>13 DEF AccountsInv, ProofsInv

\* The process ends: what was held in memory is gone, and wallets are asked for again
\* under their keys.
LEMMA RestartKeeps ==
    ASSUME AccountsInv, Restart
    PROVE  AccountsInv'
<1> USE AccountsTyped
<1>1. /\ restarts' \in 0..MaxRestarts /\ mailing' = {} /\ sessions' = {}
      /\ UNCHANGED <<issued, opened, tried, wallets, archived, circle, keys, identities>>
  BY DEF Restart
<1>2. /\ NoLogin \in [pc : {"idle", "verifying", "waiting", "ready"},
                      who : Identities \cup {NoOne}, proof : 0..MaxProofs]
      /\ NoLogin.pc = "idle" /\ NoLogin.proof = 0
      /\ NoCode \in [code : 0..MaxProofs, attempts : 0..(Guesses - 1)]
      /\ NoCode.code = 0 /\ NoCode.attempts = 0
  BY DEF NoLogin, NoCode
<1>3. /\ challenges' \in [Addresses -> 0..MaxProofs] /\ \A a \in Addresses : challenges'[a] = 0
      /\ codes' \in [Emails -> [code : 0..MaxProofs, attempts : 0..(Guesses - 1)]]
      /\ \A e \in Emails : codes'[e] = NoCode
      /\ login' \in [Logins -> [pc : {"idle", "verifying", "waiting", "ready"},
                                who : Identities \cup {NoOne}, proof : 0..MaxProofs]]
      /\ \A r \in Logins : login'[r] = NoLogin
      /\ provisioning' \in [Identities -> {"idle", "listing", "creating", "made"}]
      /\ \A i \in Identities : provisioning'[i] = "idle"
  BY <1>2 DEF Restart
<1>4. AccountsTypeOK'
  BY <1>1, <1>3 DEF AccountsTypeOK
<1>5. ASSUME NEW i \in Identities PROVE WalletKept(i)'
  BY <1>1, <1>3, WalletKept(i) DEF WalletKept, InFlight, Ready
<1>6. WalletsInv'
  BY <1>1, <1>2, <1>3, <1>5 DEF WalletsInv, LoginKept
<1>7. \A d \in Proofs : Spends(d)'
  BY <1>1 DEF Spends
<1>8. ProofsInv'
  BY <1>2, <1>3, <1>7 DEF ProofsInv, ChallengeKept, CodeKept, InLogin
<1> QED BY <1>4, <1>6, <1>8 DEF AccountsInv

\* Nobody is signed in at first; older users may have a wallet of the kind set aside.
LEMMA InitAccounts == AccountsInit => AccountsInv
<1> SUFFICES ASSUME AccountsInit PROVE AccountsInv
  OBVIOUS
<1> USE AccountsAssumption DEF AccountsInit
<1>1. /\ NoLogin \in [pc : {"idle", "verifying", "waiting", "ready"},
                      who : Identities \cup {NoOne}, proof : 0..MaxProofs]
      /\ NoLogin.pc = "idle" /\ NoLogin.proof = 0
      /\ NoCode \in [code : 0..MaxProofs, attempts : 0..(Guesses - 1)]
      /\ NoCode.code = 0 /\ NoCode.attempts = 0
  BY DEF NoLogin, NoCode
<1>2. ASSUME NEW w \in {NoWallet, OldWallet}
      PROVE  /\ w \in [type : {"NONE", "EOA", "SCA"}, key : Nat,
                       state : {"ABSENT", "PENDING", "READY", "FAILED"}]
             /\ w.type # "SCA"
  BY DEF NoWallet, OldWallet
<1>3. AccountsTypeOK
  BY <1>1, <1>2 DEF AccountsTypeOK
<1>4. WalletsInv
  BY <1>1, <1>2 DEF WalletsInv, WalletKept, LoginKept, InFlight, Ready
<1>5. ProofsInv
  BY <1>1 DEF ProofsInv, ChallengeKept, CodeKept, InLogin, Spends, Proofs
<1> QED BY <1>3, <1>4, <1>5 DEF AccountsInv

LEMMA NextAccounts == AccountsInv /\ [AccountsNext]_accountVars => AccountsInv'
<1> SUFFICES ASSUME AccountsInv, [AccountsNext]_accountVars PROVE AccountsInv'
  OBVIOUS
<1>1. CASE UNCHANGED accountVars
  <2>1. UNCHANGED <<issued, challenges, codes, mailing, sessions, opened, tried, wallets, archived,
                    provisioning, circle, keys, login, identities, restarts>>
    BY <1>1 DEF accountVars, authVars, walletVars
  <2>2. WalletsInv'
    BY <2>1, LoginsStay DEF walletVars
  <2>3. AccountsTypeOK'
    BY <2>1 DEF AccountsInv, AccountsTypeOK
  <2>4. ProofsInv'
    BY <2>1 DEF AccountsInv, ProofsInv, ChallengeKept, CodeKept, InLogin, Spends
  <2> QED BY <2>2, <2>3, <2>4 DEF AccountsInv
<1>2. ASSUME NEW a \in Addresses, AddressStep(a) PROVE AccountsInv'
  BY <1>2, IssueKeeps, EndsKeeps, VerifyKeeps DEF AddressStep
<1>3. ASSUME NEW e \in Emails, EmailStep(e) PROVE AccountsInv'
  BY <1>3, IssueKeeps, EndsKeeps, GuessKeeps, ProvedKeeps DEF EmailStep
<1>4. ASSUME MailStep \/ \E s \in sessions : EndSession(s) PROVE AccountsInv'
  BY <1>4, EndsKeeps DEF MailStep
<1>5. ASSUME NEW r \in Logins, LoginStep(r) PROVE AccountsInv'
  BY <1>5, ProvedKeeps, LoginEndsKeeps DEF LoginStep
<1>6. ASSUME NEW i \in Identities, WalletStep(i) PROVE AccountsInv'
  BY <1>6, WalletKeeps
<1>7. CASE Restart
  BY <1>7, RestartKeeps
<1> QED BY <1>1, <1>2, <1>3, <1>4, <1>5, <1>6, <1>7 DEF AccountsNext

\* What the invariant says of one state is that logins are sound.
LEMMA InvLoginsSound == AccountsInv => LoginsSound
<1> SUFFICES ASSUME AccountsInv PROVE LoginsSound
  OBVIOUS
<1>1. ASSUME NEW i \in Identities
      PROVE  Cardinality(circle[i]) <= 1 /\ (Ready(i) => circle[i] = {wallets[i].key})
  <2>1. circle[i] \subseteq {wallets[i].key} /\ (Ready(i) => circle[i] = {wallets[i].key})
    BY AccountsTyped DEF WalletKept
  <2>2. Cardinality(circle[i]) <= 1
    <3>1. PICK key : circle[i] \subseteq {key}
      BY <2>1
    <3>2. circle[i] = {} \/ circle[i] = {key}
      BY <3>1
    <3>3. Cardinality({}) = 0 /\ Cardinality({key}) = 1
      BY FS_EmptySet, FS_Singleton
    <3>4. Cardinality(circle[i]) = 0 \/ Cardinality(circle[i]) = 1
      BY <3>2, <3>3, Zenon
    <3> QED BY <3>4
  <2> QED BY <2>1, <2>2
<1>2. OneWallet
  BY <1>1, AccountsTyped DEF OneWallet
<1>3. OneSessionPerProof
  BY AccountsTyped DEF OneSessionPerProof, Spends
<1>4. AccountsTypeOK
  BY DEF AccountsInv
<1> QED BY <1>2, <1>3, <1>4 DEF LoginsSound

LEMMA AccountsAlways == AccountsSpec => []AccountsInv
<1> QED BY InitAccounts, NextAccounts, PTL DEF AccountsSpec

\* A session stands for one proof and one wallet: for any number of users and of logins
\* that overlap, whatever fails at Circle, in the mail or in between.
THEOREM LoginsAlwaysSound == AccountsSpec => []LoginsSound
BY AccountsAlways, InvLoginsSound, PTL

\* Every challenge, code, login, session and wallet stays one the code makes.
THEOREM AccountsAlwaysTyped == AccountsSpec => []AccountsTypeOK
<1>1. AccountsInv => AccountsTypeOK
  BY DEF AccountsInv
<1> QED BY <1>1, AccountsAlways, PTL

-----------------------------------------------------------------------------
(* Agents.  Nothing Arc has is taken back, so what a request saw before its  *)
(* await still holds after it.                                               *)

\* An agent's record with what Arc holds of it, and its entry with Arc's.
AgentKept(a) ==
    /\ agent[a].state # "ABSENT" => agent[a].versions > 0
    /\ agent[a].state \in {"ACTIVE", "INACTIVE"} => onArc[a] # "none"
    /\ registry /\ agent[a].state = "INACTIVE" => onArc[a] = "inactive"
    /\ entered[a] > 0 => entered[a] = entry[a]
    /\ a \in entrants => entered[a] > 0

\* What a request may rely on after its await.
RequestKept(r) ==
    LET a == requests[r].agent
        pc == requests[r].pc
    IN  /\ pc # "idle" => a \in Agents
        /\ pc \in {"registering", "registered"} => agent[a].state # "ABSENT"
        /\ pc = "registered" => onArc[a] # "none"
        /\ pc \in {"reading", "deactivating", "deactivated"} =>
              registry /\ agent[a].state \in {"ACTIVE", "INACTIVE"}
        /\ pc = "deactivated" => onArc[a] = "inactive"
        /\ pc \in {"entering", "entered"} => requests[r].version = entry[a] /\ entry[a] > 0
        /\ pc = "entered" => entered[a] > 0

\* A campaign's record, the publishing of it, and what was sent, all under its one key.
CampaignKept(c) ==
    /\ feedback[c].state = "ABSENT" <=> feedback[c].key = 0
    /\ publishing[c] # "idle" => feedback[c].state # "ABSENT"
    /\ publishing[c] = "given" \/ feedback[c].state = "COMPLETE" => <<c, feedback[c].key>> \in given
    /\ \A g \in given : g[1] = c => g[2] = feedback[c].key /\ feedback[c].state # "ABSENT"

OneDraft ==
    \A a \in Agents, b \in Agents :
        agent[a].state = "PENDING" /\ agent[b].state = "PENDING" /\ agent[a].text = agent[b].text => a = b

AgentIdentityInv ==
    /\ AgentIdentityTypeOK
    /\ \A a \in Agents : AgentKept(a)
    /\ \A r \in OwnerRequests : RequestKept(r)
    /\ OneDraft
    /\ \A c \in Campaigns : CampaignKept(c)

AgentRecord == [state : {"ABSENT", "PENDING", "ACTIVE", "INACTIVE"},
                text : Texts \cup {NoAgent}, versions : 0..MaxVersions]
RequestRecord ==
    [pc : {"idle", "registering", "registered", "entering", "entered", "reading", "deactivating", "deactivated"},
     agent : Agents \cup {NoAgent}, version : 0..MaxVersions]

\* A record whose state changes keeps the rest.
LEMMA WithState ==
    ASSUME NEW record \in AgentRecord, NEW state \in {"ABSENT", "PENDING", "ACTIVE", "INACTIVE"}
    PROVE  /\ [record EXCEPT !.state = state] \in AgentRecord
           /\ [record EXCEPT !.state = state].state = state
           /\ [record EXCEPT !.state = state].text = record.text
           /\ [record EXCEPT !.state = state].versions = record.versions
BY DEF AgentRecord

LEMMA AgentTyped ==
    ASSUME AgentIdentityInv
    PROVE  /\ agent \in [Agents -> AgentRecord] /\ onArc \in [Agents -> {"none", "active", "inactive"}]
           /\ registry \in BOOLEAN /\ requests \in [OwnerRequests -> RequestRecord]
           /\ entry \in [Agents -> 0..MaxVersions] /\ entered \in [Agents -> 0..MaxVersions]
           /\ entrants \subseteq Agents /\ open \subseteq {"api", "arc"}
           /\ feedback \in [Campaigns -> [state : {"ABSENT", "PENDING", "FAILED", "COMPLETE"}, key : Nat]]
           /\ publishing \in [Campaigns -> {"idle", "giving", "given"}]
           /\ given \subseteq Campaigns \X Nat /\ feedbackKeys \in [Campaigns -> Nat]
           /\ crashes \in 0..MaxCrashes
           /\ \A a \in Agents : AgentKept(a)
           /\ \A r \in OwnerRequests : RequestKept(r)
           /\ \A c \in Campaigns : CampaignKept(c)
           /\ MaxVersions \in Nat \ {0} /\ MaxCrashes \in Nat /\ NoAgent \notin Agents
           /\ NoRequest \in RequestRecord /\ NoRequest.pc = "idle"
BY AgentIdentityAssumption
   DEF AgentIdentityInv, AgentIdentityTypeOK, AgentRecord, RequestRecord, NoRequest

\* A step that gives no feedback.
LEMMA AgentStep ==
    ASSUME AgentIdentityInv, UNCHANGED <<feedbackVars, crashes, registry>>,
           agent' \in [Agents -> AgentRecord], onArc' \in [Agents -> {"none", "active", "inactive"}],
           requests' \in [OwnerRequests -> RequestRecord],
           entry' \in [Agents -> 0..MaxVersions], entered' \in [Agents -> 0..MaxVersions],
           entrants' \subseteq Agents, open' \subseteq {"api", "arc"},
           \A a \in Agents : AgentKept(a)', \A r \in OwnerRequests : RequestKept(r)', OneDraft'
    PROVE  AgentIdentityInv'
<1>1. UNCHANGED <<feedback, publishing, given, feedbackKeys, crashes, registry>>
  BY DEF feedbackVars
<1>2. AgentIdentityTypeOK'
  BY <1>1, AgentTyped DEF AgentIdentityTypeOK, AgentRecord, RequestRecord
<1>3. \A c \in Campaigns : CampaignKept(c)'
  BY <1>1, AgentTyped DEF CampaignKept
<1> QED BY <1>2, <1>3 DEF AgentIdentityInv

\* Nothing a request may rely on is taken back.
Grows ==
    \A a \in Agents :
        /\ agent[a].state # "ABSENT" => agent'[a].state # "ABSENT"
        /\ agent[a].state \in {"ACTIVE", "INACTIVE"} => agent'[a].state \in {"ACTIVE", "INACTIVE"}
        /\ onArc[a] # "none" => onArc'[a] # "none"
        /\ onArc[a] = "inactive" => onArc'[a] = "inactive"
        /\ entry[a] > 0 => entry'[a] = entry[a]
        /\ entered[a] > 0 => entered'[a] > 0

LEMMA OthersKept ==
    ASSUME AgentIdentityInv, Grows, registry' = registry, NEW r \in OwnerRequests,
           requests'[r] = requests[r]
    PROVE  RequestKept(r)'
<1>1. RequestKept(r) /\ requests[r] \in RequestRecord
  BY AgentTyped
<1> DEFINE a == requests[r].agent
<1>2. CASE requests[r].pc = "idle"
  BY <1>1, <1>2 DEF RequestKept
<1>3. CASE requests[r].pc # "idle"
  <2>1. a \in Agents /\ entry[a] \in Nat /\ entered[a] \in Nat
    BY <1>1, <1>3, AgentTyped DEF RequestKept
  <2>2. /\ agent[a].state # "ABSENT" => agent'[a].state # "ABSENT"
        /\ agent[a].state \in {"ACTIVE", "INACTIVE"} => agent'[a].state \in {"ACTIVE", "INACTIVE"}
        /\ onArc[a] # "none" => onArc'[a] # "none"
        /\ onArc[a] = "inactive" => onArc'[a] = "inactive"
        /\ entry[a] > 0 => entry'[a] = entry[a]
        /\ entered[a] > 0 => entered'[a] > 0
    BY <2>1 DEF Grows
  <2> QED BY <1>1, <2>1, <2>2 DEF RequestKept
<1> QED BY <1>2, <1>3

\* The requests after one of them went on as own, or ended.
LEMMA HandledKept ==
    ASSUME AgentIdentityInv, Grows, registry' = registry, NEW r \in OwnerRequests,
           NEW own \in RequestRecord, requests' = [requests EXCEPT ![r] = own], RequestKept(r)'
    PROVE  /\ requests' \in [OwnerRequests -> RequestRecord]
           /\ \A q \in OwnerRequests : RequestKept(q)'
<1>1. requests' \in [OwnerRequests -> RequestRecord]
  BY AgentTyped
<1>2. ASSUME NEW q \in OwnerRequests PROVE RequestKept(q)'
  <2>1. CASE q = r
    BY <2>1
  <2>2. CASE q # r
    BY <2>2, AgentTyped, OthersKept
  <2> QED BY <2>1, <2>2
<1> QED BY <1>1, <1>2

\* A request that ends, or fails, relies on nothing.
LEMMA EndedKept ==
    ASSUME AgentIdentityInv, Grows, registry' = registry, NEW r \in OwnerRequests, Ends(r)
    PROVE  /\ requests' \in [OwnerRequests -> RequestRecord]
           /\ \A q \in OwnerRequests : RequestKept(q)'
<1>1. requests' = [requests EXCEPT ![r] = NoRequest]
  BY DEF Ends
<1>2. requests'[r].pc = "idle"
  BY <1>1, AgentTyped
<1>3. RequestKept(r)'
  BY <1>2 DEF RequestKept
<1> QED BY <1>1, <1>3, AgentTyped, HandledKept

\* A request that goes on as pc, of agent a and version v.
LEMMA OnwardKept ==
    ASSUME AgentIdentityInv, Grows, registry' = registry, NEW r \in OwnerRequests,
           NEW a \in Agents, NEW v \in 0..MaxVersions,
           NEW pc \in {"registering", "registered", "entering", "entered", "reading", "deactivating", "deactivated"},
           Handles(r, pc, a, v),
           pc \in {"registering", "registered"} => agent'[a].state # "ABSENT",
           pc = "registered" => onArc'[a] # "none",
           pc \in {"reading", "deactivating", "deactivated"} =>
              registry /\ agent'[a].state \in {"ACTIVE", "INACTIVE"},
           pc = "deactivated" => onArc'[a] = "inactive",
           pc \in {"entering", "entered"} => v = entry'[a] /\ entry'[a] > 0,
           pc = "entered" => entered'[a] > 0
    PROVE  /\ requests' \in [OwnerRequests -> RequestRecord]
           /\ \A q \in OwnerRequests : RequestKept(q)'
<1> DEFINE own == [pc |-> pc, agent |-> a, version |-> v]
<1>1. requests' = [requests EXCEPT ![r] = own] /\ own \in RequestRecord
  BY DEF Handles, RequestRecord
<1>2. own.pc = pc /\ own.agent = a /\ own.version = v
  OBVIOUS
<1> HIDE DEF own
<1>3. requests'[r] = own
  BY <1>1, AgentTyped
<1>4. RequestKept(r)'
  BY <1>2, <1>3 DEF RequestKept
<1> QED BY <1>1, <1>4, HandledKept

\* A draft is taken up again, or made when the owner has none of that text.
LEMMA PrepareAgentKeeps ==
    ASSUME AgentIdentityInv, NEW r \in OwnerRequests, NEW text \in Texts, PrepareAgent(r, text)
    PROVE  AgentIdentityInv'
<1> USE AgentTyped
<1> DEFINE new == [state |-> "PENDING", text |-> text, versions |-> 1]
<1>1. PICK a \in Agents :
         /\ Draft(text) # {} => a \in Draft(text)
         /\ Draft(text) = {} => agent[a] = NoAgentRecord
         /\ agent' = [agent EXCEPT ![a] = new]
         /\ Handles(r, "registering", a, 1)
  <2>1. Draft(text) \subseteq Agents
    BY DEF Draft
  <2>2. PICK a \in IF Draft(text) # {} THEN Draft(text) ELSE {n \in Agents : agent[n] = NoAgentRecord} :
            agent' = [agent EXCEPT ![a] = new] /\ Handles(r, "registering", a, 1)
    BY DEF PrepareAgent
  <2>3. CASE Draft(text) # {}
    BY <2>1, <2>2, <2>3
  <2>4. CASE Draft(text) = {}
    BY <2>2, <2>4
  <2> QED BY <2>3, <2>4
<1>2. UNCHANGED <<onArc, registry, entry, entered, entrants, open, feedbackVars, crashes>>
  BY DEF PrepareAgent
<1>3. new \in AgentRecord /\ new.state = "PENDING" /\ new.text = text /\ new.versions = 1
  BY DEF AgentRecord
<1> HIDE DEF new
<1>4. /\ agent' \in [Agents -> AgentRecord] /\ agent'[a] = new
      /\ \A b \in Agents \ {a} : agent'[b] = agent[b]
  BY <1>1, <1>3
<1>5. agent[a].state \in {"ABSENT", "PENDING"}
  <2>1. CASE Draft(text) # {}
    BY <1>1, <2>1 DEF Draft
  <2>2. CASE Draft(text) = {}
    BY <1>1, <2>2 DEF NoAgentRecord
  <2> QED BY <2>1, <2>2
<1>6. \A b \in Agents \ {a} : agent[b].state = "PENDING" => agent[b].text # text
  <2>1. CASE Draft(text) # {}
    <3>1. agent[a].state = "PENDING" /\ agent[a].text = text
      BY <1>1, <2>1 DEF Draft
    <3> QED BY <3>1 DEF AgentIdentityInv, OneDraft
  <2>2. CASE Draft(text) = {}
    BY <2>2 DEF Draft
  <2> QED BY <2>1, <2>2
<1>7. Grows
  BY <1>2, <1>3, <1>4, <1>5 DEF Grows
<1>8. ASSUME NEW b \in Agents PROVE AgentKept(b)'
  <2>1. CASE b = a
    BY <1>2, <1>3, <1>4, <2>1, AgentKept(a) DEF AgentKept
  <2>2. CASE b # a
    BY <1>2, <1>4, <2>2, AgentKept(b) DEF AgentKept
  <2> QED BY <2>1, <2>2
<1>9. OneDraft'
  <2>1. ASSUME NEW b \in Agents, NEW c \in Agents, agent'[b].state = "PENDING",
               agent'[c].state = "PENDING", agent'[b].text = agent'[c].text
        PROVE  b = c
    <3>1. CASE b = a
      BY <1>3, <1>4, <1>6, <2>1, <3>1
    <3>2. CASE c = a
      BY <1>3, <1>4, <1>6, <2>1, <3>2
    <3>3. CASE b # a /\ c # a
      BY <1>4, <2>1, <3>3 DEF AgentIdentityInv, OneDraft
    <3> QED BY <3>1, <3>2, <3>3
  <2> QED BY <2>1 DEF OneDraft
<1>10. /\ requests' \in [OwnerRequests -> RequestRecord]
       /\ \A q \in OwnerRequests : RequestKept(q)'
  <2>1. agent'[a].state # "ABSENT" /\ 1 \in 0..MaxVersions /\ registry' = registry
    BY <1>2, <1>3, <1>4
  <2> QED BY <1>1, <1>7, <2>1, OnwardKept
<1> QED BY <1>2, <1>4, <1>8, <1>9, <1>10, AgentStep

\* The identity is made, and the draft becomes an agent in use.
LEMMA CreatedKeeps ==
    ASSUME AgentIdentityInv, NEW r \in OwnerRequests, RegisterAgent(r) \/ CommitAgent(r)
    PROVE  AgentIdentityInv'
<1> USE AgentTyped
<1> DEFINE a == requests[r].agent
<1>1. a \in Agents /\ agent[a].state # "ABSENT"
  BY RequestKept(r) DEF RequestKept, RegisterAgent, CommitAgent, Awaits
<1>2. CASE RegisterAgent(r)
  <2>1. /\ onArc' = [onArc EXCEPT ![a] = IF @ = "none" THEN "active" ELSE @]
        /\ Handles(r, "registered", a, 1)
        /\ UNCHANGED <<agent, registry, entry, entered, entrants, open, feedbackVars, crashes>>
    BY <1>2 DEF RegisterAgent
  <2> HIDE DEF a
  <2>2. /\ onArc' \in [Agents -> {"none", "active", "inactive"}] /\ onArc'[a] # "none"
        /\ \A b \in Agents : onArc[b] # "none" => onArc'[b] = onArc[b]
    BY <1>1, <2>1
  <2>3. Grows
    BY <2>1, <2>2 DEF Grows
  <2>4. ASSUME NEW b \in Agents PROVE AgentKept(b)'
    BY <2>1, <2>2, AgentKept(b) DEF AgentKept
  <2>5. OneDraft'
    BY <2>1 DEF AgentIdentityInv, OneDraft
  <2>6. /\ requests' \in [OwnerRequests -> RequestRecord]
        /\ \A q \in OwnerRequests : RequestKept(q)'
    <3>1. agent'[a].state # "ABSENT" /\ 1 \in 0..MaxVersions /\ registry' = registry
      BY <1>1, <2>1
    <3> QED BY <1>1, <2>1, <2>2, <2>3, <3>1, OnwardKept
  <2> QED BY <2>1, <2>2, <2>4, <2>5, <2>6, AgentStep
<1>3. CASE CommitAgent(r)
  <2> DEFINE own == [agent[a] EXCEPT !.state = IF agent[a].state = "PENDING" THEN "ACTIVE" ELSE agent[a].state]
  <2>1. /\ agent' = [agent EXCEPT ![a] = own] /\ Ends(r)
        /\ UNCHANGED <<onArc, registry, entry, entered, entrants, open, feedbackVars, crashes>>
    BY <1>3 DEF CommitAgent
  <2>2. onArc[a] # "none"
    BY <1>3, RequestKept(r) DEF RequestKept, CommitAgent, Awaits
  <2>3. /\ own \in AgentRecord /\ own.state \in {"ACTIVE", "INACTIVE"} /\ own.versions = agent[a].versions
        /\ own.state = "INACTIVE" => agent[a].state = "INACTIVE"
    <3> DEFINE state == IF agent[a].state = "PENDING" THEN "ACTIVE" ELSE agent[a].state
    <3>1. agent[a] \in AgentRecord
      BY <1>1
    <3>2. /\ state \in {"ACTIVE", "INACTIVE"}
          /\ state = "INACTIVE" => agent[a].state = "INACTIVE"
      BY <1>1, <3>1 DEF AgentRecord
    <3>3. own = [agent[a] EXCEPT !.state = state]
      OBVIOUS
    <3> HIDE DEF own, state, a
    <3>4. state \in {"ABSENT", "PENDING", "ACTIVE", "INACTIVE"}
      BY <3>2
    <3>5. own \in AgentRecord /\ own.state = state /\ own.versions = agent[a].versions
      BY ONLY <3>1, <3>3, <3>4, WithState
    <3> QED BY <3>2, <3>5
  <2> HIDE DEF own, a
  <2>4. /\ agent' \in [Agents -> AgentRecord] /\ agent'[a] = own
        /\ \A b \in Agents \ {a} : agent'[b] = agent[b]
    BY <1>1, <2>1, <2>3
  <2>5. Grows
    BY <2>1, <2>3, <2>4 DEF Grows
  <2>6. ASSUME NEW b \in Agents PROVE AgentKept(b)'
    <3>1. CASE b = a
      BY <1>1, <2>1, <2>2, <2>3, <2>4, <3>1, AgentKept(a) DEF AgentKept
    <3>2. CASE b # a
      BY <2>1, <2>4, <3>2, AgentKept(b) DEF AgentKept
    <3> QED BY <3>1, <3>2
  <2>7. OneDraft'
    BY <2>3, <2>4 DEF AgentIdentityInv, OneDraft
  <2>8. /\ requests' \in [OwnerRequests -> RequestRecord]
        /\ \A q \in OwnerRequests : RequestKept(q)'
    BY <2>1, <2>5, EndedKept
  <2> QED BY <2>1, <2>4, <2>6, <2>7, <2>8, AgentStep
<1> QED BY <1>2, <1>3

\* A version is published, or an agent with a token is deactivated.
LEMMA RecordKeeps ==
    ASSUME AgentIdentityInv, NEW a \in Agents, UpdateAgent(a) \/ DeactivateToken(a)
    PROVE  AgentIdentityInv'
<1> USE AgentTyped
<1>1. /\ agent[a].state = "ACTIVE" /\ agent[a].versions \in Nat /\ agent[a] \in AgentRecord
      /\ UNCHANGED <<onArc, registry, requests, entry, entered, entrants, open, feedbackVars, crashes>>
  BY DEF UpdateAgent, DeactivateToken, AgentRecord
<1>2. PICK own \in AgentRecord :
         /\ agent' = [agent EXCEPT ![a] = own] /\ own.versions > 0
         /\ own.state \in {"ACTIVE", "INACTIVE"} /\ (own.state = "INACTIVE" => ~registry)
  <2>1. CASE UpdateAgent(a)
    <3> DEFINE own == [agent[a] EXCEPT !.versions = agent[a].versions + 1]
    <3> USE DEF AgentRecord
    <3>3. agent[a].versions + 1 \in 0..MaxVersions /\ agent[a].versions + 1 > 0
      <4>1. agent[a].versions < MaxVersions
        BY <2>1 DEF UpdateAgent
      <4>2. agent[a].versions \in 0..MaxVersions
        BY <1>1
      <4> QED BY <4>1, <4>2
    <3>1. own \in AgentRecord /\ own.versions > 0 /\ own.state = "ACTIVE"
      <4>1. own \in AgentRecord
        BY <1>1, <3>3
      <4>2. own.versions = agent[a].versions + 1 /\ own.state = agent[a].state
        BY <1>1
      <4> QED BY <1>1, <3>3, <4>1, <4>2
    <3>2. agent' = [agent EXCEPT ![a] = own]
      BY <2>1 DEF UpdateAgent
    <3> QED BY <3>1, <3>2
  <2>2. CASE DeactivateToken(a)
    <3> DEFINE own == [agent[a] EXCEPT !.state = "INACTIVE"]
    <3>1. own \in AgentRecord /\ own.versions > 0 /\ own.state = "INACTIVE"
      BY <1>1, <2>2, AgentKept(a) DEF AgentRecord, DeactivateToken, AgentKept
    <3>2. agent' = [agent EXCEPT ![a] = own] /\ ~registry
      BY <2>2 DEF DeactivateToken
    <3> QED BY <3>1, <3>2
  <2> QED BY <2>1, <2>2
<1>3. /\ agent' \in [Agents -> AgentRecord] /\ agent'[a] = own
      /\ \A b \in Agents \ {a} : agent'[b] = agent[b]
  BY <1>2
<1>4. Grows
  BY <1>1, <1>2, <1>3 DEF Grows
<1>5. ASSUME NEW b \in Agents PROVE AgentKept(b)'
  <2>1. CASE b = a
    BY <1>1, <1>2, <1>3, <2>1, AgentKept(a) DEF AgentKept
  <2>2. CASE b # a
    BY <1>1, <1>3, <2>2, AgentKept(b) DEF AgentKept
  <2> QED BY <2>1, <2>2
<1>6. OneDraft'
  BY <1>2, <1>3 DEF AgentIdentityInv, OneDraft
<1>7. \A r \in OwnerRequests : RequestKept(r)'
  BY <1>1, <1>4, OthersKept
<1> QED BY <1>1, <1>3, <1>5, <1>6, <1>7, AgentStep

\* A version is prepared for the tournament, staked on Arc and confirmed.
LEMMA EntryKeeps ==
    ASSUME AgentIdentityInv, NEW r \in OwnerRequests,
           \/ \E a \in Agents : PrepareRegistration(r, a)
           \/ RegisterEntrant(r) \/ ConfirmRegistration(r)
    PROVE  AgentIdentityInv'
<1> USE AgentTyped
<1>1. UNCHANGED <<agent, onArc, registry, open, feedbackVars, crashes>> /\ OneDraft'
  BY DEF PrepareRegistration, RegisterEntrant, ConfirmRegistration, AgentIdentityInv, OneDraft
<1>2. ASSUME NEW a \in Agents, PrepareRegistration(r, a) PROVE AgentIdentityInv'
  <2> DEFINE v == Prepared(a)
  <2>1. /\ agent[a].state = "ACTIVE" /\ entry' = [entry EXCEPT ![a] = v] /\ Handles(r, "entering", a, v)
        /\ UNCHANGED <<entered, entrants>>
    BY <1>2 DEF PrepareRegistration
  <2>2. v \in 0..MaxVersions /\ v > 0 /\ (entry[a] > 0 => v = entry[a])
    BY <2>1, AgentKept(a) DEF Prepared, AgentRecord, AgentKept
  <2> HIDE DEF v
  <2>3. /\ entry' \in [Agents -> 0..MaxVersions] /\ entry'[a] = v
        /\ \A b \in Agents \ {a} : entry'[b] = entry[b]
    BY <2>1, <2>2
  <2>4. Grows
    BY <1>1, <2>1, <2>2, <2>3 DEF Grows
  <2>5. ASSUME NEW b \in Agents PROVE AgentKept(b)'
    <3>1. entered[b] > 0 => entry'[b] = entry[b]
      BY <2>2, <2>3, AgentKept(b) DEF AgentKept
    <3> QED BY <1>1, <2>1, <3>1, AgentKept(b) DEF AgentKept
  <2>6. /\ requests' \in [OwnerRequests -> RequestRecord]
        /\ \A q \in OwnerRequests : RequestKept(q)'
    BY <1>1, <2>1, <2>2, <2>3, <2>4, OnwardKept
  <2> QED BY <1>1, <2>1, <2>3, <2>5, <2>6, AgentStep
<1>3. CASE RegisterEntrant(r)
  <2> DEFINE a == requests[r].agent
             v == requests[r].version
  <2>1. /\ entered' = [entered EXCEPT ![a] = IF @ > 0 THEN @ ELSE v]
        /\ Handles(r, "entered", a, v) /\ UNCHANGED <<entry, entrants>>
    BY <1>3 DEF RegisterEntrant
  <2>2. a \in Agents /\ v \in 0..MaxVersions /\ v = entry[a] /\ entry[a] > 0
    BY <1>3, RequestKept(r) DEF RegisterEntrant, Awaits, RequestKept, RequestRecord
  <2> HIDE DEF a, v
  <2>3. /\ entered' \in [Agents -> 0..MaxVersions] /\ entered'[a] > 0 /\ entered'[a] = entry[a]
        /\ \A b \in Agents \ {a} : entered'[b] = entered[b]
    BY <2>1, <2>2, AgentKept(a) DEF AgentKept
  <2>4. Grows
    BY <1>1, <2>1, <2>3 DEF Grows
  <2>5. ASSUME NEW b \in Agents PROVE AgentKept(b)'
    <3>1. (entered'[b] = entry[b] /\ entered'[b] > 0) \/ entered'[b] = entered[b]
      BY <2>3
    <3> QED BY <1>1, <2>1, <3>1, AgentKept(b) DEF AgentKept
  <2>6. /\ requests' \in [OwnerRequests -> RequestRecord]
        /\ \A q \in OwnerRequests : RequestKept(q)'
    BY <1>1, <2>1, <2>2, <2>3, <2>4, OnwardKept
  <2> QED BY <1>1, <2>1, <2>3, <2>5, <2>6, AgentStep
<1>4. CASE ConfirmRegistration(r)
  <2>1. /\ entrants' = entrants \cup {requests[r].agent} /\ Ends(r) /\ UNCHANGED <<entry, entered>>
        /\ requests[r].agent \in Agents /\ entered[requests[r].agent] > 0
    BY <1>4, RequestKept(r) DEF ConfirmRegistration, Awaits, RequestKept
  <2>2. Grows
    BY <1>1, <2>1 DEF Grows
  <2>3. ASSUME NEW b \in Agents PROVE AgentKept(b)'
    BY <1>1, <2>1, AgentKept(b) DEF AgentKept
  <2>4. /\ requests' \in [OwnerRequests -> RequestRecord]
        /\ \A q \in OwnerRequests : RequestKept(q)'
    BY <1>1, <2>1, <2>2, EndedKept
  <2> QED BY <1>1, <2>1, <2>3, <2>4, AgentStep
<1> QED BY <1>2, <1>3, <1>4

\* An agent of the registry is deactivated there first.
LEMMA DeactivateKeeps ==
    ASSUME AgentIdentityInv, NEW r \in OwnerRequests,
           \/ \E a \in Agents : PrepareDeactivation(r, a)
           \/ ReadAgent(r) \/ DeactivateOnArc(r) \/ DeactivateAgent(r)
    PROVE  AgentIdentityInv'
<1> USE AgentTyped
<1>1. UNCHANGED <<registry, entry, entered, entrants, open, feedbackVars, crashes>>
  BY DEF PrepareDeactivation, ReadAgent, DeactivateOnArc, DeactivateAgent
<1>2. ASSUME NEW a \in Agents, NEW pc \in {"reading", "deactivating", "deactivated"},
             UNCHANGED <<agent, onArc>>, Handles(r, pc, a, 0), registry,
             agent[a].state \in {"ACTIVE", "INACTIVE"}, pc = "deactivated" => onArc[a] = "inactive"
      PROVE  AgentIdentityInv'
  <2>1. Grows
    BY <1>1, <1>2 DEF Grows
  <2>2. ASSUME NEW b \in Agents PROVE AgentKept(b)'
    BY <1>1, <1>2, AgentKept(b) DEF AgentKept
  <2>3. OneDraft'
    BY <1>2 DEF AgentIdentityInv, OneDraft
  <2>4. /\ requests' \in [OwnerRequests -> RequestRecord]
        /\ \A q \in OwnerRequests : RequestKept(q)'
    BY <1>1, <1>2, <2>1, OnwardKept
  <2> QED BY <1>1, <1>2, <2>2, <2>3, <2>4, AgentStep
<1>3. ASSUME NEW a \in Agents, PrepareDeactivation(r, a) PROVE AgentIdentityInv'
  BY <1>2, <1>3 DEF PrepareDeactivation
<1> DEFINE a == requests[r].agent
<1>4. ASSUME ReadAgent(r) \/ DeactivateOnArc(r) \/ DeactivateAgent(r)
      PROVE  a \in Agents /\ registry /\ agent[a].state \in {"ACTIVE", "INACTIVE"}
  BY <1>4, RequestKept(r) DEF ReadAgent, DeactivateOnArc, DeactivateAgent, Awaits, RequestKept
<1>5. CASE ReadAgent(r)
  <2>1. Handles(r, ReadBack(a), a, 0) /\ UNCHANGED <<agent, onArc>>
    BY <1>5 DEF ReadAgent
  <2>2. onArc[a] \in {"active", "inactive"}
    BY <1>4, <1>5, AgentKept(a) DEF AgentKept
  <2>3. ReadBack(a) \in {"deactivating", "deactivated"} /\ (ReadBack(a) = "deactivated" => onArc[a] = "inactive")
    BY <2>2 DEF ReadBack
  <2> HIDE DEF a
  <2> QED BY <1>2, <1>4, <1>5, <2>1, <2>3
<1>6. CASE DeactivateOnArc(r)
  <2>1. onArc' = [onArc EXCEPT ![a] = "inactive"] /\ Handles(r, "deactivated", a, 0) /\ agent' = agent
    BY <1>6 DEF DeactivateOnArc
  <2>2. a \in Agents /\ registry /\ agent[a].state \in {"ACTIVE", "INACTIVE"}
    BY <1>4, <1>6
  <2> HIDE DEF a
  <2>3. /\ onArc' \in [Agents -> {"none", "active", "inactive"}] /\ onArc'[a] = "inactive"
        /\ \A b \in Agents : onArc'[b] \in {onArc[b], "inactive"}
    BY <2>1, <2>2
  <2>4. Grows
    BY <1>1, <2>1, <2>3 DEF Grows
  <2>5. ASSUME NEW b \in Agents PROVE AgentKept(b)'
    BY <1>1, <2>1, <2>3, AgentKept(b) DEF AgentKept
  <2>6. OneDraft'
    BY <2>1 DEF AgentIdentityInv, OneDraft
  <2>7. /\ requests' \in [OwnerRequests -> RequestRecord]
        /\ \A q \in OwnerRequests : RequestKept(q)'
    <3>1. agent'[a].state \in {"ACTIVE", "INACTIVE"} /\ 0 \in 0..MaxVersions /\ registry' = registry
      BY <1>1, <2>1, <2>2
    <3> QED BY <2>1, <2>2, <2>3, <2>4, <3>1, OnwardKept
  <2> QED BY <1>1, <2>1, <2>3, <2>5, <2>6, <2>7, AgentStep
<1>7. CASE DeactivateAgent(r)
  <2> DEFINE own == [agent[a] EXCEPT !.state = "INACTIVE"]
  <2>1. /\ agent' = [agent EXCEPT ![a] = own] /\ Ends(r) /\ onArc' = onArc
    BY <1>7 DEF DeactivateAgent
  <2>2. a \in Agents /\ agent[a].state \in {"ACTIVE", "INACTIVE"} /\ onArc[a] = "inactive"
    BY <1>4, <1>7, RequestKept(r) DEF RequestKept, DeactivateAgent, Awaits
  <2>3. own \in AgentRecord /\ own.state = "INACTIVE" /\ own.versions = agent[a].versions
    <3>1. agent[a] \in AgentRecord
      BY <2>2
    <3> HIDE DEF a
    <3> QED BY <3>1, WithState
  <2> HIDE DEF own, a
  <2>4. /\ agent' \in [Agents -> AgentRecord] /\ agent'[a] = own
        /\ \A b \in Agents \ {a} : agent'[b] = agent[b]
    BY <2>1, <2>2, <2>3
  <2>5. Grows
    BY <1>1, <2>1, <2>3, <2>4 DEF Grows
  <2>6. ASSUME NEW b \in Agents PROVE AgentKept(b)'
    <3>1. CASE b = a
      BY <1>1, <2>1, <2>2, <2>3, <2>4, <3>1, AgentKept(a) DEF AgentKept
    <3>2. CASE b # a
      BY <1>1, <2>1, <2>4, <3>2, AgentKept(b) DEF AgentKept
    <3> QED BY <3>1, <3>2
  <2>7. OneDraft'
    BY <2>3, <2>4 DEF AgentIdentityInv, OneDraft
  <2>8. /\ requests' \in [OwnerRequests -> RequestRecord]
        /\ \A q \in OwnerRequests : RequestKept(q)'
    BY <1>1, <2>1, <2>5, EndedKept
  <2> QED BY <1>1, <2>1, <2>4, <2>6, <2>7, <2>8, AgentStep
<1> QED BY <1>3, <1>5, <1>6, <1>7
\* The tournament closes, or a request's call fails.
LEMMA CloseKeeps ==
    ASSUME AgentIdentityInv,
           \/ \E side \in open : Close(side)
           \/ \E r \in OwnerRequests : RequestFails(r)
    PROVE  AgentIdentityInv'
<1> USE AgentTyped
<1>1. UNCHANGED <<agent, onArc, registry, entry, entered, entrants, feedbackVars, crashes>>
  BY DEF Close, RequestFails
<1>2. open' \subseteq {"api", "arc"}
  BY DEF Close, RequestFails
<1>3. Grows
  BY <1>1 DEF Grows
<1>4. ASSUME NEW b \in Agents PROVE AgentKept(b)'
  BY <1>1, AgentKept(b) DEF AgentKept
<1>5. OneDraft'
  BY <1>1 DEF AgentIdentityInv, OneDraft
<1>6. ASSUME NEW side \in open, Close(side) PROVE AgentIdentityInv'
  <2>1. requests' = requests
    BY <1>6 DEF Close
  <2>2. requests' \in [OwnerRequests -> RequestRecord] /\ \A r \in OwnerRequests : RequestKept(r)'
    BY <1>1, <1>3, <2>1, OthersKept
  <2> QED BY <1>1, <1>2, <1>4, <1>5, <2>2, AgentStep
<1>7. ASSUME NEW r \in OwnerRequests, RequestFails(r) PROVE AgentIdentityInv'
  <2>1. Ends(r)
    BY <1>7 DEF RequestFails
  <2>2. requests' \in [OwnerRequests -> RequestRecord] /\ \A q \in OwnerRequests : RequestKept(q)'
    BY <1>1, <1>3, <2>1, EndedKept
  <2> QED BY <1>1, <1>2, <1>4, <1>5, <2>2, AgentStep
<1> QED BY <1>6, <1>7

FeedbackRecord == [state : {"ABSENT", "PENDING", "FAILED", "COMPLETE"}, key : Nat]

\* A step of the feedback of c: its record becomes own, its flight at, under key.
LEMMA FeedbackKept ==
    ASSUME AgentIdentityInv, NEW c \in Campaigns, UNCHANGED <<agentVars, crashes>>,
           NEW own \in FeedbackRecord, feedback' = [feedback EXCEPT ![c] = own],
           NEW at \in {"idle", "giving", "given"}, publishing' = [publishing EXCEPT ![c] = at],
           feedbackKeys' \in [Campaigns -> Nat],
           own.state = "ABSENT" <=> own.key = 0,
           at # "idle" => own.state # "ABSENT",
           given' = given \/ (given' = given \cup {<<c, own.key>>} /\ own.state # "ABSENT"),
           at = "given" \/ own.state = "COMPLETE" => <<c, own.key>> \in given',
           feedback[c].state # "ABSENT" => own.key = feedback[c].key /\ own.state # "ABSENT"
    PROVE  AgentIdentityInv'
<1> USE AgentTyped
<1>1. UNCHANGED <<agent, onArc, registry, requests, entry, entered, entrants, open, crashes>>
  BY DEF agentVars
<1>2. /\ feedback' \in [Campaigns -> FeedbackRecord] /\ feedback'[c] = own
      /\ \A d \in Campaigns \ {c} : feedback'[d] = feedback[d]
  BY DEF FeedbackRecord
<1>3. /\ publishing' \in [Campaigns -> {"idle", "giving", "given"}] /\ publishing'[c] = at
      /\ \A d \in Campaigns \ {c} : publishing'[d] = publishing[d]
  OBVIOUS
<1>4. own.key \in Nat
  BY DEF FeedbackRecord
<1>5. /\ given' \subseteq Campaigns \X Nat /\ given \subseteq given'
      /\ \A g \in given' : g \in given \/ (g = <<c, own.key>> /\ own.state # "ABSENT")
  BY <1>4
<1>6. AgentIdentityTypeOK'
  BY <1>1, <1>2, <1>3, <1>5 DEF AgentIdentityTypeOK, AgentRecord, RequestRecord, FeedbackRecord
<1>7. ASSUME NEW d \in Campaigns PROVE CampaignKept(d)'
  <2>1. CASE d = c
    <3>1. \A g \in given' : g[1] = c => g[2] = own.key /\ own.state # "ABSENT"
      BY <1>5, CampaignKept(c) DEF CampaignKept
    <3> QED BY <1>2, <1>3, <2>1, <3>1 DEF CampaignKept
  <2>2. CASE d # c
    <3>1. feedback'[d] = feedback[d] /\ publishing'[d] = publishing[d]
      BY <1>2, <1>3, <2>2
    <3>2. \A g \in given' : g[1] = d => g \in given
      BY <1>5, <2>2
    <3> QED BY <1>5, <3>1, <3>2, CampaignKept(d) DEF CampaignKept
  <2> QED BY <2>1, <2>2
<1>8. \A a \in Agents : AgentKept(a)'
  BY <1>1 DEF AgentKept
<1>9. \A r \in OwnerRequests : RequestKept(r)'
  BY <1>1 DEF RequestKept
<1>10. OneDraft'
  BY <1>1 DEF AgentIdentityInv, OneDraft
<1> QED BY <1>6, <1>7, <1>8, <1>9, <1>10 DEF AgentIdentityInv

\* A campaign draws one key, sends under it, and is COMPLETE after that.
LEMMA FeedbackKeeps ==
    ASSUME AgentIdentityInv, NEW c \in Campaigns, FeedbackStep(c)
    PROVE  AgentIdentityInv'
<1> USE AgentTyped DEF FeedbackRecord
<1>1. UNCHANGED <<agentVars, crashes>>
  BY DEF FeedbackStep, RecordCampaign, GiveFeedback, ConfirmFeedback, FeedbackFails
<1>2. feedback[c] \in FeedbackRecord /\ feedbackKeys[c] \in Nat
  OBVIOUS
<1>3. feedback = [feedback EXCEPT ![c] = feedback[c]]
  OBVIOUS
<1>4. CASE RecordCampaign(c)
  <2>1. publishing' = [publishing EXCEPT ![c] = "giving"] /\ given' = given /\ feedback[c].state # "COMPLETE"
    BY <1>4 DEF RecordCampaign
  <2>2. CASE feedback[c] = NoFeedback
    <3> DEFINE own == [state |-> "PENDING", key |-> feedbackKeys[c] + 1]
    <3>1. /\ feedbackKeys' = [feedbackKeys EXCEPT ![c] = @ + 1]
          /\ feedback' = [feedback EXCEPT ![c] = own]
      BY <1>4, <2>2 DEF RecordCampaign
    <3>2. own \in FeedbackRecord /\ own.state = "PENDING" /\ own.key # 0 /\ feedback[c].state = "ABSENT"
      BY <1>2, <2>2 DEF NoFeedback
    <3>3. feedbackKeys' \in [Campaigns -> Nat]
      BY <3>1
    <3> HIDE DEF own, FeedbackRecord
    <3> QED BY <1>1, <2>1, <3>1, <3>2, <3>3, FeedbackKept
  <2>3. CASE feedback[c] # NoFeedback
    <3>1. UNCHANGED <<feedback, feedbackKeys>>
      BY <1>4, <2>3 DEF RecordCampaign
    <3>2. feedback[c].state # "ABSENT"
      <4>1. feedback[c] = [state |-> feedback[c].state, key |-> feedback[c].key]
        BY <1>2
      <4>2. feedback[c].state = "ABSENT" => feedback[c].key = 0
        BY CampaignKept(c) DEF CampaignKept
      <4> QED BY <2>3, <4>1, <4>2 DEF NoFeedback
    <3> HIDE DEF FeedbackRecord
    <3>3. feedback' = [feedback EXCEPT ![c] = feedback[c]] /\ feedbackKeys' \in [Campaigns -> Nat]
      BY <1>3, <3>1
    <3> QED BY <1>1, <1>2, <2>1, <3>2, <3>3, CampaignKept(c), FeedbackKept DEF CampaignKept
  <2> QED BY <2>2, <2>3
<1>5. CASE GiveFeedback(c)
  <2>1. /\ publishing[c] = "giving" /\ given' = given \cup {<<c, feedback[c].key>>}
        /\ publishing' = [publishing EXCEPT ![c] = "given"] /\ UNCHANGED <<feedback, feedbackKeys>>
    BY <1>5 DEF GiveFeedback
  <2>2. feedback[c].state # "ABSENT" /\ feedback[c].key # 0
    BY <2>1, CampaignKept(c) DEF CampaignKept
  <2> HIDE DEF FeedbackRecord
  <2>3. feedback' = [feedback EXCEPT ![c] = feedback[c]] /\ feedbackKeys' \in [Campaigns -> Nat]
    BY <1>3, <2>1
  <2> QED BY <1>1, <1>2, <2>1, <2>2, <2>3, FeedbackKept
<1>6. ASSUME NEW state \in {"FAILED", "COMPLETE"}, publishing[c] # "idle",
             state = "COMPLETE" => publishing[c] = "given",
             feedback' = [feedback EXCEPT ![c] = [feedback[c] EXCEPT !.state = state]],
             publishing' = [publishing EXCEPT ![c] = "idle"], UNCHANGED <<given, feedbackKeys>>
      PROVE  AgentIdentityInv'
  <2> DEFINE own == [feedback[c] EXCEPT !.state = state]
  <2>1. own \in FeedbackRecord /\ own.state = state /\ own.key = feedback[c].key
    BY <1>2
  <2>2. feedback[c].state # "ABSENT" /\ feedback[c].key # 0
    BY <1>6, CampaignKept(c) DEF CampaignKept
  <2>3. state = "COMPLETE" => <<c, feedback[c].key>> \in given
    BY <1>6, CampaignKept(c) DEF CampaignKept
  <2>4. feedback' = [feedback EXCEPT ![c] = own] /\ feedbackKeys' \in [Campaigns -> Nat]
    BY <1>6
  <2> HIDE DEF own, FeedbackRecord
  <2> QED BY <1>1, <1>6, <2>1, <2>2, <2>3, <2>4, FeedbackKept
<1>7. CASE ConfirmFeedback(c)
  BY <1>6, <1>7 DEF ConfirmFeedback
<1>8. CASE FeedbackFails(c)
  BY <1>6, <1>8 DEF FeedbackFails, Failed
<1> QED BY <1>4, <1>5, <1>7, <1>8 DEF FeedbackStep

\* The end of the process forgets what was in flight, which asks for less.
LEMMA ProcessCrashesKeeps ==
    ASSUME AgentIdentityInv, ProcessCrashes
    PROVE  AgentIdentityInv'
<1> USE AgentTyped
<1>1. /\ UNCHANGED <<agent, onArc, registry, entry, entered, entrants, open, feedback, given, feedbackKeys>>
      /\ crashes' \in 0..MaxCrashes
  BY DEF ProcessCrashes
<1>2. requests' \in [OwnerRequests -> RequestRecord] /\ \A r \in OwnerRequests : requests'[r].pc = "idle"
  BY DEF ProcessCrashes
<1>3. /\ publishing' \in [Campaigns -> {"idle", "giving", "given"}]
      /\ \A c \in Campaigns : publishing'[c] = "idle"
  BY DEF ProcessCrashes
<1>4. AgentIdentityTypeOK'
  BY <1>1, <1>2, <1>3 DEF AgentIdentityTypeOK, AgentRecord, RequestRecord
<1>5. \A a \in Agents : AgentKept(a)'
  BY <1>1 DEF AgentKept
<1>6. \A r \in OwnerRequests : RequestKept(r)'
  BY <1>2 DEF RequestKept
<1>7. ASSUME NEW c \in Campaigns PROVE CampaignKept(c)'
  BY <1>1, <1>3, CampaignKept(c) DEF CampaignKept
<1>8. OneDraft'
  BY <1>1 DEF AgentIdentityInv, OneDraft
<1> QED BY <1>4, <1>5, <1>6, <1>7, <1>8 DEF AgentIdentityInv

\* Nothing is registered at first, here or on Arc.
LEMMA InitAgentIdentity == AgentIdentityInit => AgentIdentityInv
<1> SUFFICES ASSUME AgentIdentityInit PROVE AgentIdentityInv
  OBVIOUS
<1> USE AgentIdentityAssumption DEF AgentIdentityInit
<1>1. /\ NoAgentRecord \in AgentRecord /\ NoAgentRecord.state = "ABSENT"
      /\ NoRequest \in RequestRecord /\ NoRequest.pc = "idle"
      /\ NoFeedback \in FeedbackRecord /\ NoFeedback.state = "ABSENT" /\ NoFeedback.key = 0
  BY DEF NoAgentRecord, NoRequest, NoFeedback, AgentRecord, RequestRecord, FeedbackRecord
<1>2. AgentIdentityTypeOK
  BY <1>1 DEF AgentIdentityTypeOK, AgentRecord, RequestRecord, FeedbackRecord
<1>3. \A a \in Agents : AgentKept(a)
  BY <1>1 DEF AgentKept
<1>4. \A r \in OwnerRequests : RequestKept(r)
  BY <1>1 DEF RequestKept
<1>5. OneDraft
  BY <1>1 DEF OneDraft
<1>6. \A c \in Campaigns : CampaignKept(c)
  BY <1>1 DEF CampaignKept
<1> QED BY <1>2, <1>3, <1>4, <1>5, <1>6 DEF AgentIdentityInv

LEMMA NextAgentIdentity == AgentIdentityInv /\ [AgentIdentityNext]_identityVars => AgentIdentityInv'
<1> SUFFICES ASSUME AgentIdentityInv, [AgentIdentityNext]_identityVars PROVE AgentIdentityInv'
  OBVIOUS
<1>1. CASE UNCHANGED identityVars
  <2>1. UNCHANGED <<agent, onArc, registry, requests, entry, entered, entrants, open,
                    feedback, publishing, given, feedbackKeys, crashes>>
    BY <1>1 DEF identityVars, agentVars, feedbackVars
  <2> QED BY <2>1 DEF AgentIdentityInv, AgentIdentityTypeOK, AgentKept, RequestKept, CampaignKept, OneDraft
<1>2. ASSUME NEW r \in OwnerRequests, RequestStep(r) PROVE AgentIdentityInv'
  BY <1>2, PrepareAgentKeeps, CreatedKeeps, EntryKeeps, DeactivateKeeps, CloseKeeps DEF RequestStep
<1>3. CASE OwnerStep
  BY <1>2, <1>3, RecordKeeps, CloseKeeps DEF OwnerStep
<1>4. ASSUME NEW c \in Campaigns, FeedbackStep(c) PROVE AgentIdentityInv'
  BY <1>4, FeedbackKeeps
<1>5. CASE ProcessCrashes
  BY <1>5, ProcessCrashesKeeps
<1> QED BY <1>1, <1>3, <1>4, <1>5 DEF AgentIdentityNext

\* What the invariant says of one state: the agents, entries and feedback of Arc and of
\* the API are the same.
LEMMA InvIdentitySound == AgentIdentityInv => IdentitySound
<1> SUFFICES ASSUME AgentIdentityInv PROVE IdentitySound
  OBVIOUS
<1>1. IdentityKept
  BY AgentTyped DEF IdentityKept, AgentKept, AgentIdentityInv, OneDraft
<1>2. EntryAsPrepared
  BY AgentTyped DEF EntryAsPrepared, AgentKept
<1>3. ASSUME NEW c \in Campaigns
      PROVE  /\ Cardinality({g \in given : g[1] = c}) <= 1
             /\ feedback[c].state = "COMPLETE" => <<c, feedback[c].key>> \in given
  <2> DEFINE sent == {g \in given : g[1] = c}
  <2>1. \A g \in sent : g = <<c, feedback[c].key>>
    BY AgentTyped, CampaignKept(c) DEF CampaignKept
  <2>2. PICK only : \A g \in sent : g = only
    BY <2>1
  <2> HIDE DEF sent
  <2>3. sent = {} \/ sent = {only}
    BY <2>2
  <2>4. Cardinality({}) = 0 /\ Cardinality({only}) = 1
    BY FS_EmptySet, FS_Singleton
  <2>5. Cardinality(sent) = 0 \/ Cardinality(sent) = 1
    BY <2>3, <2>4, Zenon
  <2>6. Cardinality(sent) <= 1
    BY <2>5
  <2> QED BY <2>6, AgentTyped, CampaignKept(c) DEF CampaignKept, sent
<1>4. FeedbackOnce
  BY <1>3 DEF FeedbackOnce
<1>5. AgentIdentityTypeOK
  BY DEF AgentIdentityInv
<1> QED BY <1>1, <1>2, <1>4, <1>5 DEF IdentitySound

LEMMA AgentIdentityAlways == AgentIdentitySpec => []AgentIdentityInv
<1> QED BY InitAgentIdentity, NextAgentIdentity, PTL DEF AgentIdentitySpec

\* Arc and the API hold the same of every agent, entry and campaign, for any number of
\* agents and of requests at once, whatever fails and whenever the process ends.
THEOREM IdentityAlwaysSound == AgentIdentitySpec => []IdentitySound
BY AgentIdentityAlways, InvIdentitySound, PTL

\* Every agent, request and feedback stays one the code makes.
THEOREM AgentIdentityAlwaysTyped == AgentIdentitySpec => []AgentIdentityTypeOK
<1>1. AgentIdentityInv => AgentIdentityTypeOK
  BY DEF AgentIdentityInv
<1> QED BY <1>1, AgentIdentityAlways, PTL

-----------------------------------------------------------------------------
(* The numbers of rooms.  For any rooms and any requests a room keeps the    *)
(* number it was shown with, and no other room is shown with it.             *)

\* Before anything was read, rows may lack numbers or share them.
Untouched == shown = {} /\ creation = [h \in Creators |-> NoCreation]

\* From the first reading on every stored room has a number of its own, which the
\* counter has passed.
Clean ==
    /\ \A r \in listed : number[r] \in 1..sequence
    /\ \A r, s \in listed : number[r] = number[s] => r = s

\* A request's copy of a stored row has the number of the row.
CopiesTrue ==
    \A h \in Creators :
        /\ creation[h].pc = "funded" =>
              /\ creation[h].room \in Rooms
              /\ creation[h].prior =>
                    creation[h].room \in listed /\ creation[h].copy = number[creation[h].room]
        /\ creation[h].pc = "writing" =>
              creation[h].room \in listed /\ creation[h].copy = number[creation[h].room]

\* What was shown is what is stored.
ShownTrue == \A p \in shown : p[1] \in listed /\ p[2] = number[p[1]]

NumberTypeOK ==
    /\ number \in [Rooms -> Nat] /\ listed \subseteq Rooms /\ sequence \in Nat
    /\ creation \in [Creators -> [pc : {"idle", "funded", "writing"}, room : Rooms \cup {0},
                                  prior : BOOLEAN, copy : Nat]]
    /\ \E n \in Nat : \A r \in listed : number[r] <= n
    /\ shown \subseteq Rooms \X (Nat \ {0})

NumberInv == NumberTypeOK /\ (Untouched \/ (Clean /\ CopiesTrue /\ ShownTrue))

LEMMA NumbersKeptHolds == NumberInv => NumbersKept
<1> SUFFICES ASSUME NumberInv PROVE NumbersKept
  OBVIOUS
<1>1. RoomNumbersTypeOK
  BY DEF NumberInv, NumberTypeOK, RoomNumbersTypeOK
<1>2. \A p, q \in shown : (p[1] = q[1]) <=> (p[2] = q[2])
  BY DEF NumberInv, Untouched, Clean, ShownTrue
<1> QED
  BY <1>1, <1>2 DEF NumbersKept

-----------------------------------------------------------------------------
(* Renumbering.                                                             *)

\* A set of natural numbers that has a member has a least one.
LEMMA LeastNumber ==
    ASSUME NEW U, U \subseteq Nat, U # {}
    PROVE  \E m \in U : \A n \in U : m <= n
<1>1. PICK m \in U : \A n \in U : <<n, m>> \notin OpToRel(<, Nat)
  BY NatLessThanWellFounded, WFMin, Zenon
<1>2. \A n \in U : n \in Nat /\ m \in Nat /\ ~(n < m)
  BY <1>1, Zenon DEF OpToRel
<1> QED
  BY <1>2

\* The highest number in use exists: the least of the numbers that none exceeds.
LEMMA HighestNumber ==
    ASSUME NumberTypeOK
    PROVE  Highest \in Nat /\ \A r \in listed : number[r] <= Highest
<1> DEFINE Above == {n \in Nat : \A r \in listed : number[r] <= n}
           Used == {0} \cup {number[r] : r \in listed}
<1>1. Above # {} /\ Above \subseteq Nat
  BY DEF NumberTypeOK
<1>2. PICK m \in Above : \A n \in Above : m <= n
  BY <1>1, LeastNumber
<1>3. m \in Used
  <2> SUFFICES ASSUME m \notin Used PROVE FALSE
    OBVIOUS
  <2>1. \A r \in listed : number[r] \in Nat /\ number[r] <= m /\ number[r] # m
    BY DEF NumberTypeOK
  <2>2. m - 1 \in Above
    BY <2>1
  <2> QED
    BY <2>2, <1>2
<1>4. Highest \in Used /\ \A r \in listed : number[r] <= Highest
  BY <1>2, <1>3 DEF Highest
<1> QED
  BY <1>4 DEF NumberTypeOK

CreationRank(r) == Cardinality({u \in Unnumbered : u <= r})

\* The rooms that are numbered anew get numbers one after the other.
LEMMA RankInOrder ==
    ASSUME NumberTypeOK, NEW r \in Unnumbered, NEW s \in Unnumbered
    PROVE  /\ CreationRank(r) \in 1..Cardinality(Unnumbered)
           /\ r < s => CreationRank(r) < CreationRank(s)
<1>1. Unnumbered \subseteq Rooms /\ IsFiniteSet(Unnumbered) /\ r \in Nat /\ s \in Nat
  BY RoomNumbersAssumption, FS_Subset, Unnumbered \subseteq Rooms DEF Unnumbered, NumberTypeOK
<1> DEFINE Upto(x) == {u \in Unnumbered : u <= x}
<1>2. \A x : Upto(x) \subseteq Unnumbered /\ IsFiniteSet(Upto(x))
              /\ Cardinality(Upto(x)) \in Nat /\ Cardinality(Upto(x)) <= Cardinality(Unnumbered)
  <2> TAKE x
  <2>1. Upto(x) \subseteq Unnumbered
    OBVIOUS
  <2> QED
    BY <2>1, <1>1, FS_Subset, FS_CardinalityType
<1>3. r \in Upto(r) /\ s \in Upto(s)
  BY <1>1
<1>4. Cardinality(Upto(r)) # 0
  BY <1>2, <1>3, FS_EmptySet
<1>5. Cardinality(Unnumbered) \in Nat
  BY <1>1, FS_CardinalityType
<1>6. ASSUME r < s PROVE Cardinality(Upto(r)) < Cardinality(Upto(s))
  <2>0. \A u \in Unnumbered : u \in Nat
    BY <1>1, RoomNumbersAssumption
  <2>a. ASSUME NEW u \in Upto(r) PROVE u \in Upto(s)
    BY <2>0, <1>1, <1>6
  <2>b. s \notin Upto(r)
    BY <1>1, <1>6
  <2>1. Upto(r) \subseteq Upto(s) /\ s \notin Upto(r)
    BY <2>a, <2>b
  <2>2. /\ Cardinality(Upto(r)) <= Cardinality(Upto(s))
        /\ Cardinality(Upto(s)) = Cardinality(Upto(r)) => Upto(s) = Upto(r)
    BY <2>1, <1>2, FS_Subset
  <2> QED
    BY <2>1, <2>2, <1>2, <1>3
<1> QED
  BY <1>2, <1>4, <1>5, <1>6 DEF CreationRank

\* After a reading every stored room has a number of its own, and one that had keeps it.
LEMMA Reading ==
    ASSUME NumberTypeOK, EnsureRoomNumbers, listed' = listed
    PROVE  /\ number' \in [Rooms -> Nat] /\ sequence' \in Nat
           /\ \A r \in listed : number'[r] = Renumbered[r]
           /\ Clean'
           /\ Clean => \A r \in listed : number'[r] = number[r]
<1> USE RoomNumbersAssumption DEF NumberTypeOK
<1>1. /\ Base \in Nat /\ sequence <= Base /\ \A r \in listed : number[r] <= Base
  BY HighestNumber DEF Base
<1>2. Unnumbered \subseteq listed /\ IsFiniteSet(Unnumbered) /\ Cardinality(Unnumbered) \in Nat
  <2>1. Unnumbered \subseteq Rooms
    BY DEF Unnumbered
  <2> QED
    BY <2>1, FS_Subset, FS_CardinalityType DEF Unnumbered
<1>3. \A r \in Rooms : number'[r] = IF r \in Unnumbered THEN Base + CreationRank(r) ELSE number[r]
  BY DEF EnsureRoomNumbers, Renumbered, CreationRank
<1>4. \A r \in Unnumbered : CreationRank(r) \in 1..Cardinality(Unnumbered)
  BY RankInOrder
<1>5. number' \in [Rooms -> Nat]
  <2>1. number' = [r \in Rooms |-> number'[r]]
    BY DEF EnsureRoomNumbers, Renumbered
  <2>2. \A r \in Rooms : number'[r] \in Nat
    BY <1>1, <1>2, <1>3, <1>4
  <2> QED
    BY <2>1, <2>2
<1>6. sequence' = Base + Cardinality(Unnumbered)
  BY DEF EnsureRoomNumbers
<1>7. \A r \in listed : number'[r] \in 1..sequence'
  <2> TAKE r \in listed
  <2>1. CASE r \in Unnumbered
    BY <2>1, <1>1, <1>2, <1>3, <1>4, <1>6
  <2>2. CASE r \notin Unnumbered
    <3>1. number[r] > 0 /\ number[r] \in Nat /\ number[r] <= Base
      BY <2>2, <1>1 DEF Unnumbered, Keeps
    <3> QED
      BY <2>2, <3>1, <1>1, <1>2, <1>3, <1>6
  <2> QED
    BY <2>1, <2>2
<1>8. ASSUME NEW r \in listed, NEW s \in listed, r < s PROVE number'[r] # number'[s]
  <2>1. CASE r \in Unnumbered /\ s \in Unnumbered
    <3>1. CreationRank(r) < CreationRank(s) /\ CreationRank(r) \in Nat /\ CreationRank(s) \in Nat
      BY <2>1, <1>2, <1>4, <1>8, RankInOrder
    <3> QED
      BY <2>1, <3>1, <1>1, <1>3
  <2>2. CASE r \in Unnumbered /\ s \notin Unnumbered
    BY <2>2, <1>1, <1>2, <1>3, <1>4
  <2>3. CASE r \notin Unnumbered /\ s \in Unnumbered
    BY <2>3, <1>1, <1>2, <1>3, <1>4
  <2>4. CASE r \notin Unnumbered /\ s \notin Unnumbered
    BY <2>4, <1>3, <1>8 DEF Unnumbered, Keeps
  <2> QED
    BY <2>1, <2>2, <2>3, <2>4
<1>9. \A r, s \in listed : number'[r] = number'[s] => r = s
  <2> SUFFICES ASSUME NEW r \in listed, NEW s \in listed, r # s PROVE number'[r] # number'[s]
    OBVIOUS
  <2>1. r \in Nat /\ s \in Nat
    OBVIOUS
  <2>2. r < s \/ s < r
    BY <2>1
  <2> QED
    BY <2>2, <1>8
<1>10. Clean'
  BY <1>7, <1>9 DEF Clean
<1>11. Clean => Unnumbered = {}
  <2> SUFFICES ASSUME Clean, NEW r \in listed PROVE Keeps(r)
    BY DEF Unnumbered
  <2>1. number[r] > 0
    BY DEF Clean
  <2>2. ASSUME NEW s \in listed, s < r PROVE number[s] # number[r]
    <3>1. s \in Nat /\ r \in Nat
      OBVIOUS
    <3>2. s # r
      BY <3>1, <2>2
    <3> QED
      BY <3>2 DEF Clean
  <2> QED
    BY <2>1, <2>2 DEF Keeps
<1>12. Clean => \A r \in listed : number'[r] = number[r]
  BY <1>3, <1>11
<1>13. \A r \in listed : number'[r] = Renumbered[r]
  BY DEF EnsureRoomNumbers
<1>14. sequence' \in Nat
  BY <1>1, <1>2, <1>6
<1> QED
  BY <1>5, <1>10, <1>12, <1>13, <1>14

-----------------------------------------------------------------------------
(* The requests.                                                            *)

LEMMA NumbersInit == RoomNumbersInit => NumberInv
<1> SUFFICES ASSUME RoomNumbersInit PROVE NumberInv
  OBVIOUS
<1>1. NumberTypeOK
  <2>1. PICK n \in OldNumbers : \A m \in OldNumbers : m <= n
    BY RoomNumbersAssumption
  <2>2. n \in Nat /\ \A m \in OldNumbers \cup {0} : m \in Nat /\ m <= n
    BY <2>1, RoomNumbersAssumption
  <2>3. /\ number \in [Rooms -> OldNumbers \cup {0}] /\ listed \subseteq Rooms
        /\ sequence \in OldNumbers \cup {0}
    BY DEF RoomNumbersInit
  <2>4. number \in [Rooms -> Nat] /\ sequence \in Nat
    BY <2>2, <2>3
  <2>5. \A r \in listed : number[r] <= n
    BY <2>2, <2>3
  <2> QED
    BY <2>2, <2>3, <2>4, <2>5 DEF RoomNumbersInit, NoCreation, NumberTypeOK
<1> QED
  BY <1>1 DEF RoomNumbersInit, NumberInv, Untouched

\* What holds after a reading, whatever the requests do in it.
LEMMA ReadingKeeps ==
    ASSUME NumberInv, EnsureRoomNumbers, listed' = listed
    PROVE  /\ Clean' /\ ShownTrue'
           /\ number' \in [Rooms -> Nat] /\ sequence' \in Nat
           /\ \E n \in Nat : \A r \in listed' : number'[r] <= n
           /\ \A r \in listed : number'[r] = Renumbered[r]
           /\ Untouched \/ (CopiesTrue /\ \A r \in listed : number'[r] = number[r])
           /\ shown' \subseteq Rooms \X (Nat \ {0})
<1> USE DEF NumberInv
<1>1. /\ Clean' /\ number' \in [Rooms -> Nat] /\ sequence' \in Nat
      /\ \A r \in listed : number'[r] = Renumbered[r]
      /\ Clean => \A r \in listed : number'[r] = number[r]
  BY Reading
<1>2. \E n \in Nat : \A r \in listed' : number'[r] <= n
  BY <1>1 DEF Clean
<1>3. ShownTrue'
  <2> SUFFICES ASSUME NEW p \in shown' PROVE p[1] \in listed /\ p[2] = number'[p[1]]
    BY DEF ShownTrue
  <2>1. CASE p \in shown
    BY <2>1, <1>1 DEF Untouched, ShownTrue
  <2>2. CASE p \in {<<r, Renumbered[r]>> : r \in listed}
    BY <2>2, <1>1
  <2> QED
    BY <2>1, <2>2 DEF EnsureRoomNumbers
<1>4. shown' \subseteq Rooms \X (Nat \ {0})
  <2>1. ASSUME NEW r \in listed PROVE <<r, Renumbered[r]>> \in Rooms \X (Nat \ {0})
    BY <1>1 DEF NumberTypeOK, Clean
  <2> QED
    BY <2>1 DEF NumberTypeOK, EnsureRoomNumbers
<1> QED
  BY <1>1, <1>2, <1>3, <1>4

LEMMA NumbersList == ASSUME NumberInv, ListRooms PROVE NumberInv'
<1>1. EnsureRoomNumbers /\ listed' = listed /\ creation' = creation
  BY DEF ListRooms
<1>2. CopiesTrue'
  BY <1>1, ReadingKeeps DEF Untouched, NoCreation, CopiesTrue
<1> QED
  BY <1>1, <1>2, ReadingKeeps DEF NumberInv, NumberTypeOK

LEMMA NumbersBegin ==
    ASSUME NumberInv, NEW h \in Creators, NEW r \in Rooms, BeginCreation(h, r) PROVE NumberInv'
<1>1. EnsureRoomNumbers /\ listed' = listed
      /\ creation' = [creation EXCEPT ![h] =
             [pc |-> "funded", room |-> r, prior |-> r \in listed, copy |-> Renumbered[r]]]
  BY DEF BeginCreation
<1>2. Renumbered[r] \in Nat /\ number' = Renumbered
  BY <1>1, ReadingKeeps DEF EnsureRoomNumbers
<1>3. NumberTypeOK'
  <2>1. creation' \in [Creators -> [pc : {"idle", "funded", "writing"}, room : Rooms \cup {0},
                                    prior : BOOLEAN, copy : Nat]]
    <3>1. [pc |-> "funded", room |-> r, prior |-> r \in listed, copy |-> Renumbered[r]]
          \in [pc : {"idle", "funded", "writing"}, room : Rooms \cup {0}, prior : BOOLEAN, copy : Nat]
      BY <1>2, RoomNumbersAssumption
    <3> QED
      BY <1>1, <3>1 DEF NumberInv, NumberTypeOK
  <2>2. /\ number' \in [Rooms -> Nat] /\ sequence' \in Nat
        /\ \E n \in Nat : \A q \in listed' : number'[q] <= n
        /\ shown' \subseteq Rooms \X (Nat \ {0})
    BY <1>1, ReadingKeeps
  <2> QED
    BY <1>1, <2>1, <2>2 DEF NumberInv, NumberTypeOK
<1>4. CopiesTrue'
  <2>1. /\ \A g \in Creators : g # h => creation'[g] = creation[g]
        /\ creation'[h] = [pc |-> "funded", room |-> r, prior |-> r \in listed, copy |-> Renumbered[r]]
    BY <1>1 DEF NumberInv, NumberTypeOK
  <2>2. \A g \in Creators : g # h /\ creation[g].pc # "idle" =>
          CopiesTrue /\ \A q \in listed : number'[q] = number[q]
    BY <1>1, ReadingKeeps DEF Untouched, NoCreation
  <2> SUFFICES ASSUME NEW g \in Creators
               PROVE  /\ creation'[g].pc = "funded" =>
                            /\ creation'[g].room \in Rooms
                            /\ creation'[g].prior =>
                                  creation'[g].room \in listed' /\ creation'[g].copy = number'[creation'[g].room]
                      /\ creation'[g].pc = "writing" =>
                            creation'[g].room \in listed' /\ creation'[g].copy = number'[creation'[g].room]
    BY DEF CopiesTrue
  <2>3. CASE g # h /\ creation[g].pc = "idle"
    BY <2>1, <2>3
  <2>4. CASE g # h /\ creation[g].pc # "idle"
    BY <2>1, <2>2, <2>4, <1>1 DEF CopiesTrue
  <2>5. CASE g = h
    <3>1. /\ creation'[g].pc = "funded" /\ creation'[g].room = r
          /\ creation'[g].prior = (r \in listed) /\ creation'[g].copy = Renumbered[r]
      BY <2>1, <2>5
    <3>2. creation'[g].copy = number'[r] /\ listed' = listed /\ creation'[g].pc # "writing"
      BY <3>1, <1>1, <1>2
    <3> QED
      BY <3>1, <3>2
  <2> QED
    BY <2>3, <2>4, <2>5
<1> QED
  BY <1>1, <1>3, <1>4, ReadingKeeps DEF NumberInv

\* A request that got past its first await has read the rooms.
LEMMA Begun ==
    ASSUME NumberInv, NEW h \in Creators, creation[h].pc # "idle"
    PROVE  NumberTypeOK /\ Clean /\ CopiesTrue /\ ShownTrue
BY DEF NumberInv, Untouched, NoCreation

LEMMA NumbersPersist == ASSUME NumberInv, NEW h \in Creators, PersistRoom(h) PROVE NumberInv'
<1>1. PICK room : room = creation[h].room
  OBVIOUS
<1>2. PICK assigned : assigned = IF creation[h].prior THEN creation[h].copy ELSE sequence + 1
  OBVIOUS
<1>3. NumberTypeOK /\ Clean /\ CopiesTrue /\ ShownTrue /\ creation[h].pc = "funded"
  BY Begun DEF PersistRoom
<1>4. room \in Rooms /\ (room \notin listed => assigned = sequence + 1 /\ sequence' = sequence + 1)
  BY <1>1, <1>2, <1>3 DEF CopiesTrue, PersistRoom
<1>5. /\ sequence' \in Nat /\ sequence <= sequence' /\ assigned \in Nat
      /\ listed' = listed \cup {room} /\ shown' = shown
      /\ number' = [number EXCEPT ![room] = IF room \in listed THEN @ ELSE assigned]
      /\ creation' = [creation EXCEPT ![h].pc = "writing", ![h].copy = Persisted(h, assigned)]
  BY <1>1, <1>2, <1>3 DEF PersistRoom, NumberTypeOK
<1>6. /\ \A r \in listed : number'[r] = number[r]
      /\ room \notin listed => number'[room] = sequence + 1
  BY <1>3, <1>4, <1>5 DEF NumberTypeOK
<1>7. number' \in [Rooms -> Nat] /\ listed' \subseteq Rooms
  BY <1>3, <1>4, <1>5 DEF NumberTypeOK
<1>8. Clean'
  BY <1>3, <1>4, <1>5, <1>6, <1>7 DEF Clean, NumberTypeOK
<1>9. Persisted(h, assigned) = number'[room] /\ number'[room] \in Nat
  BY <1>1, <1>3, <1>4, <1>5, <1>6, <1>7 DEF Persisted, NumberTypeOK
<1>10. /\ \A g \in Creators : g # h => creation'[g] = creation[g]
       /\ creation'[h].pc = "writing" /\ creation'[h].room = room
       /\ creation'[h].copy = number'[room]
       /\ creation' \in [Creators -> [pc : {"idle", "funded", "writing"}, room : Rooms \cup {0},
                                      prior : BOOLEAN, copy : Nat]]
  BY <1>1, <1>3, <1>5, <1>9 DEF NumberTypeOK
<1>11. CopiesTrue'
  <2>1. \A r \in listed : r \in listed' /\ number'[r] = number[r]
    BY <1>5, <1>6
  <2>2. room \in listed'
    BY <1>5
  <2> SUFFICES ASSUME NEW g \in Creators
               PROVE  /\ creation'[g].pc = "funded" =>
                            /\ creation'[g].room \in Rooms
                            /\ creation'[g].prior =>
                                 /\ creation'[g].room \in listed'
                                 /\ creation'[g].copy = number'[creation'[g].room]
                      /\ creation'[g].pc = "writing" =>
                            /\ creation'[g].room \in listed'
                            /\ creation'[g].copy = number'[creation'[g].room]
    BY DEF CopiesTrue
  <2>3. CASE g # h
    <3>1. creation'[g] = creation[g]
      BY <2>3, <1>10
    <3> QED
      BY <3>1, <2>1, <1>3 DEF CopiesTrue
  <2>4. CASE g = h
    BY <2>2, <2>4, <1>10
  <2> QED
    BY <2>3, <2>4
<1>12. ShownTrue'
  BY <1>3, <1>5, <1>6 DEF ShownTrue
<1>13. NumberTypeOK'
  <2>1. shown' \subseteq Rooms \X (Nat \ {0})
    BY <1>3, <1>5 DEF NumberTypeOK
  <2>2. \A r \in listed' : number'[r] <= sequence'
    BY <1>8 DEF Clean
  <2>3. \E n \in Nat : \A r \in listed' : number'[r] <= n
    BY <1>5, <2>2
  <2> QED
    BY <1>5, <1>7, <1>10, <2>1, <2>3 DEF NumberTypeOK
<1> QED
  BY <1>8, <1>11, <1>12, <1>13 DEF NumberInv

LEMMA NumbersWrite == ASSUME NumberInv, NEW h \in Creators, WriteRoom(h) PROVE NumberInv'
<1>1. NumberTypeOK /\ Clean /\ CopiesTrue /\ ShownTrue /\ creation[h].pc = "writing"
  BY Begun DEF WriteRoom
<1>2. creation[h].room \in listed /\ creation[h].copy = number[creation[h].room]
  BY <1>1 DEF CopiesTrue
<1>3. number' = number /\ listed' = listed /\ sequence' = sequence
  BY <1>1, <1>2 DEF WriteRoom, NumberTypeOK
<1>4. creation' = creation \/ creation' = [creation EXCEPT ![h] = NoCreation]
  BY DEF WriteRoom
<1>5. ShownTrue'
  BY <1>1, <1>2, <1>3 DEF WriteRoom, ShownTrue
<1>6. \A g \in Creators : creation'[g] = creation[g] \/ creation'[g] = NoCreation
  BY <1>1, <1>4 DEF NumberTypeOK
<1>7. Clean' /\ CopiesTrue'
  BY <1>1, <1>3, <1>6 DEF Clean, CopiesTrue, NoCreation
<1>8. NumberTypeOK'
  <2>3. shown' \subseteq Rooms \X (Nat \ {0})
    BY <1>1, <1>2 DEF WriteRoom, NumberTypeOK, Clean
  <2>1. CASE creation' = creation
    BY <2>1, <2>3, <1>1, <1>3 DEF NumberTypeOK
  <2>2. CASE creation' = [creation EXCEPT ![h] = NoCreation]
    BY <2>2, <2>3, <1>1, <1>3 DEF NumberTypeOK, NoCreation
  <2> QED
    BY <2>1, <2>2, <1>4
<1> QED
  BY <1>5, <1>7, <1>8 DEF NumberInv

LEMMA NumbersFail == ASSUME NumberInv, NEW h \in Creators, CreationFails(h) PROVE NumberInv'
<1>1. /\ creation' = [creation EXCEPT ![h] = NoCreation]
      /\ UNCHANGED <<number, listed, sequence, shown>>
  BY DEF CreationFails
<1> QED
  BY <1>1 DEF NumberInv, NumberTypeOK, Untouched, Clean, CopiesTrue, ShownTrue, NoCreation

\* A room is listed under one number for as long as there are rooms, and no two share
\* one, whatever rows an older version left and however requests overlap, repeat and
\* fail (ensureRoomNumbers and create, pair-rooms.ts).
THEOREM NumbersAlwaysKept == RoomNumbersInit /\ [][RoomNumbersNext]_roomVars => []NumbersKept
<1>1. NumberInv /\ [RoomNumbersNext]_roomVars => NumberInv'
  <2> SUFFICES ASSUME NumberInv, [RoomNumbersNext]_roomVars PROVE NumberInv'
    OBVIOUS
  <2>1. CASE UNCHANGED roomVars
    BY <2>1 DEF roomVars, NumberInv, NumberTypeOK, Untouched, Clean, CopiesTrue, ShownTrue
  <2>2. CASE ListRooms
    BY <2>2, NumbersList
  <2>3. ASSUME NEW h \in Creators, CreationStep(h) PROVE NumberInv'
    BY <2>3, NumbersBegin, NumbersPersist, NumbersWrite, NumbersFail DEF CreationStep
  <2> QED
    BY <2>1, <2>2, <2>3 DEF RoomNumbersNext
<1> QED
  BY <1>1, NumbersInit, NumbersKeptHolds, PTL

-----------------------------------------------------------------------------
(* The pairs of answers.  A worker that generates a pair on a lease that has *)
(* not lapsed is the only one, so the rows it waits for stay as it made them. *)

Fingerprint == Payloads \cup {NoPayload}
RunRow == [state : {"ABSENT", "PERSISTED", "SUCCESS"} \cup ProviderFailure, print : Fingerprint, answer : Nat]
PairClaim == {NoClaim} \cup [owner : Runners, print : Payloads, lapsed : BOOLEAN]
PairOperation == [print : Fingerprint, side : [PairSides -> SideState], answer : [PairSides -> Nat]]

PairsTyped ==
    /\ row \in [Attempts -> [PairSides -> RunRow]]
    /\ claim \in [Attempts -> PairClaim]
    /\ operation \in [Runners -> [Attempts -> PairOperation]]
    /\ called \in [Attempts -> [PairSides -> Nat]]
    /\ delivered \in [Attempts -> SUBSET [PairSides -> Nat]]
    /\ spent \in Nat /\ crowd \in Nat
    /\ overrun \subseteq Attempts /\ runnerEnds \in 0..MaxRunnerEnds

\* The rows of an attempt are written together, under one payload.
RowsTrue(a) ==
    \A s \in PairSides :
        /\ row[a][s].state = "SUCCESS" <=> row[a][s].answer \in 1..called[a][s]
        /\ row[a][s] = NoRow <=> row[a][s].print = NoPayload
        /\ \A t \in PairSides : row[a][s].print = row[a][t].print

\* What was handed out is complete and what the rows say.
DeliveredTrue(a) ==
    a \notin overrun =>
        delivered[a] \subseteq {CompletedResult(a)} /\ (delivered[a] # {} => Completed(a))

\* What a worker waits for.
OperationTrue(w, a) ==
    Generating(w, a) =>
        /\ \A s \in PairSides :
              /\ row[a][s].print = operation[w][a].print
              /\ operation[w][a].side[s] = "calling" => operation[w][a].answer[s] \in 1..called[a][s]
        /\ a \notin overrun =>
              /\ claim[a].owner = w /\ ~claim[a].lapsed
              /\ \A s \in PairSides : operation[w][a].side[s] = "calling" => row[a][s].state = "PERSISTED"

\* The pairs in flight and the calls they wait for, each of which may cost CallCost.
PairsWaiting == {x \in Runners \X Attempts : Generating(x[1], x[2])}
Calls == {c \in (Runners \X Attempts) \X PairSides :
             c[1] \in PairsWaiting /\ operation[c[1][1]][c[1][2]].side[c[2]] = "calling"}
Allowance == MaxCost + 2 * CallCost * (IF crowd > 1 THEN crowd - 1 ELSE 0)
BudgetTrue == IsFiniteSet(PairsWaiting) /\ spent + CallCost * Cardinality(Calls) <= Allowance

PairsInv ==
    /\ PairsTyped /\ BudgetTrue
    /\ \A a \in Attempts : RowsTrue(a) /\ DeliveredTrue(a)
    /\ \A w \in Runners, a \in Attempts : OperationTrue(w, a)

-----------------------------------------------------------------------------

LEMMA PairsInit == InferencePairsInit => PairsInv
<1> SUFFICES ASSUME InferencePairsInit PROVE PairsInv
  OBVIOUS
<1>1. NoRow \in RunRow /\ NoOperation \in PairOperation
  BY DEF NoRow, RunRow, Fingerprint, NoOperation, PairOperation, SideState
<1>2. PairsTyped
  <2>1. row \in [Attempts -> [PairSides -> RunRow]]
    BY <1>1 DEF InferencePairsInit
  <2>2. operation \in [Runners -> [Attempts -> PairOperation]]
    BY <1>1 DEF InferencePairsInit
  <2> QED
    BY <2>1, <2>2, InferencePairsAssumption DEF InferencePairsInit, PairsTyped, PairClaim
<1>3. ASSUME NEW a \in Attempts PROVE RowsTrue(a) /\ DeliveredTrue(a)
  <2>1. \A s \in PairSides : row[a][s] = NoRow /\ called[a][s] = 0
    BY DEF InferencePairsInit
  <2>2. RowsTrue(a)
    BY <2>1 DEF RowsTrue, NoRow
  <2>3. DeliveredTrue(a)
    BY DEF InferencePairsInit, DeliveredTrue
  <2> QED
    BY <2>2, <2>3
<1>4. ASSUME NEW w \in Runners, NEW a \in Attempts PROVE ~Generating(w, a)
  BY DEF InferencePairsInit, Generating, NoOperation
<1>5. BudgetTrue
  <2>1. PairsWaiting = {}
    BY <1>4 DEF PairsWaiting
  <2>2. Calls = {}
    BY <2>1 DEF Calls
  <2>3. spent = 0 /\ crowd = 0
    BY DEF InferencePairsInit
  <2> QED
    BY <2>1, <2>2, <2>3, FS_EmptySet, InferencePairsAssumption DEF BudgetTrue, Allowance
<1> QED
  BY <1>2, <1>3, <1>4, <1>5 DEF PairsInv, OperationTrue

-----------------------------------------------------------------------------
(* The budget. *)

LEMMA CallsFinite ==
    ASSUME PairsTyped, BudgetTrue
    PROVE  /\ IsFiniteSet(PairsWaiting) /\ IsFiniteSet(Calls)
           /\ Cardinality(Calls) \in Nat /\ Cardinality(PairsWaiting) \in Nat
<1>1. IsFiniteSet(PairSides)
  <2>1. PairSides = {"A"} \cup {"B"}
    BY DEF PairSides
  <2> QED
    BY <2>1, FS_Singleton, FS_AddElement
<1>2. IsFiniteSet(PairsWaiting \X PairSides)
  BY <1>1, FS_Product DEF BudgetTrue
<1>3. Calls \subseteq PairsWaiting \X PairSides
  BY DEF Calls
<1>4. IsFiniteSet(Calls) /\ IsFiniteSet(PairsWaiting)
  BY <1>2, <1>3, FS_Subset DEF BudgetTrue
<1> QED
  BY <1>4, FS_CardinalityType

LEMMA CostsGrow ==
    ASSUME NEW c \in Nat, NEW m \in Nat, NEW n \in Nat, m <= n
    PROVE  c * m <= c * n /\ c * m \in Nat /\ c * n \in Nat
OBVIOUS

\* A step that makes no call and spends nothing keeps the budget.
LEMMA BudgetKept ==
    ASSUME PairsTyped, BudgetTrue, PairsWaiting' \subseteq PairsWaiting, Calls' \subseteq Calls,
           spent' = spent, crowd' = crowd
    PROVE  BudgetTrue'
<1>1. /\ IsFiniteSet(PairsWaiting') /\ IsFiniteSet(Calls')
      /\ Cardinality(Calls') <= Cardinality(Calls) /\ Cardinality(Calls') \in Nat
      /\ Cardinality(Calls) \in Nat
  BY CallsFinite, FS_Subset, FS_CardinalityType
<1>2. /\ CallCost * Cardinality(Calls') <= CallCost * Cardinality(Calls)
      /\ CallCost * Cardinality(Calls') \in Nat /\ CallCost * Cardinality(Calls) \in Nat
  BY <1>1, CostsGrow, InferencePairsAssumption
<1>3. Allowance' = Allowance /\ spent \in Nat /\ Allowance \in Nat
  <2>1. crowd \in Nat /\ MaxCost \in Nat /\ CallCost \in Nat /\ spent \in Nat
    BY InferencePairsAssumption DEF PairsTyped
  <2>2. (IF crowd > 1 THEN crowd - 1 ELSE 0) \in Nat
    BY <2>1
  <2>3. 2 * CallCost * (IF crowd > 1 THEN crowd - 1 ELSE 0) \in Nat
    BY <2>1, <2>2
  <2> QED
    BY <2>1, <2>3 DEF Allowance
<1> QED
  BY <1>1, <1>2, <1>3 DEF BudgetTrue

\* A call that ends costs at most what it was counted with.
LEMMA CallEnds ==
    ASSUME PairsTyped, BudgetTrue, NEW c \in Calls, PairsWaiting' \subseteq PairsWaiting,
           Calls' \subseteq Calls \ {c}, NEW cost \in 0..CallCost, spent' = spent + cost, crowd' = crowd
    PROVE  BudgetTrue'
<1>1. /\ IsFiniteSet(PairsWaiting') /\ IsFiniteSet(Calls)
      /\ Cardinality(Calls) \in Nat
  BY CallsFinite, FS_Subset
<1>2. IsFiniteSet(Calls \ {c}) /\ Cardinality(Calls \ {c}) = Cardinality(Calls) - 1
  BY <1>1, FS_RemoveElement
<1>3. /\ Cardinality(Calls') <= Cardinality(Calls) - 1 /\ Cardinality(Calls') \in Nat
  BY <1>2, FS_Subset, FS_CardinalityType
<1>4. PICK m \in Nat, n \in Nat : m = Cardinality(Calls') /\ n = Cardinality(Calls) /\ m + 1 <= n
  BY <1>1, <1>3
<1>5. CallCost * (m + 1) <= CallCost * n /\ CallCost * n \in Nat
  BY <1>4, CostsGrow, InferencePairsAssumption
<1>6. CallCost * (m + 1) = CallCost * m + CallCost /\ CallCost * m \in Nat /\ CallCost \in Nat
  BY <1>4, InferencePairsAssumption
<1>7. Allowance' = Allowance /\ spent \in Nat /\ Allowance \in Int
  BY InferencePairsAssumption DEF Allowance, PairsTyped
<1>8. spent + CallCost * n <= Allowance
  BY <1>4 DEF BudgetTrue
<1>9. spent' + CallCost * m <= Allowance'
  BY <1>5, <1>6, <1>7, <1>8
<1> QED
  BY <1>1, <1>4, <1>9 DEF BudgetTrue

-----------------------------------------------------------------------------
(* The lease. *)

\* On a lease that has not lapsed nobody but its owner generates the pair.
LEMMA NobodyElse ==
    ASSUME PairsInv, NEW a \in Attempts, NEW x \in Runners, Generating(x, a),
           NEW f \in Payloads, MayClaimPair(a, f)
    PROVE  a \in overrun
<1> SUFFICES ASSUME a \notin overrun PROVE FALSE
  OBVIOUS
<1>1. claim[a].owner = x /\ ~claim[a].lapsed
  BY DEF PairsInv, OperationTrue
<1>2. claim[a] # NoClaim
  BY <1>1, InferencePairsAssumption DEF NoClaim
<1> QED
  BY <1>1, <1>2 DEF MayClaimPair

\* The pieces of the invariant about one attempt and one worker.
LEMMA PairHas ==
    ASSUME PairsInv, NEW w \in Runners, NEW a \in Attempts
    PROVE  /\ PairsTyped /\ BudgetTrue /\ RowsTrue(a) /\ DeliveredTrue(a) /\ OperationTrue(w, a)
           /\ row[a] \in [PairSides -> RunRow] /\ called[a] \in [PairSides -> Nat]
           /\ operation[w][a] \in PairOperation /\ claim[a] \in PairClaim
           /\ NoOperation \in PairOperation /\ NoOperation.print = NoPayload
           /\ CompletedResult(a) \in [PairSides -> Nat]
BY DEF PairsInv, PairsTyped, NoOperation, PairOperation, Fingerprint, SideState, CompletedResult, RunRow

LEMMA KeepsAnswerStored ==
    ASSUME PairsInv, NEW w \in Runners, NEW a \in Attempts, NEW f \in Payloads, AnswerStored(w, a, f)
    PROVE  PairsInv'
<1>1. /\ MayClaimPair(a, f) /\ (RefusedPair(a, f) \/ Completed(a))
      /\ claim' = [claim EXCEPT ![a] = NoClaim]
      /\ UNCHANGED <<row, spent, operation, called, overrun, crowd, runnerEnds>>
  BY DEF AnswerStored
<1>2. delivered' = delivered \/ (Completed(a) /\ delivered' = [delivered EXCEPT ![a] = @ \cup {CompletedResult(a)}])
  BY <1>1 DEF AnswerStored
<1>3. PairsTyped /\ BudgetTrue /\ CompletedResult(a) \in [PairSides -> Nat]
  BY PairHas
<1>4. delivered' \in [Attempts -> SUBSET [PairSides -> Nat]]
  BY <1>2, <1>3 DEF PairsTyped
<1>5. PairsTyped'
  BY <1>1, <1>3, <1>4 DEF PairsTyped, PairClaim
<1>6. BudgetTrue'
  <2>1. PairsWaiting' = PairsWaiting
    BY <1>1 DEF PairsWaiting, Generating
  <2>2. Calls' = Calls
    BY <1>1, <2>1 DEF Calls
  <2> QED
    BY <1>1, <1>3, <2>1, <2>2, BudgetKept
<1>7. ASSUME NEW b \in Attempts PROVE RowsTrue(b)' /\ DeliveredTrue(b)'
  <2>1. RowsTrue(b) /\ DeliveredTrue(b)
    BY DEF PairsInv
  <2>2. CompletedResult(b)' = CompletedResult(b) /\ (Completed(b)' <=> Completed(b))
    BY <1>1 DEF CompletedResult, Completed
  <2>3. delivered'[b] = delivered[b] \/ (Completed(b) /\ delivered'[b] = delivered[b] \cup {CompletedResult(b)})
    BY <1>2, <1>3 DEF PairsTyped
  <2> QED
    BY <1>1, <2>1, <2>2, <2>3 DEF RowsTrue, DeliveredTrue
<1>8. ASSUME NEW x \in Runners, NEW b \in Attempts PROVE OperationTrue(x, b)'
  <2> SUFFICES ASSUME Generating(x, b) PROVE OperationTrue(x, b)'
    BY <1>1 DEF OperationTrue, Generating
  <2>1. OperationTrue(x, b)
    BY DEF PairsInv
  <2>2. b \in overrun \/ claim'[b] = claim[b]
    <3>1. CASE b = a
      BY <1>1, <3>1, NobodyElse
    <3>2. CASE b # a
      BY <1>1, <1>3, <3>2 DEF PairsTyped
    <3> QED
      BY <3>1, <3>2
  <2> QED
    BY <1>1, <2>1, <2>2 DEF OperationTrue, Generating
<1> QED
  BY <1>5, <1>6, <1>7, <1>8 DEF PairsInv

-----------------------------------------------------------------------------
(* The calls. *)

LEMMA KeepsGenerate ==
    ASSUME PairsInv, NEW w \in Runners, NEW a \in Attempts, NEW f \in Payloads, Generate(w, a, f)
    PROVE  PairsInv'
<1>1. /\ ~Generating(w, a) /\ MayClaimPair(a, f) /\ ~Conflicting(a, f) /\ ~Completed(a) /\ Affordable
      /\ claim' = [claim EXCEPT ![a] = [owner |-> w, print |-> f, lapsed |-> FALSE]]
      /\ UNCHANGED <<spent, delivered, overrun, runnerEnds>>
  BY DEF Generate, RefusedPair
<1>2. /\ PairsTyped /\ BudgetTrue /\ RowsTrue(a) /\ DeliveredTrue(a)
      /\ row[a] \in [PairSides -> RunRow] /\ called[a] \in [PairSides -> Nat]
  BY PairHas
<1>3. PICK counts \in [PairSides -> Nat] :
         /\ called' = [called EXCEPT ![a] = counts]
         /\ \A s \in PairSides : counts[s] = IF s \in Known(a) THEN called[a][s] ELSE called[a][s] + 1
  <2> DEFINE counts == [s \in PairSides |-> IF s \in Known(a) THEN called[a][s] ELSE called[a][s] + 1]
  <2>1. called' = [called EXCEPT ![a] = counts]
    BY DEF Generate
  <2>2. counts \in [PairSides -> Nat]
    BY <1>2
  <2> QED
    BY <2>1, <2>2
<1>4. PICK rows \in [PairSides -> RunRow] :
         /\ row' = [row EXCEPT ![a] = rows]
         /\ \A s \in PairSides :
               rows[s] = IF s \in Known(a) THEN row[a][s] ELSE [state |-> "PERSISTED", print |-> f, answer |-> 0]
  <2> DEFINE rows == [s \in PairSides |->
                        IF s \in Known(a) THEN row[a][s] ELSE [state |-> "PERSISTED", print |-> f, answer |-> 0]]
  <2>1. row' = [row EXCEPT ![a] = rows]
    BY DEF Generate
  <2>2. [state |-> "PERSISTED", print |-> f, answer |-> 0] \in RunRow
    BY DEF RunRow, Fingerprint
  <2>3. rows \in [PairSides -> RunRow]
    BY <1>2, <2>2
  <2> QED
    BY <2>1, <2>3
<1>5. /\ called' \in [Attempts -> [PairSides -> Nat]] /\ called'[a] = counts
      /\ \A b \in Attempts : b # a => called'[b] = called[b]
      /\ row' \in [Attempts -> [PairSides -> RunRow]] /\ row'[a] = rows
      /\ \A b \in Attempts : b # a => row'[b] = row[b]
  BY <1>2, <1>3, <1>4 DEF PairsTyped
<1>6. PICK new \in PairOperation :
         /\ operation' = [operation EXCEPT ![w][a] = new] /\ new.print = f
         /\ \A s \in PairSides :
               /\ new.side[s] = "calling" <=> s \notin Known(a)
               /\ s \notin Known(a) => new.answer[s] = counts[s]
  <2> DEFINE side == [s \in PairSides |-> IF s \in Known(a) THEN "done" ELSE "calling"]
             answer == [s \in PairSides |-> IF s \in Known(a) THEN 0 ELSE called'[a][s]]
  <2>1. operation' = [operation EXCEPT ![w][a] = [print |-> f, side |-> side, answer |-> answer]]
    BY DEF Generate
  <2>2. side \in [PairSides -> SideState] /\ answer \in [PairSides -> Nat]
    BY <1>5 DEF SideState
  <2>3. \A s \in PairSides : /\ side[s] = "calling" <=> s \notin Known(a)
                             /\ s \notin Known(a) => answer[s] = counts[s]
    BY <1>5
  <2> HIDE DEF side, answer
  <2>4. PICK new : new = [print |-> f, side |-> side, answer |-> answer]
    OBVIOUS
  <2>5. new \in PairOperation /\ new.print = f /\ new.side = side /\ new.answer = answer
    BY <2>2, <2>4 DEF PairOperation, Fingerprint
  <2> QED
    BY <2>1, <2>3, <2>4, <2>5
<1>7. /\ operation' \in [Runners -> [Attempts -> PairOperation]] /\ operation'[w][a] = new
      /\ \A x \in Runners, b \in Attempts : x # w \/ b # a => operation'[x][b] = operation[x][b]
  <2>1. PairsTyped /\ new \in PairOperation /\ operation' = [operation EXCEPT ![w][a] = new]
    BY <1>2, <1>6
  <2>2. operation \in [Runners -> [Attempts -> PairOperation]]
    BY <2>1 DEF PairsTyped
  <2> QED
    BY ONLY <2>1, <2>2, w \in Runners, a \in Attempts
<1>8. \A s \in PairSides : row[a][s].print \in {f, NoPayload} /\ (s \in Known(a) => row[a][s].print = f)
  <2> SUFFICES ASSUME NEW s \in PairSides
               PROVE  row[a][s].print \in {f, NoPayload} /\ (s \in Known(a) => row[a][s].print = f)
    OBVIOUS
  <2>1. row[a][s] = NoRow \/ row[a][s].print = f
    BY <1>1 DEF Conflicting, Written
  <2>2. s \in Known(a) => row[a][s] # NoRow
    BY DEF Known, NoRow
  <2> QED
    BY <2>1, <2>2, <1>2 DEF RowsTrue
<1>9. \A s \in PairSides : rows[s].print = f /\ (s \notin Known(a) => rows[s].state = "PERSISTED" /\ rows[s].answer = 0)
  BY <1>4, <1>8
<1>10. crowd' \in Nat /\ IsFiniteSet(PairsWaiting) /\ Cardinality(PairsWaiting) \in Nat
       /\ crowd' >= Cardinality(PairsWaiting) + 1
  <2>1. IsFiniteSet(PairsWaiting) /\ Cardinality(PairsWaiting) \in Nat /\ crowd \in Nat
    BY <1>2, CallsFinite DEF PairsTyped
  <2>2. crowd' = IF Cardinality(PairsWaiting) + 1 > crowd THEN Cardinality(PairsWaiting) + 1 ELSE crowd
    BY DEF Generate, PairsInFlight, PairsWaiting
  <2> QED
    BY <2>1, <2>2
<1>11. PairsTyped'
  BY <1>1, <1>2, <1>5, <1>7, <1>10 DEF PairsTyped, PairClaim
<1>12. BudgetTrue'
  <2>1. PairsWaiting' \subseteq PairsWaiting \cup {<<w, a>>}
    BY <1>7 DEF PairsWaiting, Generating
  <2>2. /\ IsFiniteSet(PairsWaiting \cup {<<w, a>>})
        /\ Cardinality(PairsWaiting \cup {<<w, a>>}) =
             IF <<w, a>> \in PairsWaiting THEN Cardinality(PairsWaiting) ELSE Cardinality(PairsWaiting) + 1
    BY <1>10, FS_AddElement
  <2>3. /\ IsFiniteSet(PairsWaiting') /\ Cardinality(PairsWaiting') \in Nat
        /\ Cardinality(PairsWaiting') <= Cardinality(PairsWaiting) + 1
    <3>1. /\ IsFiniteSet(PairsWaiting') /\ Cardinality(PairsWaiting') \in Nat
          /\ Cardinality(PairsWaiting') <= Cardinality(PairsWaiting \cup {<<w, a>>})
      BY <2>1, <2>2, FS_Subset, FS_CardinalityType
    <3> QED
      BY <1>10, <2>2, <3>1
  <2>4. IsFiniteSet(PairSides) /\ Cardinality(PairSides) = 2
    <3>1. PairSides = {"A"} \cup {"B"} /\ "B" \notin {"A"}
      BY DEF PairSides
    <3>2. IsFiniteSet({"A"}) /\ Cardinality({"A"}) = 1
      BY FS_Singleton
    <3>3. /\ IsFiniteSet({"A"} \cup {"B"})
          /\ Cardinality({"A"} \cup {"B"}) = Cardinality({"A"}) + 1
      BY <3>1, <3>2, FS_AddElement
    <3> QED
      BY <3>1, <3>2, <3>3
  <2>5. /\ IsFiniteSet(PairsWaiting' \X PairSides)
        /\ Cardinality(PairsWaiting' \X PairSides) = Cardinality(PairsWaiting') * 2
    BY <2>3, <2>4, FS_Product
  <2>6. Calls' \subseteq PairsWaiting' \X PairSides
    BY DEF Calls
  <2>7. /\ Cardinality(Calls') \in Nat
        /\ Cardinality(Calls') <= Cardinality(PairsWaiting') * 2
    BY <2>5, <2>6, FS_Subset, FS_CardinalityType
  <2>8. PICK m \in Nat, k \in Nat : m = Cardinality(Calls') /\ k = crowd' /\ m <= 2 * k /\ k >= 1
    BY <1>10, <2>3, <2>7
  <2>9. CallCost * m <= CallCost * (2 * k) /\ CallCost * m \in Nat
    BY <2>8, CostsGrow, InferencePairsAssumption
  <2>10. CallCost * (2 * k) = 2 * CallCost + 2 * CallCost * (k - 1)
    <3>1. PICK c \in Nat : c = CallCost
      BY InferencePairsAssumption
    <3>2. c * (2 * k) = 2 * c + 2 * c * (k - 1)
      BY <2>8
    <3> QED
      BY <3>1, <3>2
  <2>11. spent' = spent /\ spent \in Nat /\ MaxCost \in Nat /\ CallCost \in Nat /\ spent + 2 * CallCost <= MaxCost
    BY <1>1, <1>2, InferencePairsAssumption DEF Affordable, PairsTyped
  <2>12. Allowance' = MaxCost + 2 * CallCost * (k - 1)
    <3>1. (IF k > 1 THEN k - 1 ELSE 0) = k - 1
      <4>1. k \in Nat /\ k >= 1
        BY <2>8
      <4> QED
        BY <4>1
    <3> QED
      BY <2>8, <3>1 DEF Allowance
  <2>13. 2 * CallCost * (k - 1) \in Int /\ CallCost * (2 * k) \in Int
    BY <2>8, <2>11
  <2>14. spent' + CallCost * m <= Allowance'
    BY <2>9, <2>10, <2>11, <2>12, <2>13
  <2> QED
    BY <2>3, <2>8, <2>14 DEF BudgetTrue
<1>13. ASSUME NEW b \in Attempts PROVE RowsTrue(b)' /\ DeliveredTrue(b)'
  <2>1. RowsTrue(b) /\ DeliveredTrue(b)
    BY DEF PairsInv
  <2>2. CASE b # a
    <3>1. row'[b] = row[b] /\ called'[b] = called[b] /\ delivered' = delivered /\ overrun' = overrun
      BY <1>1, <1>5, <2>2
    <3>2. CompletedResult(b)' = CompletedResult(b) /\ (Completed(b)' <=> Completed(b))
      BY <3>1 DEF CompletedResult, Completed
    <3> QED
      BY <2>1, <3>1, <3>2 DEF RowsTrue, DeliveredTrue
  <2>3. CASE b = a
    <3>1. RowsTrue(a)'
      <4> SUFFICES ASSUME NEW s \in PairSides
                   PROVE  /\ rows[s].state = "SUCCESS" <=> rows[s].answer \in 1..counts[s]
                          /\ rows[s] = NoRow <=> rows[s].print = NoPayload
                          /\ \A t \in PairSides : rows[s].print = rows[t].print
        BY <1>5 DEF RowsTrue
      <4>1. CASE s \in Known(a)
        <5>1. rows[s] = row[a][s] /\ counts[s] = called[a][s]
          BY <1>3, <1>4, <4>1
        <5> QED
          BY <5>1, <1>2, <1>9 DEF RowsTrue
      <4>2. CASE s \notin Known(a)
        BY <4>2, <1>9, InferencePairsAssumption DEF NoRow
      <4> QED
        BY <4>1, <4>2
    <3>2. a \notin overrun => delivered'[a] = {}
      BY <1>1, <1>2 DEF DeliveredTrue
    <3> QED
      BY <1>1, <2>3, <3>1, <3>2 DEF DeliveredTrue
  <2> QED
    BY <2>2, <2>3
<1>14. ASSUME NEW x \in Runners, NEW b \in Attempts PROVE OperationTrue(x, b)'
  <2>1. OperationTrue(x, b)
    BY DEF PairsInv
  <2>2. CASE b # a
    <3>1. /\ operation'[x][b] = operation[x][b] /\ row'[b] = row[b] /\ called'[b] = called[b]
          /\ claim'[b] = claim[b] /\ overrun' = overrun
      BY <1>1, <1>2, <1>5, <1>7, <2>2 DEF PairsTyped
    <3> QED
      BY <2>1, <3>1 DEF OperationTrue, Generating
  <2>3. CASE b = a /\ x = w
    <3>1. /\ claim'[a].owner = w /\ claim'[a].lapsed = FALSE
      BY <1>1, <1>2 DEF PairsTyped
    <3>2. \A s \in PairSides : /\ row'[a][s].print = new.print
                               /\ new.side[s] = "calling" => /\ new.answer[s] \in 1..called'[a][s]
                                                             /\ row'[a][s].state = "PERSISTED"
      <4> SUFFICES ASSUME NEW s \in PairSides
                   PROVE  /\ row'[a][s].print = new.print
                          /\ new.side[s] = "calling" => /\ new.answer[s] \in 1..called'[a][s]
                                                        /\ row'[a][s].state = "PERSISTED"
        OBVIOUS
      <4>1. s \notin Known(a) => counts[s] \in 1..counts[s]
        BY <1>2, <1>3
      <4> QED
        BY <4>1, <1>5, <1>6, <1>9
    <3> QED
      BY <2>3, <3>1, <3>2, <1>7 DEF OperationTrue
  <2>4. CASE b = a /\ x # w
    <3> SUFFICES ASSUME Generating(x, a) PROVE OperationTrue(x, a)'
      BY <1>7, <2>4 DEF OperationTrue, Generating
    <3>1. a \in overrun /\ overrun' = overrun
      BY <1>1, NobodyElse
    <3>2. operation'[x][a] = operation[x][a] /\ OperationTrue(x, a)
      BY <1>7, <2>1, <2>4
    <3>3. \A s \in PairSides : called[a][s] \in Nat /\ called'[a][s] \in Nat /\ called[a][s] <= called'[a][s]
      BY <1>2, <1>3, <1>5
    <3>4. operation[x][a].print # NoPayload /\ \A s \in PairSides : row[a][s].print = operation[x][a].print
      BY <3>2 DEF OperationTrue, Generating
    <3>5. operation[x][a].print = f
      BY <1>8, <3>4 DEF PairSides
    <3>6. \A s \in PairSides : row'[a][s].print = operation'[x][a].print
      BY <1>5, <1>9, <3>2, <3>5
    <3>7. \A s \in PairSides : operation[x][a].side[s] = "calling" => operation[x][a].answer[s] \in 1..called[a][s]
      BY <3>2 DEF OperationTrue
    <3>8. \A s \in PairSides : operation'[x][a].side[s] = "calling" => operation'[x][a].answer[s] \in 1..called'[a][s]
      BY <3>2, <3>3, <3>7
    <3> QED
      BY <3>1, <3>6, <3>8 DEF OperationTrue
  <2> QED
    BY <2>2, <2>3, <2>4
<1> QED
  BY <1>11, <1>12, <1>13, <1>14 DEF PairsInv

-----------------------------------------------------------------------------
(* The answers. *)

LEMMA ReplyRows ==
    ASSUME PairsInv, NEW w \in Runners, NEW a \in Attempts, NEW s \in PairSides,
           Generating(w, a), operation[w][a].side[s] = "calling",
           NEW state, NEW answer,
           \/ state = "SUCCESS" /\ answer = operation[w][a].answer[s]
           \/ state \in ProviderFailure /\ answer = 0,
           Reply(w, a, s, state, answer), UNCHANGED <<called, delivered, overrun>>
    PROVE  /\ row' \in [Attempts -> [PairSides -> RunRow]]
           /\ \A b \in Attempts : RowsTrue(b)' /\ DeliveredTrue(b)'
           /\ \A b \in Attempts, t \in PairSides : row'[b][t].print = row[b][t].print
           /\ \A b \in Attempts, t \in PairSides : b # a \/ t # s => row'[b][t] = row[b][t]
<1>1. /\ PairsTyped /\ RowsTrue(a) /\ DeliveredTrue(a) /\ OperationTrue(w, a)
      /\ row[a] \in [PairSides -> RunRow] /\ called[a] \in [PairSides -> Nat]
      /\ operation[w][a] \in PairOperation
  BY PairHas
<1>2. PICK print \in Payloads : print = operation[w][a].print
  BY <1>1 DEF PairOperation, Fingerprint, Generating
<1>3. answer \in Nat /\ (state = "SUCCESS" <=> answer \in 1..called[a][s])
  BY <1>1 DEF OperationTrue, ProviderFailure
<1>4. PICK new : new = [state |-> state, print |-> print, answer |-> answer]
  OBVIOUS
<1>5. new \in RunRow /\ new.state = state /\ new.print = print /\ new.answer = answer /\ new # NoRow
  BY <1>2, <1>3, <1>4, InferencePairsAssumption DEF RunRow, Fingerprint, NoRow
<1>6. row' = [row EXCEPT ![a][s] = new]
  BY <1>2, <1>4 DEF Reply
<1>7. /\ row' \in [Attempts -> [PairSides -> RunRow]] /\ row'[a][s] = new
      /\ \A b \in Attempts, t \in PairSides : b # a \/ t # s => row'[b][t] = row[b][t]
  BY <1>1, <1>5, <1>6 DEF PairsTyped
<1>8. \A b \in Attempts, t \in PairSides : row'[b][t].print = row[b][t].print
  BY <1>1, <1>2, <1>5, <1>7 DEF OperationTrue
<1>9. ASSUME NEW b \in Attempts PROVE RowsTrue(b)'
  <2>1. RowsTrue(b)
    BY DEF PairsInv
  <2> SUFFICES ASSUME NEW t \in PairSides
               PROVE  /\ row'[b][t].state = "SUCCESS" <=> row'[b][t].answer \in 1..called[b][t]
                      /\ row'[b][t] = NoRow <=> row'[b][t].print = NoPayload
    BY <1>8, <2>1 DEF RowsTrue
  <2>2. CASE b = a /\ t = s
    BY <1>2, <1>3, <1>5, <1>7, <2>2, InferencePairsAssumption
  <2>3. CASE b # a \/ t # s
    BY <1>7, <2>1, <2>3 DEF RowsTrue
  <2> QED
    BY <2>2, <2>3
<1>10. ASSUME NEW b \in Attempts PROVE DeliveredTrue(b)'
  <2>1. CASE b = a
    <3>1. a \notin overrun => delivered[a] = {}
      <4> SUFFICES ASSUME a \notin overrun PROVE delivered[a] = {}
        OBVIOUS
      <4>1. row[a][s].state = "PERSISTED"
        BY <1>1 DEF OperationTrue
      <4> QED
        BY <1>1, <4>1 DEF DeliveredTrue, Completed
    <3> QED
      BY <2>1, <3>1 DEF DeliveredTrue
  <2>2. CASE b # a
    <3>1. DeliveredTrue(b) /\ row'[b] = row[b]
      BY <1>1, <1>6, <2>2 DEF PairsInv, PairsTyped
    <3>2. CompletedResult(b)' = CompletedResult(b) /\ (Completed(b)' <=> Completed(b))
      BY <3>1 DEF CompletedResult, Completed
    <3> QED
      BY <3>1, <3>2 DEF DeliveredTrue
  <2> QED
    BY <2>1, <2>2
<1> QED
  BY <1>7, <1>8, <1>9, <1>10

\* An operation goes on, ends, or waits for less.
Shrinks(new, old) ==
    \/ new = NoOperation
    \/ /\ new.print = old.print /\ new.answer = old.answer
       /\ \A t \in PairSides : new.side[t] = "calling" => old.side[t] = "calling"

LEMMA CallsShrink ==
    ASSUME \A x \in Runners, b \in Attempts : Shrinks(operation'[x][b], operation[x][b])
    PROVE  PairsWaiting' \subseteq PairsWaiting /\ Calls' \subseteq Calls
<1>1. \A x \in Runners, b \in Attempts : Generating(x, b)' => /\ Generating(x, b)
                                                             /\ operation'[x][b] # NoOperation
  BY DEF Shrinks, Generating, NoOperation
<1>2. PairsWaiting' \subseteq PairsWaiting
  BY <1>1 DEF PairsWaiting
<1>3. ASSUME NEW c \in Calls' PROVE c \in Calls
  <2>1. PICK x \in Runners, b \in Attempts, t \in PairSides : c = <<<<x, b>>, t>>
    BY DEF Calls
  <2>2. <<x, b>> \in PairsWaiting' /\ operation'[x][b].side[t] = "calling"
    BY <2>1 DEF Calls
  <2>3. operation'[x][b] # NoOperation
    BY <2>2 DEF NoOperation
  <2> QED
    BY <1>2, <2>1, <2>2, <2>3 DEF Shrinks, Calls
<1> QED
  BY <1>2, <1>3

\* What was known of a worker still is, when it waits for no more and rows keep
\* their print, and their state where it waits.
LEMMA OperationKept ==
    ASSUME PairsInv, NEW x \in Runners, NEW b \in Attempts,
           Shrinks(operation'[x][b], operation[x][b]),
           \A t \in PairSides : row'[b][t].print = row[b][t].print,
           called' = called, overrun \subseteq overrun',
           Generating(x, b)' /\ b \notin overrun' =>
              /\ claim'[b] = claim[b]
              /\ \A t \in PairSides : operation'[x][b].side[t] = "calling" => row'[b][t].state = row[b][t].state
    PROVE  OperationTrue(x, b)'
<1> SUFFICES ASSUME Generating(x, b)' PROVE OperationTrue(x, b)'
  BY DEF OperationTrue
<1>1. operation'[x][b] # NoOperation
  BY DEF Generating, NoOperation
<1>2. /\ operation'[x][b].print = operation[x][b].print /\ operation'[x][b].answer = operation[x][b].answer
      /\ \A t \in PairSides : operation'[x][b].side[t] = "calling" => operation[x][b].side[t] = "calling"
  BY <1>1 DEF Shrinks
<1>3. Generating(x, b) /\ OperationTrue(x, b)
  BY <1>2 DEF Generating, PairsInv
<1>4. \A t \in PairSides :
         /\ row'[b][t].print = operation'[x][b].print
         /\ operation'[x][b].side[t] = "calling" => operation'[x][b].answer[t] \in 1..called'[b][t]
  BY <1>2, <1>3 DEF OperationTrue
<1>5. b \notin overrun' =>
         /\ claim'[b].owner = x /\ ~claim'[b].lapsed
         /\ \A t \in PairSides : operation'[x][b].side[t] = "calling" => row'[b][t].state = "PERSISTED"
  BY <1>2, <1>3 DEF OperationTrue
<1> QED
  BY <1>4, <1>5 DEF OperationTrue

\* After an answer, for whoever still waits.
LEMMA WaitersKept ==
    ASSUME PairsInv, NEW w \in Runners, NEW a \in Attempts, NEW s \in PairSides, Generating(w, a),
           \A x \in Runners, b \in Attempts : Shrinks(operation'[x][b], operation[x][b]),
           operation'[w][a].side[s] # "calling",
           \A b \in Attempts, t \in PairSides : row'[b][t].print = row[b][t].print,
           \A b \in Attempts, t \in PairSides : b # a \/ t # s => row'[b][t] = row[b][t],
           UNCHANGED <<called, overrun, claim>>
    PROVE  \A x \in Runners, b \in Attempts : OperationTrue(x, b)'
<1> SUFFICES ASSUME NEW x \in Runners, NEW b \in Attempts PROVE OperationTrue(x, b)'
  OBVIOUS
<1>1. CASE b = a /\ x # w
  <2>1. Generating(x, a)' => Generating(x, a)
    BY DEF Shrinks, Generating, NoOperation
  <2>2. Generating(x, a)' => a \in overrun
    BY <1>1, <2>1 DEF PairsInv, OperationTrue
  <2> QED
    BY <1>1, <2>2, OperationKept
<1>2. CASE b = a /\ x = w
  <2>1. \A t \in PairSides : operation'[w][a].side[t] = "calling" => row'[a][t].state = row[a][t].state
    OBVIOUS
  <2> QED
    BY <1>2, <2>1, OperationKept
<1>3. CASE b # a
  <2>1. \A t \in PairSides : row'[b][t].state = row[b][t].state
    BY <1>3
  <2> QED
    BY <2>1, OperationKept
<1> QED
  BY <1>1, <1>2, <1>3

\* A side that ends.
LEMMA SideEnds ==
    ASSUME PairsInv, NEW w \in Runners, NEW a \in Attempts, NEW s \in PairSides,
           Generating(w, a), operation[w][a].side[s] = "calling", NEW end \in {"done", "failed"},
           operation' = [operation EXCEPT ![w][a].side[s] = end]
    PROVE  /\ operation' \in [Runners -> [Attempts -> PairOperation]]
           /\ operation'[w][a].side[s] = end
           /\ \A x \in Runners, b \in Attempts : Shrinks(operation'[x][b], operation[x][b])
           /\ <<<<w, a>>, s>> \in Calls /\ <<<<w, a>>, s>> \notin Calls'
<1>1. PairsTyped /\ operation[w][a] \in PairOperation
  BY PairHas
<1>2. PICK old \in PairOperation : old = operation[w][a]
  BY <1>1
<1>3. PICK side \in [PairSides -> SideState] : side = [old.side EXCEPT ![s] = end]
  BY <1>2 DEF PairOperation, SideState
<1>4. PICK new : new = [old EXCEPT !.side = side]
  OBVIOUS
<1>5. new \in PairOperation /\ new.side = side /\ new.print = old.print /\ new.answer = old.answer
  BY <1>2, <1>3, <1>4 DEF PairOperation
<1>6. [old EXCEPT !.side[s] = end] = new
  BY <1>2, <1>3, <1>4 DEF PairOperation
<1>7. operation' = [operation EXCEPT ![w][a] = new]
  BY <1>1, <1>2, <1>6 DEF PairsTyped
<1>8. /\ operation' \in [Runners -> [Attempts -> PairOperation]] /\ operation'[w][a] = new
      /\ \A x \in Runners, b \in Attempts : x # w \/ b # a => operation'[x][b] = operation[x][b]
  <2>1. PairsTyped /\ new \in PairOperation /\ operation' = [operation EXCEPT ![w][a] = new]
    BY <1>1, <1>5, <1>7
  <2>2. PICK mine : mine = [operation[w] EXCEPT ![a] = new]
    OBVIOUS
  <2>3. operation' = [operation EXCEPT ![w] = mine]
    BY <2>1, <2>2
  <2>4. /\ mine \in [Attempts -> PairOperation] /\ mine[a] = new
        /\ \A b \in Attempts : b # a => mine[b] = operation[w][b]
    BY <2>1, <2>2 DEF PairsTyped
  <2>5. operation \in [Runners -> [Attempts -> PairOperation]]
    BY <2>1 DEF PairsTyped
  <2>6. /\ operation' \in [Runners -> [Attempts -> PairOperation]] /\ operation'[w] = mine
        /\ \A x \in Runners : x # w => operation'[x] = operation[x]
    BY <2>3, <2>4, <2>5
  <2> QED
    BY <2>4, <2>6
<1>9. side[s] = end /\ \A t \in PairSides : t # s => side[t] = old.side[t]
  BY <1>2, <1>3 DEF PairOperation
<1>10. ASSUME NEW x \in Runners, NEW b \in Attempts PROVE Shrinks(operation'[x][b], operation[x][b])
  <2>1. CASE x = w /\ b = a
    BY <1>2, <1>5, <1>8, <1>9, <2>1 DEF Shrinks
  <2>2. CASE x # w \/ b # a
    BY <1>8, <2>2 DEF Shrinks
  <2> QED
    BY <2>1, <2>2
<1>11. <<<<w, a>>, s>> \in Calls
  BY DEF Calls, PairsWaiting
<1>12. <<<<w, a>>, s>> \notin Calls'
  BY <1>5, <1>8, <1>9 DEF Calls
<1> QED
  BY <1>5, <1>8, <1>9, <1>10, <1>11, <1>12

LEMMA KeepsAnswered ==
    ASSUME PairsInv, NEW w \in Runners, NEW a \in Attempts, NEW s \in PairSides, Answered(w, a, s)
    PROVE  PairsInv'
<1>1. /\ Generating(w, a) /\ operation[w][a].side[s] = "calling"
      /\ Reply(w, a, s, "SUCCESS", operation[w][a].answer[s])
      /\ operation' = [operation EXCEPT ![w][a].side[s] = "done"]
      /\ UNCHANGED <<claim, called, delivered, overrun, crowd, runnerEnds>>
  BY DEF Answered
<1>2. PICK cost \in 0..CallCost : spent' = spent + cost
  BY DEF Answered
<1>3. PICK answer : answer = operation[w][a].answer[s]
  OBVIOUS
<1>4. Reply(w, a, s, "SUCCESS", answer)
  BY <1>1, <1>3
<1>5. /\ row' \in [Attempts -> [PairSides -> RunRow]]
      /\ \A b \in Attempts : RowsTrue(b)' /\ DeliveredTrue(b)'
      /\ \A b \in Attempts, t \in PairSides : row'[b][t].print = row[b][t].print
      /\ \A b \in Attempts, t \in PairSides : b # a \/ t # s => row'[b][t] = row[b][t]
  BY <1>1, <1>3, <1>4, ReplyRows
<1>6. /\ operation' \in [Runners -> [Attempts -> PairOperation]]
      /\ operation'[w][a].side[s] = "done"
      /\ \A x \in Runners, b \in Attempts : Shrinks(operation'[x][b], operation[x][b])
      /\ <<<<w, a>>, s>> \in Calls /\ <<<<w, a>>, s>> \notin Calls'
  BY <1>1, SideEnds
<1>7. \A x \in Runners, b \in Attempts : OperationTrue(x, b)'
  <2>1. /\ operation'[w][a].side[s] # "calling" /\ Generating(w, a)
        /\ UNCHANGED <<called, overrun, claim>>
    BY <1>1, <1>6
  <2> QED
    BY <1>5, <1>6, <2>1, WaitersKept
<1>8. PairsTyped /\ BudgetTrue
  BY DEF PairsInv
<1>9. BudgetTrue'
  <2>1. PairsWaiting' \subseteq PairsWaiting /\ Calls' \subseteq Calls \ {<<<<w, a>>, s>>}
    BY <1>6, CallsShrink
  <2> QED
    BY <1>1, <1>2, <1>6, <1>8, <2>1, CallEnds
<1>10. PairsTyped'
  <2>1. spent' \in Nat
    BY <1>2, <1>8, InferencePairsAssumption DEF PairsTyped
  <2> QED
    BY <1>1, <1>5, <1>6, <1>8, <2>1 DEF PairsTyped
<1> QED
  BY <1>5, <1>7, <1>9, <1>10 DEF PairsInv

LEMMA KeepsUnanswered ==
    ASSUME PairsInv, NEW w \in Runners, NEW a \in Attempts, NEW s \in PairSides, Unanswered(w, a, s)
    PROVE  PairsInv'
<1>1. /\ Generating(w, a) /\ operation[w][a].side[s] = "calling"
      /\ operation' = [operation EXCEPT ![w][a].side[s] = "failed"]
      /\ UNCHANGED <<claim, spent, called, delivered, overrun, crowd, runnerEnds>>
  BY DEF Unanswered
<1>2. PICK failure \in ProviderFailure : Reply(w, a, s, failure, 0)
  BY DEF Unanswered
<1>3. /\ row' \in [Attempts -> [PairSides -> RunRow]]
      /\ \A b \in Attempts : RowsTrue(b)' /\ DeliveredTrue(b)'
      /\ \A b \in Attempts, t \in PairSides : row'[b][t].print = row[b][t].print
      /\ \A b \in Attempts, t \in PairSides : b # a \/ t # s => row'[b][t] = row[b][t]
  BY <1>1, <1>2, ReplyRows
<1>4. /\ operation' \in [Runners -> [Attempts -> PairOperation]]
      /\ operation'[w][a].side[s] = "failed"
      /\ \A x \in Runners, b \in Attempts : Shrinks(operation'[x][b], operation[x][b])
  BY <1>1, SideEnds
<1>5. \A x \in Runners, b \in Attempts : OperationTrue(x, b)'
  <2>1. /\ operation'[w][a].side[s] # "calling" /\ Generating(w, a)
        /\ UNCHANGED <<called, overrun, claim>>
    BY <1>1, <1>4
  <2> QED
    BY <1>3, <1>4, <2>1, WaitersKept
<1>6. PairsTyped /\ BudgetTrue
  BY DEF PairsInv
<1>7. BudgetTrue'
  <2>1. PairsWaiting' \subseteq PairsWaiting /\ Calls' \subseteq Calls
    BY <1>4, CallsShrink
  <2> QED
    BY <1>1, <1>6, <2>1, BudgetKept
<1>8. PairsTyped'
  BY <1>1, <1>3, <1>4, <1>6 DEF PairsTyped
<1> QED
  BY <1>3, <1>5, <1>7, <1>8 DEF PairsInv

-----------------------------------------------------------------------------
(* Ends. *)

LEMMA KeepsFinish ==
    ASSUME PairsInv, NEW w \in Runners, NEW a \in Attempts, Finish(w, a)
    PROVE  PairsInv'
<1>1. /\ Generating(w, a)
      /\ operation' = [operation EXCEPT ![w][a] = NoOperation]
      /\ claim' = [claim EXCEPT ![a] = ReleasedBy(w, a)]
      /\ UNCHANGED <<row, spent, called, overrun, crowd, runnerEnds>>
  BY DEF Finish
<1>2. delivered' = delivered \/ (Completed(a) /\ delivered' = [delivered EXCEPT ![a] = @ \cup {CompletedResult(a)}])
  BY DEF Finish
<1>3. /\ PairsTyped /\ BudgetTrue /\ CompletedResult(a) \in [PairSides -> Nat] /\ NoOperation \in PairOperation
      /\ claim[a] \in PairClaim
  BY PairHas
<1>4. /\ operation' \in [Runners -> [Attempts -> PairOperation]] /\ operation'[w][a] = NoOperation
      /\ \A x \in Runners, b \in Attempts : x # w \/ b # a => operation'[x][b] = operation[x][b]
  <2>1. PairsTyped /\ NoOperation \in PairOperation
    BY <1>3
  <2>2. operation' = [operation EXCEPT ![w][a] = NoOperation]
    BY <1>1
  <2>3. operation \in [Runners -> [Attempts -> PairOperation]]
    BY <2>1 DEF PairsTyped
  <2> QED
    BY ONLY <2>1, <2>2, <2>3, w \in Runners, a \in Attempts
<1>5. \A x \in Runners, b \in Attempts : Shrinks(operation'[x][b], operation[x][b])
  BY <1>4 DEF Shrinks
<1>6. /\ claim' \in [Attempts -> PairClaim]
      /\ \A b \in Attempts : claim'[b] = claim[b] \/ (b = a /\ claim[a].owner = w)
  <2>1. ReleasedBy(w, a) \in PairClaim /\ (ReleasedBy(w, a) = claim[a] \/ claim[a].owner = w)
    BY <1>3 DEF ReleasedBy, PairClaim
  <2>2. claim \in [Attempts -> PairClaim]
    BY <1>3 DEF PairsTyped
  <2> QED
    BY <1>1, <2>1, <2>2
<1>7. delivered' \in [Attempts -> SUBSET [PairSides -> Nat]]
  BY <1>2, <1>3 DEF PairsTyped
<1>8. PairsTyped'
  BY <1>1, <1>3, <1>4, <1>6, <1>7 DEF PairsTyped
<1>9. BudgetTrue'
  <2>1. PairsWaiting' \subseteq PairsWaiting /\ Calls' \subseteq Calls
    BY <1>5, CallsShrink
  <2> QED
    BY <1>1, <1>3, <2>1, BudgetKept
<1>10. ASSUME NEW b \in Attempts PROVE RowsTrue(b)' /\ DeliveredTrue(b)'
  <2>1. RowsTrue(b) /\ DeliveredTrue(b)
    BY DEF PairsInv
  <2>2. CompletedResult(b)' = CompletedResult(b) /\ (Completed(b)' <=> Completed(b))
    BY <1>1 DEF CompletedResult, Completed
  <2>3. delivered'[b] = delivered[b] \/ (Completed(b) /\ delivered'[b] = delivered[b] \cup {CompletedResult(b)})
    BY <1>2, <1>3 DEF PairsTyped
  <2> QED
    BY <1>1, <2>1, <2>2, <2>3 DEF RowsTrue, DeliveredTrue
<1>11. ASSUME NEW x \in Runners, NEW b \in Attempts PROVE OperationTrue(x, b)'
  <2>1. Generating(x, b)' /\ b \notin overrun' => claim'[b] = claim[b]
    <3> SUFFICES ASSUME Generating(x, b)', b \notin overrun PROVE claim'[b] = claim[b]
      BY <1>1
    <3>1. x # w \/ b # a
      BY <1>4 DEF Generating, NoOperation
    <3>2. Generating(x, b)
      BY <1>4, <3>1 DEF Generating
    <3>3. claim[b].owner = x
      BY <3>2 DEF PairsInv, OperationTrue
    <3> QED
      BY <1>6, <3>1, <3>3
  <2>2. Shrinks(operation'[x][b], operation[x][b])
    BY <1>5
  <2> QED
    BY <1>1, <2>1, <2>2, OperationKept
<1> QED
  BY <1>8, <1>9, <1>10, <1>11 DEF PairsInv

LEMMA KeepsRunnerEnds ==
    ASSUME PairsInv, NEW w \in Runners, RunnerEnds(w)
    PROVE  PairsInv'
<1>1. /\ operation' = [operation EXCEPT ![w] = [a \in Attempts |-> NoOperation]]
      /\ UNCHANGED <<claim, spent, called, delivered, overrun, crowd>>
  BY DEF RunnerEnds
<1>2. PairsTyped /\ BudgetTrue
  BY DEF PairsInv
<1>3. runnerEnds' \in 0..MaxRunnerEnds
  BY <1>2, InferencePairsAssumption DEF RunnerEnds, PairsTyped
<1>4. NoOperation \in PairOperation
  BY DEF NoOperation, PairOperation, Fingerprint, SideState
<1>5. /\ operation' \in [Runners -> [Attempts -> PairOperation]]
      /\ \A x \in Runners, b \in Attempts :
            operation'[x][b] = IF x = w THEN NoOperation ELSE operation[x][b]
  BY <1>1, <1>2, <1>4 DEF PairsTyped
<1>6. \A x \in Runners, b \in Attempts : Shrinks(operation'[x][b], operation[x][b])
  BY <1>5 DEF Shrinks
<1>7. BudgetTrue'
  <2>1. PairsWaiting' \subseteq PairsWaiting /\ Calls' \subseteq Calls
    BY <1>6, CallsShrink
  <2> QED
    BY <1>1, <1>2, <2>1, BudgetKept
<1>8. CASE UNCHANGED row
  <2>1. PairsTyped'
    BY <1>1, <1>2, <1>3, <1>5, <1>8 DEF PairsTyped
  <2>2. ASSUME NEW b \in Attempts PROVE RowsTrue(b)' /\ DeliveredTrue(b)'
    <3>1. CompletedResult(b)' = CompletedResult(b) /\ (Completed(b)' <=> Completed(b))
      BY <1>8 DEF CompletedResult, Completed
    <3> QED
      BY <1>1, <1>8, <3>1 DEF PairsInv, RowsTrue, DeliveredTrue
  <2>3. \A x \in Runners, b \in Attempts : OperationTrue(x, b)'
    BY <1>1, <1>6, <1>8, OperationKept
  <2> QED
    BY <1>7, <2>1, <2>2, <2>3 DEF PairsInv
<1>9. ASSUME NEW a \in Attempts, NEW s \in PairSides, Generating(w, a), operation[w][a].side[s] = "calling",
             Reply(w, a, s, "SUCCESS", operation[w][a].answer[s])
      PROVE  PairsInv'
  <2>1. PICK answer : answer = operation[w][a].answer[s]
    OBVIOUS
  <2>2. Reply(w, a, s, "SUCCESS", answer)
    BY <1>9, <2>1
  <2>3. /\ row' \in [Attempts -> [PairSides -> RunRow]]
        /\ \A b \in Attempts : RowsTrue(b)' /\ DeliveredTrue(b)'
        /\ \A b \in Attempts, t \in PairSides : row'[b][t].print = row[b][t].print
        /\ \A b \in Attempts, t \in PairSides : b # a \/ t # s => row'[b][t] = row[b][t]
    BY <1>1, <1>9, <2>1, <2>2, ReplyRows
  <2>4. operation'[w][a].side[s] # "calling"
    BY <1>5 DEF NoOperation
  <2>5. \A x \in Runners, b \in Attempts : OperationTrue(x, b)'
    BY <1>1, <1>6, <1>9, <2>3, <2>4, WaitersKept
  <2>6. PairsTyped'
    BY <1>1, <1>2, <1>3, <1>5, <2>3 DEF PairsTyped
  <2> QED
    BY <1>7, <2>3, <2>5, <2>6 DEF PairsInv
<1> QED
  BY <1>8, <1>9 DEF RunnerEnds

LEMMA KeepsClaimLapses ==
    ASSUME PairsInv, NEW a \in Attempts, ClaimLapses(a)
    PROVE  PairsInv'
<1>1. /\ claim[a] # NoClaim /\ ~claim[a].lapsed
      /\ claim' = [claim EXCEPT ![a].lapsed = TRUE]
      /\ overrun' = IF Generating(claim[a].owner, a) THEN overrun \cup {a} ELSE overrun
      /\ UNCHANGED <<row, spent, operation, called, delivered, crowd, runnerEnds>>
  BY DEF ClaimLapses
<1>2. PairsTyped /\ BudgetTrue
  BY DEF PairsInv
<1>3. claim' \in [Attempts -> PairClaim] /\ \A b \in Attempts : b # a => claim'[b] = claim[b]
  BY <1>1, <1>2 DEF PairsTyped, PairClaim
<1>4. PairsTyped'
  BY <1>1, <1>2, <1>3 DEF PairsTyped
<1>5. BudgetTrue'
  <2>1. PairsWaiting' = PairsWaiting
    BY <1>1 DEF PairsWaiting, Generating
  <2>2. Calls' = Calls
    BY <1>1, <2>1 DEF Calls
  <2> QED
    BY <1>1, <1>2, <2>1, <2>2, BudgetKept
<1>6. ASSUME NEW b \in Attempts PROVE RowsTrue(b)' /\ DeliveredTrue(b)'
  <2>1. CompletedResult(b)' = CompletedResult(b) /\ (Completed(b)' <=> Completed(b))
    BY <1>1 DEF CompletedResult, Completed
  <2>2. b \notin overrun' => b \notin overrun
    BY <1>1
  <2> QED
    BY <1>1, <2>1, <2>2 DEF PairsInv, RowsTrue, DeliveredTrue
<1>7. ASSUME NEW x \in Runners, NEW b \in Attempts PROVE OperationTrue(x, b)'
  <2> SUFFICES ASSUME Generating(x, b) PROVE OperationTrue(x, b)'
    BY <1>1 DEF OperationTrue, Generating
  <2>1. OperationTrue(x, b)
    BY DEF PairsInv
  <2>2. b \notin overrun' => claim'[b] = claim[b] /\ b \notin overrun
    <3>1. CASE b # a
      BY <1>1, <1>3, <3>1
    <3>2. CASE b = a
      BY <1>1, <2>1, <3>2 DEF OperationTrue
    <3> QED
      BY <3>1, <3>2
  <2> QED
    BY <1>1, <2>1, <2>2 DEF OperationTrue, Generating
<1> QED
  BY <1>4, <1>5, <1>6, <1>7 DEF PairsInv

-----------------------------------------------------------------------------

LEMMA PairsGoOn == PairsInv /\ [InferencePairsNext]_inferenceVars => PairsInv'
<1> SUFFICES ASSUME PairsInv, [InferencePairsNext]_inferenceVars PROVE PairsInv'
  OBVIOUS
<1>1. CASE \E w \in Runners, a \in Attempts : PairStep(w, a)
  BY <1>1, KeepsAnswerStored, KeepsGenerate, KeepsAnswered, KeepsUnanswered, KeepsFinish DEF PairStep
<1>2. CASE \E w \in Runners : RunnerEnds(w)
  BY <1>2, KeepsRunnerEnds
<1>3. CASE \E a \in Attempts : ClaimLapses(a)
  BY <1>3, KeepsClaimLapses
<1>4. CASE UNCHANGED inferenceVars
  <2>1. UNCHANGED <<row, claim, spent, operation, called, delivered, overrun, crowd, runnerEnds>>
    BY <1>4 DEF inferenceVars
  <2>2. PairsTyped'
    BY <2>1 DEF PairsInv, PairsTyped
  <2>3. BudgetTrue'
    <3>1. PairsWaiting' = PairsWaiting
      BY <2>1 DEF PairsWaiting, Generating
    <3>2. Calls' = Calls
      BY <2>1, <3>1 DEF Calls
    <3> QED
      BY <2>1, <3>1, <3>2, BudgetKept DEF PairsInv
  <2>4. ASSUME NEW b \in Attempts PROVE RowsTrue(b)' /\ DeliveredTrue(b)'
    <3>1. CompletedResult(b)' = CompletedResult(b) /\ (Completed(b)' <=> Completed(b))
      BY <2>1 DEF CompletedResult, Completed
    <3> QED
      BY <2>1, <3>1 DEF PairsInv, RowsTrue, DeliveredTrue
  <2>5. ASSUME NEW x \in Runners, NEW b \in Attempts PROVE OperationTrue(x, b)'
    BY <2>1 DEF PairsInv, OperationTrue, Generating
  <2> QED
    BY <2>2, <2>3, <2>4, <2>5 DEF PairsInv
<1> QED
  BY <1>1, <1>2, <1>3, <1>4 DEF InferencePairsNext

LEMMA PairsTypeOK ==
    ASSUME PairsInv
    PROVE  InferencePairsTypeOK
<1>1. ASSUME NEW a \in Attempts, NEW s \in PairSides
      PROVE  /\ row[a][s].state \in {"ABSENT", "PERSISTED", "SUCCESS"} \cup ProviderFailure
             /\ row[a][s].print \in Payloads \cup {NoPayload}
             /\ row[a][s].state = "SUCCESS" <=> row[a][s].answer \in 1..called[a][s]
  BY DEF PairsInv, PairsTyped, RunRow, Fingerprint, RowsTrue
<1>2. \A a \in Attempts : claim[a].owner \in Runners \cup {"nobody"}
  BY DEF PairsInv, PairsTyped, PairClaim, NoClaim
<1>3. \A w \in Runners : \A a \in Attempts : operation[w][a].side \in [PairSides -> SideState]
  BY DEF PairsInv, PairsTyped, PairOperation
<1> QED
  BY <1>1, <1>2, <1>3 DEF PairsInv, PairsTyped, InferencePairsTypeOK

\* However many workers run an attempt, end or are overtaken: its callers get one
\* pair unless a lease lapsed under a worker that waited, its rows are of one payload
\* even then, and the budget is exceeded by two calls at most for every further pair.
THEOREM PairsAlwaysSound == InferencePairsSpec => []PairsSound
<1>1. PairsInv => PairsSound
  <2> SUFFICES ASSUME PairsInv PROVE PairsSound
    OBVIOUS
  <2>1. SamePair
    BY DEF PairsInv, DeliveredTrue, SamePair
  <2>2. OnePayload
    BY DEF PairsInv, RowsTrue, OnePayload, Written
  <2>3. BudgetOverrun
    <3>1. Cardinality(Calls) \in Nat /\ CallCost \in Nat /\ spent \in Nat
      BY CallsFinite, InferencePairsAssumption DEF PairsInv, PairsTyped
    <3>2. CallCost * Cardinality(Calls) \in Nat
      BY <3>1
    <3>3. Allowance \in Int
      BY InferencePairsAssumption DEF PairsInv, PairsTyped, Allowance
    <3>4. spent <= Allowance
      BY <3>1, <3>2, <3>3 DEF PairsInv, BudgetTrue
    <3> QED
      BY <3>4 DEF BudgetOverrun, Allowance
  <2> QED
    BY <2>1, <2>2, <2>3, PairsTypeOK DEF PairsSound
<1> QED
  BY <1>1, PairsInit, PairsGoOn, PTL DEF InferencePairsSpec

\* Every row, lease and operation is one the runner makes.
THEOREM PairsAlwaysTyped == InferencePairsSpec => []InferencePairsTypeOK
<1>1. PairsInv => InferencePairsTypeOK
  BY PairsTypeOK
<1> QED
  BY <1>1, PairsInit, PairsGoOn, PTL DEF InferencePairsSpec

-----------------------------------------------------------------------------
(* The tracker of judgments.  Every send of an attempt is counted: by the    *)
(* hash in its record, by the lease of its worker, or as one that strayed.   *)

TrialRecord == [state : {"ABSENT", "SUBMISSION_PERSISTED", "SUBMITTED", "PENDING", "FAILED", "FINALIZED"},
                tx : Nat, result : Judgment \cup {"none"}, applied : BOOLEAN]
Lease == {Unheld} \cup [owner : Trackers, lapsed : BOOLEAN]
TrialTask == [pc : {"idle", "sending", "receipt", "verdict"}, copy : TrialRecord]

TrackerTyped ==
    /\ submission \in [Trials -> TrialRecord]
    /\ held \in [Trials -> [JudgeOperation -> Lease]]
    /\ task \in [Trackers -> [Trials -> [JudgeOperation -> TrialTask]]]
    /\ transactions \in [Trials -> Nat] /\ strayed \in [Trials -> Nat]
    /\ judgment \in [Trials -> Judgment \cup {"none"}]
    /\ progressed \subseteq {MatchOf[t] : t \in Trials} /\ told \subseteq Trials
    /\ mishaps \in 0..MaxMishaps

\* What a record says of an attempt, and a worker's copy of it.
RecordTrue(t, record) == record.tx <= transactions[t] /\ (record.applied => t \in told)
CopyTrue(w, t) ==
    /\ task[w][t]["submit"].pc \in {"idle", "sending"}
    /\ task[w][t]["poll"].pc \in {"idle", "receipt", "verdict"}
    /\ task[w][t]["poll"].pc # "idle" =>
          /\ submission[t].tx # 0 /\ task[w][t]["poll"].copy.tx # 0
          /\ RecordTrue(t, task[w][t]["poll"].copy)

\* The workers that send an attempt, and of them those whose lease lapsed.
Sending(t) == {w \in Trackers : task[w][t]["submit"].pc = "sending"}
Overtaken(t) == {w \in Sending(t) : held[t]["submit"] # [owner |-> w, lapsed |-> FALSE]}
SendsCounted(t) ==
    /\ IsFiniteSet(Sending(t))
    /\ submission[t].tx = 0 => transactions[t] + Cardinality(Overtaken(t)) <= strayed[t]
    /\ submission[t].tx # 0 => transactions[t] + Cardinality(Sending(t)) <= 1 + strayed[t]

TrackerInv ==
    /\ TrackerTyped /\ ProgressedOnce
    /\ \A t \in Trials : RecordTrue(t, submission[t]) /\ SendsCounted(t)
    /\ \A w \in Trackers, t \in Trials : CopyTrue(w, t)

-----------------------------------------------------------------------------

LEMMA TrackerInit == JudgeTrackerInit => TrackerInv
<1> SUFFICES ASSUME JudgeTrackerInit PROVE TrackerInv
  OBVIOUS
<1>1. NoSubmission \in TrialRecord
  BY DEF NoSubmission, TrialRecord
<1>2. NoTask \in TrialTask
  BY <1>1 DEF NoTask, TrialTask
<1>3. TrackerTyped
  <2>1. submission \in [Trials -> TrialRecord]
    BY <1>1 DEF JudgeTrackerInit
  <2>2. held \in [Trials -> [JudgeOperation -> Lease]]
    BY DEF JudgeTrackerInit, Lease
  <2>3. task \in [Trackers -> [Trials -> [JudgeOperation -> TrialTask]]]
    BY <1>2 DEF JudgeTrackerInit
  <2> QED
    BY <2>1, <2>2, <2>3, JudgeTrackerAssumption DEF JudgeTrackerInit, TrackerTyped
<1>4. ProgressedOnce
  BY DEF JudgeTrackerInit, ProgressedOnce
<1>5. ASSUME NEW t \in Trials PROVE RecordTrue(t, submission[t]) /\ SendsCounted(t)
  <2>1. Sending(t) = {} /\ Overtaken(t) = {}
    BY DEF Sending, Overtaken, JudgeTrackerInit, NoTask, JudgeOperation
  <2>2. /\ submission[t].tx = 0 /\ submission[t].applied = FALSE
        /\ transactions[t] = 0 /\ strayed[t] = 0
    BY DEF JudgeTrackerInit, NoSubmission
  <2> QED
    BY <2>1, <2>2, FS_EmptySet DEF RecordTrue, SendsCounted
<1>6. ASSUME NEW w \in Trackers, NEW t \in Trials PROVE CopyTrue(w, t)
  BY DEF JudgeTrackerInit, CopyTrue, NoTask, JudgeOperation
<1> QED
  BY <1>3, <1>4, <1>5, <1>6 DEF TrackerInv

-----------------------------------------------------------------------------
(* Tasks and leases after a step. *)

LEMMA TaskAfter ==
    ASSUME TrackerTyped, NEW w \in Trackers, NEW t \in Trials, NEW o \in JudgeOperation,
           NEW pc \in {"idle", "sending", "receipt", "verdict"}, NEW copy \in TrialRecord,
           Does(w, t, o, pc, copy)
    PROVE  /\ task' \in [Trackers -> [Trials -> [JudgeOperation -> TrialTask]]]
           /\ task'[w][t][o] = [pc |-> pc, copy |-> copy]
           /\ \A x \in Trackers, y \in Trials, z \in JudgeOperation :
                 x # w \/ y # t \/ z # o => task'[x][y][z] = task[x][y][z]
<1> DEFINE new == [pc |-> pc, copy |-> copy]
<1>1. new \in TrialTask
  BY DEF TrialTask
<1>2. task' = [task EXCEPT ![w][t][o] = new]
  BY DEF Does
<1> HIDE DEF new
<1>3. task \in [Trackers -> [Trials -> [JudgeOperation -> TrialTask]]]
  BY DEF TrackerTyped
<1>4. /\ task' \in [Trackers -> [Trials -> [JudgeOperation -> TrialTask]]]
      /\ task'[w][t][o] = new
      /\ \A x \in Trackers, y \in Trials, z \in JudgeOperation :
            x # w \/ y # t \/ z # o => task'[x][y][z] = task[x][y][z]
  BY <1>1, <1>2, <1>3
<1> QED
  BY <1>4 DEF new

LEMMA LeaseReleased ==
    ASSUME TrackerTyped, NEW w \in Trackers, NEW t \in Trials, NEW o \in JudgeOperation,
           Releases(w, t, o)
    PROVE  /\ held' \in [Trials -> [JudgeOperation -> Lease]]
           /\ \A y \in Trials, z \in JudgeOperation :
                 held'[y][z] = held[y][z] \/ (y = t /\ z = o /\ held[y][z].owner = w)
BY DEF TrackerTyped, Releases, Lease

LEMMA LeaseTaken ==
    ASSUME TrackerTyped, NEW w \in Trackers, NEW t \in Trials, NEW o \in JudgeOperation,
           Holds(w, t, o)
    PROVE  /\ held' \in [Trials -> [JudgeOperation -> Lease]]
           /\ held'[t][o] = [owner |-> w, lapsed |-> FALSE]
           /\ \A y \in Trials, z \in JudgeOperation : y # t \/ z # o => held'[y][z] = held[y][z]
BY DEF TrackerTyped, Holds, Lease

-----------------------------------------------------------------------------
(* Sends. *)

\* An attempt of which nobody new sends, and nobody new is overtaken.
LEMMA StillCounted ==
    ASSUME NEW t \in Trials, SendsCounted(t), TrackerTyped,
           transactions'[t] \in Nat, strayed'[t] \in Nat,
           Sending(t)' \subseteq Sending(t), Overtaken(t)' \subseteq Overtaken(t),
           submission'[t].tx = 0 <=> submission[t].tx = 0,
           transactions'[t] + strayed[t] <= transactions[t] + strayed'[t]
    PROVE  SendsCounted(t)'
<1>1. IsFiniteSet(Sending(t)) /\ IsFiniteSet(Overtaken(t))
  BY FS_Subset, Overtaken(t) \subseteq Sending(t) DEF SendsCounted, Overtaken
<1>2. /\ IsFiniteSet(Sending(t)') /\ Cardinality(Sending(t)') <= Cardinality(Sending(t))
      /\ IsFiniteSet(Overtaken(t)') /\ Cardinality(Overtaken(t)') <= Cardinality(Overtaken(t))
  BY <1>1, FS_Subset
<1>3. /\ Cardinality(Sending(t)) \in Nat /\ Cardinality(Sending(t)') \in Nat
      /\ Cardinality(Overtaken(t)) \in Nat /\ Cardinality(Overtaken(t)') \in Nat
  BY <1>1, <1>2, FS_CardinalityType
<1>4. transactions[t] \in Nat /\ strayed[t] \in Nat
  BY DEF TrackerTyped
<1> HIDE DEF Sending, Overtaken
<1> QED
  BY <1>2, <1>3, <1>4 DEF SendsCounted

\* What a step leaves to every worker but w, and to every attempt but t.
LEMMA OthersKeep ==
    ASSUME TrackerInv, NEW w \in Trackers, NEW t \in Trials,
           told \subseteq told',
           \A y \in Trials : transactions'[y] \in Nat /\ transactions[y] <= transactions'[y],
           \A y \in Trials : submission[y].tx # 0 => submission'[y].tx # 0,
           \A x \in Trackers, y \in Trials, z \in JudgeOperation :
              x # w \/ y # t => task'[x][y][z] = task[x][y][z]
    PROVE  \A x \in Trackers, y \in Trials : x # w \/ y # t => CopyTrue(x, y)'
<1> SUFFICES ASSUME NEW x \in Trackers, NEW y \in Trials, x # w \/ y # t PROVE CopyTrue(x, y)'
  OBVIOUS
<1>1. CopyTrue(x, y) /\ "submit" \in JudgeOperation /\ "poll" \in JudgeOperation
  BY DEF TrackerInv, JudgeOperation
<1>2. task'[x][y]["submit"] = task[x][y]["submit"] /\ task'[x][y]["poll"] = task[x][y]["poll"]
  BY <1>1
<1>3. /\ transactions[y] \in Nat
      /\ task[x][y]["poll"].copy.tx \in Nat
  BY <1>1 DEF TrackerInv, TrackerTyped, TrialTask, TrialRecord
<1> QED
  BY <1>1, <1>2, <1>3 DEF CopyTrue, RecordTrue

\* The records, the sends and the copies of an attempt nothing was done for.
LEMMA RecordKept ==
    ASSUME TrackerInv, NEW t \in Trials, told \subseteq told',
           transactions'[t] \in Nat, transactions[t] <= transactions'[t],
           submission'[t] = submission[t]
    PROVE  RecordTrue(t, submission[t])'
BY DEF TrackerInv, TrackerTyped, TrialRecord, RecordTrue

-----------------------------------------------------------------------------
(* What a poll does. *)

LEMMA PollKeeps ==
    ASSUME TrackerInv, NEW w \in Trackers, NEW t \in Trials,
           NEW pc \in {"idle", "receipt", "verdict"}, NEW copy \in TrialRecord, NEW record \in TrialRecord,
           Does(w, t, "poll", pc, copy),
           held' \in [Trials -> [JudgeOperation -> Lease]],
           \A y \in Trials : held'[y]["submit"] = held[y]["submit"],
           submission' = [submission EXCEPT ![t] = record],
           record.tx = 0 <=> submission[t].tx = 0,
           record.tx <= transactions[t], record.applied => t \in told',
           pc # "idle" => record.tx # 0 /\ copy.tx # 0 /\ RecordTrue(t, copy),
           told \subseteq told', told' \subseteq Trials,
           progressed' \subseteq {MatchOf[y] : y \in Trials}, ProgressedOnce',
           UNCHANGED <<transactions, judgment, strayed, mishaps>>
    PROVE  TrackerInv'
<1>1. "submit" \in JudgeOperation /\ "poll" \in JudgeOperation
  BY DEF JudgeOperation
<1>2. /\ task' \in [Trackers -> [Trials -> [JudgeOperation -> TrialTask]]]
      /\ task'[w][t]["poll"] = [pc |-> pc, copy |-> copy]
      /\ \A x \in Trackers, y \in Trials, z \in JudgeOperation :
            x # w \/ y # t \/ z # "poll" => task'[x][y][z] = task[x][y][z]
  BY <1>1, TaskAfter DEF TrackerInv
<1>3. /\ submission' \in [Trials -> TrialRecord] /\ submission'[t] = record
      /\ \A y \in Trials : y # t => submission'[y] = submission[y]
  BY DEF TrackerInv, TrackerTyped
<1>4. TrackerTyped'
  BY <1>2, <1>3 DEF TrackerInv, TrackerTyped
<1>5. ASSUME NEW y \in Trials PROVE RecordTrue(y, submission[y])'
  <2>1. CASE y = t
    BY <1>3, <2>1 DEF RecordTrue
  <2>2. CASE y # t
    BY <1>3, <2>2 DEF RecordTrue, TrackerInv
  <2> QED
    BY <2>1, <2>2
<1>6. ASSUME NEW y \in Trials PROVE SendsCounted(y)'
  <2>1. SendsCounted(y) /\ TrackerTyped /\ transactions[y] \in Nat /\ strayed[y] \in Nat
    BY DEF TrackerInv, TrackerTyped
  <2>2. Sending(y)' = Sending(y)
    <3>1. \A x \in Trackers : task'[x][y]["submit"] = task[x][y]["submit"]
      BY <1>1, <1>2
    <3> QED
      BY <3>1 DEF Sending
  <2>3. Overtaken(y)' = Overtaken(y)
    BY <2>2 DEF Overtaken
  <2>4. submission'[y].tx = 0 <=> submission[y].tx = 0
    BY <1>3
  <2> QED
    BY <2>1, <2>2, <2>3, <2>4, StillCounted
<1>7. ASSUME NEW x \in Trackers, NEW y \in Trials PROVE CopyTrue(x, y)'
  <2>1. CASE x # w \/ y # t
    <3>1. \A v \in Trials : transactions'[v] \in Nat /\ transactions[v] <= transactions'[v]
      BY DEF TrackerInv, TrackerTyped
    <3>2. \A v \in Trials : submission[v].tx # 0 => submission'[v].tx # 0
      BY <1>3
    <3>3. \A u \in Trackers, v \in Trials, z \in JudgeOperation :
             u # w \/ v # t => task'[u][v][z] = task[u][v][z]
      BY <1>2
    <3>4. \A u \in Trackers, v \in Trials : u # w \/ v # t => CopyTrue(u, v)'
      BY <3>1, <3>2, <3>3, OthersKeep
    <3> QED
      BY <2>1, <3>4
  <2>2. CASE x = w /\ y = t
    <3>1. task'[w][t]["submit"] = task[w][t]["submit"] /\ CopyTrue(w, t)
      BY <1>1, <1>2 DEF TrackerInv
    <3>2. RecordTrue(t, copy) => RecordTrue(t, copy)'
      BY DEF RecordTrue
    <3>3. /\ task'[w][t]["poll"].pc = pc /\ task'[w][t]["poll"].copy = copy
          /\ submission'[t].tx = record.tx
      BY <1>2, <1>3
    <3>4. CopyTrue(w, t)'
      <4>1. task'[w][t]["submit"].pc \in {"idle", "sending"}
        BY <3>1 DEF CopyTrue
      <4>2. task'[w][t]["poll"].pc # "idle" =>
              /\ submission'[t].tx # 0 /\ task'[w][t]["poll"].copy.tx # 0
              /\ RecordTrue(t, copy)'
        BY <3>2, <3>3
      <4>3. RecordTrue(t, copy)' => RecordTrue(t, task[w][t]["poll"].copy)'
        BY <3>3 DEF RecordTrue
      <4> QED
        BY <4>1, <4>2, <4>3, <3>3 DEF CopyTrue
    <3> QED
      BY <2>2, <3>4
  <2> QED
    BY <2>1, <2>2
<1> QED
  BY <1>4, <1>5, <1>6, <1>7 DEF TrackerInv

\* A poll's copy, and the record it was read from.
LEMMA PollHas ==
    ASSUME TrackerInv, NEW w \in Trackers, NEW t \in Trials
    PROVE  /\ submission[t] \in TrialRecord /\ RecordTrue(t, submission[t]) /\ told \subseteq Trials
           /\ submission = [submission EXCEPT ![t] = submission[t]]
           /\ task[w][t]["poll"].copy \in TrialRecord
           /\ Doing(w, t, "poll") # "idle" =>
                 /\ submission[t].tx # 0 /\ task[w][t]["poll"].copy.tx # 0
                 /\ RecordTrue(t, task[w][t]["poll"].copy)
           /\ held \in [Trials -> [JudgeOperation -> Lease]]
           /\ progressed \subseteq {MatchOf[y] : y \in Trials} /\ ProgressedOnce
           /\ "poll" \in JudgeOperation /\ "submit" \in JudgeOperation /\ TrackerTyped
           /\ NoSubmission \in TrialRecord /\ NoSubmission.tx = 0 /\ NoSubmission.applied = FALSE
BY DEF TrackerInv, TrackerTyped, CopyTrue, Doing, TrialTask, JudgeOperation, NoSubmission, TrialRecord

LEMMA PollReleases ==
    ASSUME TrackerInv, NEW w \in Trackers, NEW t \in Trials, Releases(w, t, "poll")
    PROVE  /\ held' \in [Trials -> [JudgeOperation -> Lease]]
           /\ \A y \in Trials : held'[y]["submit"] = held[y]["submit"]
<1>1. TrackerTyped /\ "poll" \in JudgeOperation /\ "submit" \in JudgeOperation
  BY DEF TrackerInv, JudgeOperation
<1>2. /\ held' \in [Trials -> [JudgeOperation -> Lease]]
      /\ \A y \in Trials, z \in JudgeOperation :
            held'[y][z] = held[y][z] \/ (y = t /\ z = "poll" /\ held[y][z].owner = w)
  BY <1>1, LeaseReleased
<1> QED
  BY <1>1, <1>2

LEMMA KeepsPollTrial ==
    ASSUME TrackerInv, NEW w \in Trackers, NEW t \in Trials, PollTrial(w, t) PROVE TrackerInv'
<1>1. /\ Does(w, t, "poll", "receipt", submission[t]) /\ Holds(w, t, "poll") /\ submission[t].tx # 0
      /\ UNCHANGED <<submission, progressed, transactions, judgment, told, strayed, mishaps>>
  BY DEF PollTrial
<1>2. /\ held' \in [Trials -> [JudgeOperation -> Lease]]
      /\ \A y \in Trials : held'[y]["submit"] = held[y]["submit"]
  <2>1. TrackerTyped /\ "poll" \in JudgeOperation /\ "submit" \in JudgeOperation
    BY DEF TrackerInv, JudgeOperation
  <2>2. /\ held' \in [Trials -> [JudgeOperation -> Lease]]
        /\ \A y \in Trials, z \in JudgeOperation : y # t \/ z # "poll" => held'[y][z] = held[y][z]
    BY <1>1, <2>1, LeaseTaken
  <2> QED
    BY <2>1, <2>2
<1>3. ProgressedOnce'
  BY <1>1, PollHas DEF ProgressedOnce
<1>4. PICK record \in TrialRecord : record = submission[t]
  BY PollHas
<1>5. Does(w, t, "poll", "receipt", record)
  BY <1>1, <1>4
<1>6. RecordTrue(t, record) /\ submission' = [submission EXCEPT ![t] = record]
  BY <1>1, <1>4, PollHas
<1> QED
  BY <1>1, <1>2, <1>3, <1>4, <1>5, <1>6, PollHas, PollKeeps DEF RecordTrue

LEMMA KeepsTrialPending ==
    ASSUME TrackerInv, NEW w \in Trackers, NEW t \in Trials, TrialPending(w, t) PROVE TrackerInv'
<1>1. PICK copy : copy = task[w][t]["poll"].copy
  OBVIOUS
<1>2. PICK finality \in {"FAILED", "PENDING"} : Stores(t, [copy EXCEPT !.state = finality])
  BY <1>1 DEF TrialPending
<1>3. /\ Does(w, t, "poll", "idle", NoSubmission) /\ Releases(w, t, "poll") /\ Doing(w, t, "poll") # "idle"
      /\ UNCHANGED <<progressed, transactions, judgment, told, strayed, mishaps>>
  BY DEF TrialPending
<1>4. PICK record : record = [copy EXCEPT !.state = finality]
  OBVIOUS
<1>5. copy \in TrialRecord /\ copy.tx # 0 /\ RecordTrue(t, copy) /\ submission[t].tx # 0
  BY <1>1, <1>3, PollHas
<1>6. record \in TrialRecord /\ record.tx = copy.tx /\ record.applied = copy.applied
  BY <1>4, <1>5 DEF TrialRecord
<1>7. submission' = [submission EXCEPT ![t] = record]
  BY <1>2, <1>4 DEF Stores
<1>8. ProgressedOnce'
  BY <1>3, PollHas DEF ProgressedOnce
<1> QED
  BY <1>3, <1>5, <1>6, <1>7, <1>8, PollHas, PollReleases, PollKeeps DEF RecordTrue

LEMMA KeepsTrialFinal ==
    ASSUME TrackerInv, NEW w \in Trackers, NEW t \in Trials, TrialFinal(w, t) PROVE TrackerInv'
<1>1. PICK copy : copy = task[w][t]["poll"].copy
  OBVIOUS
<1>2. /\ Does(w, t, "poll", "verdict", copy) /\ Doing(w, t, "poll") # "idle"
      /\ UNCHANGED <<submission, progressed, held, transactions, judgment, told, strayed, mishaps>>
  BY <1>1 DEF TrialFinal
<1>3. copy \in TrialRecord /\ copy.tx # 0 /\ RecordTrue(t, copy) /\ submission[t].tx # 0
  BY <1>1, <1>2, PollHas
<1>4. ProgressedOnce'
  BY <1>2, PollHas DEF ProgressedOnce
<1>5. submission' = [submission EXCEPT ![t] = submission[t]]
  BY <1>2, PollHas
<1>6. PICK record \in TrialRecord : record = submission[t]
  BY PollHas
<1> QED
  BY <1>2, <1>3, <1>4, <1>5, <1>6, PollHas, PollKeeps DEF RecordTrue

LEMMA KeepsTrialJudged ==
    ASSUME TrackerInv, NEW w \in Trackers, NEW t \in Trials, TrialJudged(w, t) PROVE TrackerInv'
<1>1. PICK copy : copy = task[w][t]["poll"].copy
  OBVIOUS
<1>2. PICK applied \in BOOLEAN : applied = Applies(t, copy)
  BY DEF Applies
<1>3. /\ Does(w, t, "poll", "idle", NoSubmission) /\ Releases(w, t, "poll") /\ Doing(w, t, "poll") # "idle"
      /\ UNCHANGED <<transactions, judgment, strayed, mishaps>>
  BY DEF TrialJudged
<1>4. /\ progressed' = IF judgment[t] \in Winner /\ ~copy.applied
                       THEN progressed \cup {MatchOf[t]} ELSE progressed
      /\ told' = IF applied THEN told \cup {t} ELSE told
  BY <1>1, <1>2 DEF TrialJudged
<1>5. PICK record : record = [copy EXCEPT !.state = "FINALIZED", !.result = judgment[t], !.applied = applied]
  OBVIOUS
<1>6. submission' = [submission EXCEPT ![t] = record]
  BY <1>1, <1>2, <1>5 DEF TrialJudged, Stores
<1>7. copy \in TrialRecord /\ copy.tx # 0 /\ RecordTrue(t, copy) /\ submission[t].tx # 0
  BY <1>1, <1>3, PollHas
<1>8. judgment[t] \in Judgment \cup {"none"}
  BY DEF TrackerInv, TrackerTyped
<1>9. record \in TrialRecord /\ record.tx = copy.tx /\ record.applied = applied
  BY <1>5, <1>7, <1>8 DEF TrialRecord
<1>10. /\ told \subseteq told' /\ told' \subseteq Trials /\ (applied => t \in told')
       /\ progressed' \subseteq {MatchOf[y] : y \in Trials}
  BY <1>4, PollHas
<1>11. ProgressedOnce'
  <2>1. CASE applied /\ t \notin told
    <3>1. ~copy.applied /\ judgment[t] \in Winner /\ MatchOf[t] \notin progressed
      BY <2>1, <1>2, <1>7 DEF Applies, RecordTrue
    <3>2. told' = told \cup {t} /\ progressed' = progressed \cup {MatchOf[t]}
      BY <2>1, <3>1, <1>4
    <3>3. \A s \in told : judgment[s] \in Winner /\ MatchOf[s] \in progressed /\ MatchOf[s] # MatchOf[t]
      BY <3>1, PollHas DEF ProgressedOnce
    <3> QED
      BY <3>1, <3>2, <3>3, <1>3, PollHas DEF ProgressedOnce
  <2>2. CASE ~applied \/ t \in told
    <3>1. told' = told /\ progressed \subseteq progressed'
      BY <2>2, <1>4
    <3> QED
      BY <3>1, <1>3, PollHas DEF ProgressedOnce
  <2> QED
    BY <2>1, <2>2
<1> QED
  BY <1>3, <1>6, <1>7, <1>9, <1>10, <1>11, PollHas, PollReleases, PollKeeps DEF RecordTrue

LEMMA KeepsPollFails ==
    ASSUME TrackerInv, NEW w \in Trackers, NEW t \in Trials, PollFails(w, t) PROVE TrackerInv'
<1>1. /\ Does(w, t, "poll", "idle", NoSubmission) /\ Releases(w, t, "poll")
      /\ UNCHANGED <<submission, progressed, transactions, judgment, told, strayed, mishaps>>
  BY DEF PollFails
<1>2. ProgressedOnce'
  BY <1>1, PollHas DEF ProgressedOnce
<1>3. submission' = [submission EXCEPT ![t] = submission[t]]
  BY <1>1, PollHas
<1>4. PICK record \in TrialRecord : record = submission[t]
  BY PollHas
<1> QED
  BY <1>1, <1>2, <1>3, <1>4, PollHas, PollReleases, PollKeeps DEF RecordTrue

-----------------------------------------------------------------------------
(* What a submission does. *)

\* Only the sends of t, the task w has for it and its lease change.
LEMMA SubmitKeeps ==
    ASSUME TrackerInv, NEW w \in Trackers, NEW t \in Trials,
           NEW pc \in {"idle", "sending"}, Does(w, t, "submit", pc, NoSubmission),
           held' \in [Trials -> [JudgeOperation -> Lease]],
           \A y \in Trials : y # t => held'[y]["submit"] = held[y]["submit"],
           submission' \in [Trials -> TrialRecord],
           \A y \in Trials : y # t => submission'[y] = submission[y],
           submission[t].tx # 0 => submission'[t].tx # 0, RecordTrue(t, submission[t])',
           transactions' \in [Trials -> Nat], strayed' \in [Trials -> Nat],
           \A y \in Trials : y # t => transactions'[y] = transactions[y] /\ strayed'[y] = strayed[y],
           transactions[t] <= transactions'[t], mishaps' \in 0..MaxMishaps, SendsCounted(t)',
           UNCHANGED <<progressed, judgment, told>>
    PROVE  TrackerInv'
<1>1. "submit" \in JudgeOperation /\ "poll" \in JudgeOperation /\ TrackerTyped
  BY DEF JudgeOperation, TrackerInv
<1>2. /\ task' \in [Trackers -> [Trials -> [JudgeOperation -> TrialTask]]]
      /\ task'[w][t]["submit"].pc = pc
      /\ \A x \in Trackers, y \in Trials, z \in JudgeOperation :
            x # w \/ y # t \/ z # "submit" => task'[x][y][z] = task[x][y][z]
  <2>1. NoSubmission \in TrialRecord /\ pc \in {"idle", "sending", "receipt", "verdict"}
    BY PollHas
  <2>2. /\ task' \in [Trackers -> [Trials -> [JudgeOperation -> TrialTask]]]
        /\ task'[w][t]["submit"] = [pc |-> pc, copy |-> NoSubmission]
        /\ \A x \in Trackers, y \in Trials, z \in JudgeOperation :
              x # w \/ y # t \/ z # "submit" => task'[x][y][z] = task[x][y][z]
    BY <1>1, <2>1, TaskAfter
  <2> QED
    BY <2>2
<1>3. \A y \in Trials : transactions'[y] \in Nat /\ transactions[y] <= transactions'[y]
  <2>1. transactions \in [Trials -> Nat]
    BY <1>1 DEF TrackerTyped
  <2>2. ASSUME NEW y \in Trials PROVE transactions'[y] \in Nat /\ transactions[y] <= transactions'[y]
    <3>1. CASE y = t
      BY <3>1
    <3>2. CASE y # t
      BY <2>1, <3>2
    <3> QED
      BY <3>1, <3>2
  <2> QED
    BY <2>2
<1>4. TrackerTyped' /\ ProgressedOnce'
  BY <1>1, <1>2 DEF TrackerInv, TrackerTyped, ProgressedOnce
<1>5. ASSUME NEW y \in Trials PROVE RecordTrue(y, submission[y])'
  <2>1. CASE y # t
    BY <1>3, <2>1, RecordKept
  <2> QED
    BY <2>1
<1>6. ASSUME NEW y \in Trials PROVE SendsCounted(y)'
  <2>1. CASE y # t
    <3>1. SendsCounted(y) /\ transactions[y] \in Nat /\ strayed[y] \in Nat
      BY <1>1 DEF TrackerInv, TrackerTyped
    <3>2. Sending(y)' = Sending(y)
      BY <1>1, <1>2, <2>1 DEF Sending
    <3>3. Overtaken(y)' = Overtaken(y)
      BY <2>1, <3>2 DEF Overtaken
    <3> QED
      BY <1>1, <2>1, <3>1, <3>2, <3>3, StillCounted
  <2> QED
    BY <2>1
<1>7. ASSUME NEW x \in Trackers, NEW y \in Trials PROVE CopyTrue(x, y)'
  <2>1. CASE x # w \/ y # t
    <3>1. \A v \in Trials : submission[v].tx # 0 => submission'[v].tx # 0
      OBVIOUS
    <3>2. \A u \in Trackers, v \in Trials, z \in JudgeOperation :
             u # w \/ v # t => task'[u][v][z] = task[u][v][z]
      BY <1>2
    <3>3. \A u \in Trackers, v \in Trials : u # w \/ v # t => CopyTrue(u, v)'
      BY <1>3, <3>1, <3>2, OthersKeep
    <3> QED
      BY <2>1, <3>3
  <2>2. CASE x = w /\ y = t
    <3>1. task'[w][t]["poll"] = task[w][t]["poll"] /\ CopyTrue(w, t)
      BY <1>1, <1>2 DEF TrackerInv
    <3>2. transactions[t] \in Nat /\ transactions'[t] \in Nat /\ task[w][t]["poll"].copy.tx \in Nat
      BY <1>1 DEF TrackerTyped, TrialTask, TrialRecord
    <3>3. CopyTrue(w, t)'
      BY <1>2, <3>1, <3>2 DEF CopyTrue, RecordTrue
    <3> QED
      BY <2>2, <3>3
  <2> QED
    BY <2>1, <2>2
<1> QED
  BY <1>4, <1>5, <1>6, <1>7 DEF TrackerInv

\* The workers that send, when w begins or ends a send of t.
LEMMA SendingAfter ==
    ASSUME TrackerInv, NEW w \in Trackers, NEW t \in Trials,
           NEW pc \in {"idle", "sending"}, Does(w, t, "submit", pc, NoSubmission)
    PROVE  Sending(t)' = IF pc = "sending" THEN Sending(t) \cup {w} ELSE Sending(t) \ {w}
<1>1. /\ "submit" \in JudgeOperation /\ TrackerTyped /\ NoSubmission \in TrialRecord
      /\ pc \in {"idle", "sending", "receipt", "verdict"}
  BY PollHas
<1>2. /\ task'[w][t]["submit"] = [pc |-> pc, copy |-> NoSubmission]
      /\ \A x \in Trackers, y \in Trials, z \in JudgeOperation :
            x # w \/ y # t \/ z # "submit" => task'[x][y][z] = task[x][y][z]
  BY <1>1, TaskAfter
<1> QED
  BY <1>1, <1>2 DEF Sending

\* At most one worker sends on a lease of its own.
LEMMA OneLawful ==
    ASSUME TrackerInv, NEW t \in Trials
    PROVE  /\ IsFiniteSet(Sending(t)) /\ IsFiniteSet(Overtaken(t))
           /\ Cardinality(Sending(t)) \in Nat /\ Cardinality(Overtaken(t)) \in Nat
           /\ Cardinality(Sending(t)) <= Cardinality(Overtaken(t)) + 1
<1>1. IsFiniteSet(Sending(t)) /\ Overtaken(t) \subseteq Sending(t)
  BY DEF TrackerInv, SendsCounted, Overtaken
<1>2. IsFiniteSet(Overtaken(t))
  BY <1>1, FS_Subset
<1>3. Cardinality(Sending(t)) \in Nat /\ Cardinality(Overtaken(t)) \in Nat
  BY <1>1, <1>2, FS_CardinalityType
<1>4. PICK x : x = held[t]["submit"].owner
  OBVIOUS
<1>5. Sending(t) \subseteq Overtaken(t) \cup {x}
  BY <1>4 DEF Overtaken
<1>6. /\ IsFiniteSet(Overtaken(t) \cup {x})
      /\ Cardinality(Overtaken(t) \cup {x}) <= Cardinality(Overtaken(t)) + 1
  BY <1>2, <1>3, FS_AddElement
<1>7. Cardinality(Sending(t)) <= Cardinality(Overtaken(t) \cup {x}) /\ Cardinality(Overtaken(t) \cup {x}) \in Nat
  BY <1>5, <1>6, FS_Subset, FS_CardinalityType
<1> QED
  BY <1>1, <1>2, <1>3, <1>6, <1>7

LEMMA KeepsSubmitTrial ==
    ASSUME TrackerInv, NEW w \in Trackers, NEW t \in Trials, SubmitTrial(w, t) PROVE TrackerInv'
<1>1. /\ Does(w, t, "submit", "sending", NoSubmission) /\ Holds(w, t, "submit")
      /\ task[w][t]["submit"].pc = "idle" /\ submission[t].tx = 0
      /\ held[t]["submit"] = Unheld \/ held[t]["submit"].lapsed
      /\ UNCHANGED <<progressed, transactions, judgment, told, strayed, mishaps>>
  BY DEF SubmitTrial, MayHold, Doing, Unsent
<1>2. "submit" \in JudgeOperation /\ TrackerTyped
  BY PollHas
<1>3. PICK record : record = [NoSubmission EXCEPT !.state = "SUBMISSION_PERSISTED"]
  OBVIOUS
<1>4. record \in TrialRecord /\ record.tx = 0 /\ record.applied = FALSE
  BY <1>3 DEF NoSubmission, TrialRecord
<1>5. submission' = [submission EXCEPT ![t] = record]
  BY <1>3 DEF SubmitTrial, Stores
<1>6. /\ submission' \in [Trials -> TrialRecord] /\ submission'[t] = record
      /\ \A y \in Trials : y # t => submission'[y] = submission[y]
  BY <1>2, <1>4, <1>5 DEF TrackerTyped
<1>7. /\ held' \in [Trials -> [JudgeOperation -> Lease]]
      /\ held'[t]["submit"] = [owner |-> w, lapsed |-> FALSE]
      /\ \A y \in Trials : y # t => held'[y]["submit"] = held[y]["submit"]
  BY <1>1, <1>2, LeaseTaken
<1>8. /\ transactions' \in [Trials -> Nat] /\ strayed' \in [Trials -> Nat] /\ mishaps' \in 0..MaxMishaps
      /\ transactions[t] \in Nat /\ transactions'[t] = transactions[t] /\ strayed'[t] = strayed[t]
  BY <1>1, <1>2 DEF TrackerTyped
<1>9. SendsCounted(t)'
  <2>1. Sending(t)' = Sending(t) \cup {w} /\ w \notin Sending(t)
    BY <1>1, SendingAfter DEF Sending
  <2>2. Overtaken(t) = Sending(t)
    BY <1>1, JudgeTrackerAssumption DEF Overtaken, Unheld, Sending
  <2>3. Overtaken(t)' = Sending(t)
    <3>1. \A x : [owner |-> x, lapsed |-> FALSE].owner = x
      OBVIOUS
    <3>2. ASSUME NEW x PROVE held'[t]["submit"] = [owner |-> x, lapsed |-> FALSE] <=> x = w
      <4>1. held'[t]["submit"] = [owner |-> x, lapsed |-> FALSE] => held'[t]["submit"].owner = x
        BY <3>1, Zenon
      <4>2. held'[t]["submit"].owner = w
        BY <1>7, <3>1, Zenon
      <4> QED
        BY <4>1, <4>2, <1>7
    <3>3. Overtaken(t)' = {x \in Sending(t)' : x # w}
      BY <3>2 DEF Overtaken
    <3> QED
      BY <2>1, <3>3
  <2>4. SendsCounted(t) /\ IsFiniteSet(Sending(t)')
    BY <2>1, FS_AddElement DEF TrackerInv, SendsCounted
  <2> QED
    BY <2>2, <2>3, <2>4, <1>1, <1>4, <1>6, <1>8 DEF SendsCounted
<1>10. RecordTrue(t, submission[t])'
  BY <1>4, <1>6, <1>8 DEF RecordTrue
<1> QED
  BY <1>1, <1>6, <1>7, <1>8, <1>9, <1>10, SubmitKeeps

LEMMA KeepsTrialSubmitted ==
    ASSUME TrackerInv, NEW w \in Trackers, NEW t \in Trials, TrialSubmitted(w, t) PROVE TrackerInv'
<1>1. /\ Does(w, t, "submit", "idle", NoSubmission) /\ Releases(w, t, "submit")
      /\ task[w][t]["submit"].pc = "sending"
      /\ transactions' = [transactions EXCEPT ![t] = @ + 1]
      /\ UNCHANGED <<progressed, judgment, told, strayed, mishaps>>
  BY DEF TrialSubmitted, Doing
<1>2. "submit" \in JudgeOperation /\ TrackerTyped
  BY PollHas
<1>3. PICK record : record = [NoSubmission EXCEPT !.state = "SUBMITTED", !.tx = transactions[t] + 1]
  OBVIOUS
<1>4. /\ transactions[t] \in Nat /\ transactions'[t] = transactions[t] + 1
      /\ transactions' \in [Trials -> Nat] /\ strayed' \in [Trials -> Nat] /\ strayed[t] \in Nat
      /\ \A y \in Trials : y # t => transactions'[y] = transactions[y] /\ strayed'[y] = strayed[y]
      /\ mishaps' \in 0..MaxMishaps /\ strayed'[t] = strayed[t]
  BY <1>1, <1>2 DEF TrackerTyped
<1>5. record \in TrialRecord /\ record.tx = transactions[t] + 1 /\ record.applied = FALSE
  BY <1>3, <1>4 DEF NoSubmission, TrialRecord
<1>6. submission' = [submission EXCEPT ![t] = record]
  BY <1>3 DEF TrialSubmitted, Stores
<1>7. /\ submission' \in [Trials -> TrialRecord] /\ submission'[t] = record
      /\ \A y \in Trials : y # t => submission'[y] = submission[y]
  BY <1>2, <1>5, <1>6 DEF TrackerTyped
<1>8. /\ held' \in [Trials -> [JudgeOperation -> Lease]]
      /\ \A y \in Trials : y # t => held'[y]["submit"] = held[y]["submit"]
  BY <1>1, <1>2, LeaseReleased
<1>9. SendsCounted(t)'
  <2>1. Sending(t)' = Sending(t) \ {w} /\ w \in Sending(t)
    BY <1>1, SendingAfter DEF Sending
  <2>2. /\ IsFiniteSet(Sending(t)) /\ Cardinality(Sending(t)) \in Nat /\ Cardinality(Overtaken(t)) \in Nat
        /\ Cardinality(Sending(t)) <= Cardinality(Overtaken(t)) + 1
    BY OneLawful
  <2>3. IsFiniteSet(Sending(t)') /\ Cardinality(Sending(t)') = Cardinality(Sending(t)) - 1
    BY <2>1, <2>2, FS_RemoveElement
  <2>4. SendsCounted(t) /\ submission'[t].tx # 0
    BY <1>4, <1>5, <1>7 DEF TrackerInv
  <2> QED
    BY <2>2, <2>3, <2>4, <1>4 DEF SendsCounted
<1>10. RecordTrue(t, submission[t])'
  BY <1>4, <1>5, <1>7 DEF RecordTrue
<1>11. submission'[t].tx # 0 /\ transactions[t] <= transactions'[t]
  BY <1>4, <1>5, <1>7
<1> QED
  BY <1>1, <1>4, <1>7, <1>8, <1>9, <1>10, <1>11, SubmitKeeps

LEMMA KeepsSubmitFails ==
    ASSUME TrackerInv, NEW w \in Trackers, NEW t \in Trials, SubmitFails(w, t) PROVE TrackerInv'
<1>1. /\ Does(w, t, "submit", "idle", NoSubmission) /\ Releases(w, t, "submit")
      /\ task[w][t]["submit"].pc = "sending" /\ Mishap
      /\ UNCHANGED <<submission, progressed, judgment, told>>
  BY DEF SubmitFails, Doing
<1>2. PICK arrived \in 0..1 :
         /\ transactions' = [transactions EXCEPT ![t] = @ + arrived]
         /\ strayed' = [strayed EXCEPT ![t] = @ + arrived]
  BY DEF SubmitFails
<1>3. "submit" \in JudgeOperation /\ TrackerTyped
  BY PollHas
<1>4. /\ transactions[t] \in Nat /\ transactions'[t] = transactions[t] + arrived
      /\ transactions' \in [Trials -> Nat] /\ strayed' \in [Trials -> Nat]
      /\ strayed[t] \in Nat /\ strayed'[t] = strayed[t] + arrived
      /\ \A y \in Trials : y # t => transactions'[y] = transactions[y] /\ strayed'[y] = strayed[y]
      /\ mishaps' \in 0..MaxMishaps
  BY <1>1, <1>2, <1>3, JudgeTrackerAssumption DEF TrackerTyped, Mishap
<1>5. /\ held' \in [Trials -> [JudgeOperation -> Lease]]
      /\ \A y \in Trials, z \in JudgeOperation :
            held'[y][z] = held[y][z] \/ (y = t /\ z = "submit" /\ held[y][z].owner = w)
  BY <1>1, <1>3, LeaseReleased
<1>6. SendsCounted(t)'
  <2>1. Sending(t)' = Sending(t) \ {w}
    BY <1>1, SendingAfter
  <2>2. Overtaken(t)' \subseteq Overtaken(t)
    BY <2>1, <1>3, <1>5 DEF Overtaken
  <2>3. SendsCounted(t) /\ transactions'[t] + strayed[t] <= transactions[t] + strayed'[t]
    BY <1>4 DEF TrackerInv
  <2> QED
    BY <2>1, <2>2, <2>3, <1>1, <1>3, <1>4, StillCounted
<1>7. RecordTrue(t, submission[t])'
  BY <1>1, <1>4, RecordKept
<1>8. \A y \in Trials : y # t => held'[y]["submit"] = held[y]["submit"]
  BY <1>3, <1>5
<1>9. submission' \in [Trials -> TrialRecord]
  BY <1>1, <1>3 DEF TrackerTyped
<1> QED
  BY <1>1, <1>4, <1>5, <1>6, <1>7, <1>8, <1>9, SubmitKeeps

-----------------------------------------------------------------------------
(* Judgments, ends of workers, lapses. *)

LEMMA KeepsJudge ==
    ASSUME TrackerInv, NEW t \in Trials, Judge(t) PROVE TrackerInv'
<1>1. judgment[t] = "none"
      /\ UNCHANGED <<submission, progressed, held, task, transactions, told, strayed, mishaps>>
  BY DEF Judge
<1>2. PICK verdict \in Judgment : judgment' = [judgment EXCEPT ![t] = verdict]
  BY DEF Judge
<1>3. judgment' \in [Trials -> Judgment \cup {"none"}] /\ \A y \in Trials : y # t => judgment'[y] = judgment[y]
  BY <1>2 DEF TrackerInv, TrackerTyped
<1>4. t \notin told
  BY <1>1 DEF TrackerInv, ProgressedOnce, Winner
<1>5. TrackerTyped' /\ ProgressedOnce'
  BY <1>1, <1>3, <1>4 DEF TrackerInv, TrackerTyped, ProgressedOnce
<1>6. ASSUME NEW y \in Trials PROVE RecordTrue(y, submission[y])' /\ SendsCounted(y)'
  <2>1. RecordTrue(y, submission[y]) /\ SendsCounted(y)
    BY DEF TrackerInv
  <2>2. Sending(y)' = Sending(y) /\ Overtaken(y)' = Overtaken(y)
    BY <1>1 DEF Sending, Overtaken
  <2> QED
    BY <1>1, <2>1, <2>2 DEF RecordTrue, SendsCounted
<1>7. ASSUME NEW w \in Trackers, NEW y \in Trials PROVE CopyTrue(w, y)'
  BY <1>1 DEF TrackerInv, CopyTrue, RecordTrue
<1> QED
  BY <1>5, <1>6, <1>7 DEF TrackerInv

LEMMA KeepsTrackerEnds ==
    ASSUME TrackerInv, NEW w \in Trackers, TrackerEnds(w) PROVE TrackerInv'
<1>1. Mishap /\ UNCHANGED <<submission, held, judgment, told>>
      /\ task' = [task EXCEPT ![w] = [t \in Trials |-> [o \in JudgeOperation |-> NoTask]]]
  BY DEF TrackerEnds
<1>2. PICK arrived \in SUBSET {t \in Trials : Doing(w, t, "submit") = "sending"} :
         /\ transactions' = [t \in Trials |-> transactions[t] + IF t \in arrived THEN 1 ELSE 0]
         /\ strayed' = [t \in Trials |-> strayed[t] + IF t \in arrived THEN 1 ELSE 0]
  BY DEF TrackerEnds
<1>3. TrackerTyped /\ "submit" \in JudgeOperation /\ "poll" \in JudgeOperation
  BY DEF TrackerInv, JudgeOperation
<1>4. /\ transactions' \in [Trials -> Nat] /\ strayed' \in [Trials -> Nat]
      /\ \A t \in Trials : /\ transactions[t] \in Nat /\ strayed[t] \in Nat
                           /\ transactions[t] <= transactions'[t]
                           /\ transactions'[t] + strayed[t] = transactions[t] + strayed'[t]
  BY <1>2, <1>3 DEF TrackerTyped
<1>5. /\ progressed \subseteq progressed' /\ progressed' \subseteq {MatchOf[t] : t \in Trials}
      /\ mishaps' \in 0..MaxMishaps
  BY <1>1, <1>3, JudgeTrackerAssumption DEF TrackerEnds, TrackerTyped, Mishap
<1>6. NoTask \in TrialTask
  BY PollHas DEF NoTask, TrialTask, NoSubmission, TrialRecord
<1>7. /\ task' \in [Trackers -> [Trials -> [JudgeOperation -> TrialTask]]]
      /\ \A t \in Trials, o \in JudgeOperation : task'[w][t][o] = NoTask
      /\ \A x \in Trackers : x # w => task'[x] = task[x]
  BY <1>1, <1>3, <1>6 DEF TrackerTyped
<1>8. TrackerTyped' /\ ProgressedOnce'
  BY <1>1, <1>3, <1>4, <1>5, <1>7 DEF TrackerTyped, ProgressedOnce, TrackerInv
<1>9. ASSUME NEW t \in Trials PROVE RecordTrue(t, submission[t])' /\ SendsCounted(t)'
  <2>1. RecordTrue(t, submission[t])'
    BY <1>1, <1>4, RecordKept
  <2>2. SendsCounted(t)
    BY DEF TrackerInv
  <2>3. Sending(t)' \subseteq Sending(t)
    BY <1>3, <1>7 DEF Sending, NoTask
  <2>4. Overtaken(t)' \subseteq Overtaken(t)
    BY <1>1, <2>3 DEF Overtaken
  <2>5. transactions'[t] + strayed[t] <= transactions[t] + strayed'[t]
    BY <1>4
  <2> QED
    BY <1>1, <1>3, <1>4, <2>1, <2>2, <2>3, <2>4, <2>5, StillCounted
<1>10. ASSUME NEW x \in Trackers, NEW t \in Trials PROVE CopyTrue(x, t)'
  <2>1. CASE x = w
    BY <1>3, <1>7, <2>1 DEF CopyTrue, NoTask
  <2>2. CASE x # w
    <3>1. CopyTrue(x, t) /\ task'[x][t] = task[x][t] /\ task[x][t]["poll"].copy.tx \in Nat
      BY <1>3, <1>7, <2>2 DEF TrackerInv, TrackerTyped, TrialTask, TrialRecord
    <3> QED
      BY <1>1, <1>4, <3>1 DEF CopyTrue, RecordTrue
  <2> QED
    BY <2>1, <2>2
<1> QED
  BY <1>8, <1>9, <1>10 DEF TrackerInv

LEMMA KeepsHoldLapses ==
    ASSUME TrackerInv, NEW t \in Trials, NEW o \in JudgeOperation, HoldLapses(t, o) PROVE TrackerInv'
<1>1. /\ held[t][o] # Unheld /\ ~held[t][o].lapsed
      /\ held' = [held EXCEPT ![t][o].lapsed = TRUE]
      /\ UNCHANGED <<submission, progressed, task, transactions, judgment, told>>
  BY DEF HoldLapses
<1>2. TrackerTyped /\ "submit" \in JudgeOperation /\ "poll" \in JudgeOperation
  BY DEF TrackerInv, JudgeOperation
<1>3. PICK owner \in Trackers : held[t][o] = [owner |-> owner, lapsed |-> FALSE]
  <2>1. held[t][o] \in [owner : Trackers, lapsed : BOOLEAN]
    BY <1>1, <1>2 DEF TrackerTyped, Lease
  <2>2. PICK owner \in Trackers, lapsed \in BOOLEAN : held[t][o] = [owner |-> owner, lapsed |-> lapsed]
    BY <2>1
  <2>3. lapsed = FALSE
    BY <1>1, <2>2
  <2> QED
    BY <2>2, <2>3
<1>4. /\ held' \in [Trials -> [JudgeOperation -> Lease]]
      /\ held'[t][o].lapsed = TRUE
      /\ \A y \in Trials, z \in JudgeOperation : y # t \/ z # o => held'[y][z] = held[y][z]
  BY <1>1, <1>2, <1>3 DEF TrackerTyped, Lease
<1>5. mishaps' \in 0..MaxMishaps
  BY <1>2, JudgeTrackerAssumption DEF HoldLapses, TrackerTyped, Mishap
<1>6. PICK more \in 0..1 :
         /\ more = IF o = "submit" /\ task[owner][t]["submit"].pc # "idle" THEN 1 ELSE 0
         /\ strayed' = [strayed EXCEPT ![t] = @ + more]
  <2>1. CASE o = "submit" /\ task[owner][t]["submit"].pc # "idle"
    BY <1>3, <2>1 DEF HoldLapses, Doing
  <2>2. CASE ~(o = "submit" /\ task[owner][t]["submit"].pc # "idle")
    <3>1. strayed' = strayed
      BY <1>3, <2>2 DEF HoldLapses, Doing
    <3> QED
      BY <1>2, <2>2, <3>1 DEF TrackerTyped
  <2> QED
    BY <2>1, <2>2
<1>7. /\ strayed' \in [Trials -> Nat] /\ strayed[t] \in Nat /\ strayed'[t] = strayed[t] + more
      /\ \A y \in Trials : y # t => strayed'[y] = strayed[y]
  BY <1>2, <1>6 DEF TrackerTyped
<1>8. TrackerTyped' /\ ProgressedOnce'
  BY <1>1, <1>2, <1>4, <1>5, <1>7 DEF TrackerInv, TrackerTyped, ProgressedOnce
<1>9. ASSUME NEW y \in Trials PROVE RecordTrue(y, submission[y])' /\ SendsCounted(y)'
  <2>1. RecordTrue(y, submission[y]) /\ SendsCounted(y) /\ transactions[y] \in Nat
    BY <1>2 DEF TrackerInv, TrackerTyped
  <2>2. Sending(y)' = Sending(y)
    BY <1>1 DEF Sending
  <2>3. CASE y = t /\ o = "submit" /\ more = 1
    <3>1. Overtaken(t)' \subseteq Overtaken(t) \cup {owner}
      BY <1>3, <1>4, <2>2, <2>3 DEF Overtaken
    <3>2. /\ IsFiniteSet(Overtaken(t)) /\ Cardinality(Overtaken(t)) \in Nat
          /\ Cardinality(Sending(t)) \in Nat
      BY OneLawful
    <3>3. /\ IsFiniteSet(Overtaken(t) \cup {owner}) /\ Cardinality(Overtaken(t) \cup {owner}) \in Nat
          /\ Cardinality(Overtaken(t) \cup {owner}) <= Cardinality(Overtaken(t)) + 1
      <4>1. /\ IsFiniteSet(Overtaken(t) \cup {owner})
            /\ Cardinality(Overtaken(t) \cup {owner}) =
                 IF owner \in Overtaken(t) THEN Cardinality(Overtaken(t)) ELSE Cardinality(Overtaken(t)) + 1
        BY <3>2, FS_AddElement
      <4> HIDE DEF Overtaken
      <4> QED
        BY <3>2, <4>1
    <3>4. /\ Cardinality(Overtaken(t)') <= Cardinality(Overtaken(t) \cup {owner})
          /\ Cardinality(Overtaken(t)') \in Nat
      BY <3>1, <3>3, FS_Subset, FS_CardinalityType
    <3>5. SendsCounted(t)'
      <4> HIDE DEF Sending, Overtaken
      <4> QED
        BY <1>1, <1>7, <2>1, <2>2, <2>3, <3>2, <3>3, <3>4 DEF SendsCounted
    <3> QED
      BY <1>1, <2>1, <2>3, <3>5 DEF RecordTrue
  <2>4. CASE ~(y = t /\ o = "submit" /\ more = 1)
    <3>1. Overtaken(y)' \subseteq Overtaken(y)
      <4>1. CASE y = t /\ o = "submit"
        <5>1. task[owner][t]["submit"].pc = "idle"
          BY <1>6, <2>4, <4>1
        <5>2. Overtaken(t) = Sending(t)
          <6>1. ASSUME NEW w \in Sending(t) PROVE held[t]["submit"] # [owner |-> w, lapsed |-> FALSE]
            <7>1. w # owner
              BY <5>1 DEF Sending
            <7>2. held[t]["submit"].owner = owner
              BY <1>3, <4>1
            <7> QED
              BY <7>1, <7>2
          <6> QED
            BY <6>1 DEF Overtaken
        <5> QED
          BY <2>2, <4>1, <5>2 DEF Overtaken
      <4>2. CASE ~(y = t /\ o = "submit")
        BY <1>2, <1>4, <2>2, <4>2 DEF Overtaken
      <4> QED
        BY <4>1, <4>2
    <3>2. strayed[y] \in Nat /\ strayed'[y] \in Nat /\ strayed[y] <= strayed'[y]
      <4>1. strayed[y] \in Nat /\ strayed'[y] \in Nat
        BY <1>2, <1>7 DEF TrackerTyped
      <4>2. CASE y = t
        BY <1>7, <4>1, <4>2
      <4>3. CASE y # t
        BY <1>7, <4>1, <4>3
      <4> QED
        BY <4>1, <4>2, <4>3
    <3>3. SendsCounted(y)'
      BY <1>1, <1>2, <2>1, <2>2, <3>1, <3>2, StillCounted
    <3> QED
      BY <1>1, <2>1, <3>3 DEF RecordTrue
  <2> QED
    BY <2>3, <2>4
<1>10. ASSUME NEW w \in Trackers, NEW y \in Trials PROVE CopyTrue(w, y)'
  BY <1>1 DEF TrackerInv, CopyTrue, RecordTrue
<1> QED
  BY <1>8, <1>9, <1>10 DEF TrackerInv

-----------------------------------------------------------------------------

LEMMA TrackerGoesOn == TrackerInv /\ [JudgeTrackerNext]_trackerVars => TrackerInv'
<1> SUFFICES ASSUME TrackerInv, [JudgeTrackerNext]_trackerVars PROVE TrackerInv'
  OBVIOUS
<1>1. CASE \E w \in Trackers, t \in Trials : TrackerStep(w, t)
  BY <1>1, KeepsSubmitTrial, KeepsTrialSubmitted, KeepsSubmitFails, KeepsPollTrial, KeepsTrialPending,
     KeepsTrialFinal, KeepsTrialJudged, KeepsPollFails DEF TrackerStep
<1>2. CASE \E w \in Trackers : TrackerEnds(w)
  BY <1>2, KeepsTrackerEnds
<1>3. CASE \E t \in Trials : Judge(t) \/ \E o \in JudgeOperation : HoldLapses(t, o)
  BY <1>3, KeepsJudge, KeepsHoldLapses
<1>4. CASE UNCHANGED trackerVars
  <2>1. UNCHANGED <<submission, progressed, held, task, transactions, judgment, told, strayed, mishaps>>
    BY <1>4 DEF trackerVars
  <2>2. TrackerTyped' /\ ProgressedOnce'
    BY <2>1 DEF TrackerInv, TrackerTyped, ProgressedOnce
  <2>3. ASSUME NEW t \in Trials PROVE RecordTrue(t, submission[t])' /\ SendsCounted(t)'
    <3>1. Sending(t)' = Sending(t) /\ Overtaken(t)' = Overtaken(t)
      BY <2>1 DEF Sending, Overtaken
    <3> QED
      BY <2>1, <3>1 DEF TrackerInv, RecordTrue, SendsCounted
  <2>4. ASSUME NEW w \in Trackers, NEW t \in Trials PROVE CopyTrue(w, t)'
    BY <2>1 DEF TrackerInv, CopyTrue, RecordTrue
  <2> QED
    BY <2>2, <2>3, <2>4 DEF TrackerInv
<1> QED
  BY <1>1, <1>2, <1>3, <1>4 DEF JudgeTrackerNext

LEMMA TrackedTypeOK ==
    ASSUME TrackerInv
    PROVE  JudgeTrackerTypeOK
<1>1. ASSUME NEW t \in Trials, NEW o \in JudgeOperation
      PROVE  /\ submission[t].state \in {"ABSENT", "SUBMISSION_PERSISTED", "SUBMITTED", "PENDING",
                                         "FAILED", "FINALIZED"}
             /\ submission[t].tx \in 0..transactions[t]
             /\ held[t][o].owner \in Trackers \cup {"nobody"}
  BY DEF TrackerInv, TrackerTyped, TrialRecord, RecordTrue, Lease, Unheld
<1> QED
  BY <1>1 DEF TrackerInv, TrackerTyped, JudgeTrackerTypeOK, JudgeOperation

\* Whatever worker ends, is overtaken or loses a hash, at most one attempt tells its
\* caller to take the match forward, and GenLayer is paid for an attempt once more only
\* for a send whose hash may be lost.
THEOREM TrackedAlwaysOnce == JudgeTrackerSpec => []TrackedOnce
<1>1. TrackerInv => TrackedOnce
  <2> SUFFICES ASSUME TrackerInv PROVE TrackedOnce
    OBVIOUS
  <2>1. ASSUME NEW t \in Trials PROVE transactions[t] <= 1 + strayed[t]
    BY OneLawful DEF TrackerInv, TrackerTyped, SendsCounted
  <2> QED
    BY <2>1, TrackedTypeOK DEF TrackerInv, TrackedOnce, SubmittedOnce
<1> QED
  BY <1>1, TrackerInit, TrackerGoesOn, PTL DEF JudgeTrackerSpec

\* Every submission, lease and judgment is one the tracker makes.
THEOREM TrackerAlwaysTyped == JudgeTrackerSpec => []JudgeTrackerTypeOK
<1>1. TrackerInv => JudgeTrackerTypeOK
  BY TrackedTypeOK
<1> QED
  BY <1>1, TrackerInit, TrackerGoesOn, PTL DEF JudgeTrackerSpec
=============================================================================
