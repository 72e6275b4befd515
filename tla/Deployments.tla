----------------------------- MODULE Deployments -----------------------------
(***************************************************************************)
(* Contract deployments: the row that records who deployed an address, and *)
(* the chain it has to agree with.  The row is written before the          *)
(* transaction is submitted and is resolved later, by the request itself,  *)
(* by a reader that checks the authorship of the address, or by the sweep  *)
(* of stale rows; each of the three looks at the chain first and writes    *)
(* the row in a later step.                                                *)
(***************************************************************************)
EXTENDS Naturals, FiniteSets

CONSTANTS
    Addresses,      \* addresses to deploy at: one per deployer and nonce
    Versions,       \* the transactions a deployer may sign for one nonce
    Deploys,        \* deployment requests; each creates one row
    Readers,        \* requests that check the authorship of an address
    NoValue,        \* no transaction
    ChainTypes,     \* TARGET_CHAIN_TYPES this instance covers
    BatchLimit      \* SWEEP_BATCH_LIMIT

ASSUME DeploymentAssumption ==
    /\ ChainTypes \subseteq {"zksync-os", "besu"}
    /\ BatchLimit \in Nat \ {0}
    /\ NoValue \notin Addresses \X Versions
    /\ IsFiniteSet(Deploys)

VARIABLES
    chainType,  \* the chain behind the proxy
    chain,      \* what the node knows of each transaction
    deployment, \* contract_deployments, by request
    txOf,       \* the transaction of each request
    before,     \* started_at: the requests whose rows are older
    stale,      \* rows older than DEPLOYMENT_PENDING_TTL_SECONDS
    handler,    \* where recordedDeploy of each request is
    sweep,      \* the cleanup job
    reader,     \* checkContractAuthorship of each reader
    lost        \* history: transactions whose outcome was lost to a fault

deploymentVars == <<chainType, chain, deployment, txOf, before, stale, handler, sweep, reader, lost>>
records == <<chainType, txOf, before, stale>>

DeploymentTxs == Addresses \X Versions
AddressOf(t) == t[1]

DeploymentsTypeOK ==
    /\ chainType \in ChainTypes
    /\ chain \in [DeploymentTxs -> {"none", "pooled", "mined", "reverted", "dropped"}]
    /\ deployment \in [Deploys -> {"none", "pending", "success", "errored", "deleted"}]
    /\ txOf \in [Deploys -> DeploymentTxs \cup {NoValue}]
    /\ before \in [Deploys -> SUBSET Deploys]
    /\ stale \subseteq Deploys
    /\ handler \in [Deploys ->
          {"idle", "submit", "await", "confirmed", "failed", "over"}]
    /\ sweep \in [pc : {"idle", "receipt", "known", "write"},
                  todo : SUBSET Deploys, verdict : {"success", "errored"}]
    /\ sweep.pc = "idle" <=> sweep.todo = {}
    /\ reader \in [Readers -> [pc : {"idle", "receipt", "write"}, todo : SUBSET Deploys]]
    /\ lost \subseteq DeploymentTxs

DeploymentsInit ==
    /\ chainType \in ChainTypes
    /\ chain = [t \in DeploymentTxs |-> "none"]
    /\ deployment = [d \in Deploys |-> "none"]
    /\ txOf = [d \in Deploys |-> NoValue]
    /\ before = [d \in Deploys |-> {}]
    /\ stale = {}
    /\ handler = [d \in Deploys |-> "idle"]
    /\ sweep = [pc |-> "idle", todo |-> {}, verdict |-> "errored"]
    /\ reader = [x \in Readers |-> [pc |-> "idle", todo |-> {}]]
    /\ lost = {}

-----------------------------------------------------------------------------
(* The chain (external)                                                    *)

Included(t) == chain[t] \in {"mined", "reverted"}
Siblings(t) == {u \in DeploymentTxs \ {t} : AddressOf(u) = AddressOf(t)}
NonceUsed(t) == \E u \in Siblings(t) \cup {t} : Included(u)
Known(t) == chain[t] \in {"pooled", "mined", "reverted"}

\* A block takes the transaction, and its nonce; its siblings are dropped.
Include(t) ==
    /\ chain[t] = "pooled"
    /\ \E outcome \in {"mined", "reverted"} :
          chain' = [u \in DeploymentTxs |-> IF u = t THEN outcome
                                            ELSE IF u \in Siblings(t) /\ chain[u] = "pooled"
                                                 THEN "dropped" ELSE chain[u]]
    /\ UNCHANGED <<records, deployment, handler, sweep, reader, lost>>

\* The node forgets a pooled transaction.
Drop(t) ==
    /\ chain[t] = "pooled"
    /\ chain' = [chain EXCEPT ![t] = "dropped"]
    /\ UNCHANGED <<records, deployment, handler, sweep, reader, lost>>

Accepted(t) ==
    /\ ~NonceUsed(t)
    /\ chain' = [chain EXCEPT ![t] = "pooled"]

-----------------------------------------------------------------------------
(* The rows                                                                *)

\* ContractDeploymentsRepository.success: a pending row, once.
Succeed(d) == deployment' = [deployment EXCEPT ![d] = IF @ = "pending" THEN "success" ELSE @]

\* Mutant of Errorable: the row may have succeeded since it was read.
ErrorableResolved(d) == deployment[d] \in {"pending", "success"}

\* The rows ContractDeploymentsRepository.error updates.
Errorable(d) == deployment[d] = "pending"

Fail(d) == deployment' = [deployment EXCEPT ![d] = IF Errorable(d) THEN "errored" ELSE @]

PendingAmong(ds) == {d \in ds : deployment[d] = "pending"}

-----------------------------------------------------------------------------
(* recordedDeploy                                                          *)

\* The row comes first, in a transaction of its own.
BeginDeployment(d, t) ==
    /\ handler[d] = "idle"
    /\ deployment' = [deployment EXCEPT ![d] = "pending"]
    /\ txOf' = [txOf EXCEPT ![d] = t]
    /\ before' = [before EXCEPT ![d] = {e \in Deploys : txOf[e] # NoValue}]
    /\ handler' = [handler EXCEPT ![d] = "submit"]
    /\ UNCHANGED <<chainType, chain, stale, sweep, reader, lost>>

\* Mutant of AfterAccepted: a transaction in the mempool counts as mined.
AfterAcceptedConfirmed == IF chainType = "zksync-os" THEN "await" ELSE "confirmed"

\* eth_sendRawTransactionSync waits for the receipt; eth_sendRawTransaction
\* answers at once, and the row stays pending.
AfterAccepted == IF chainType = "zksync-os" THEN "await" ELSE "over"

SubmitDeployment(d) ==
    /\ handler[d] = "submit"
    /\ \/ /\ Accepted(txOf[d])
          /\ handler' = [handler EXCEPT ![d] = AfterAccepted]
          /\ lost' = lost
       \/ /\ handler' = [handler EXCEPT ![d] = "failed"]
          /\ UNCHANGED <<chain, lost>>
    /\ UNCHANGED <<records, deployment, sweep, reader>>

\* The submission reaches the node and its answer does not come back.
AnswerLost(d) ==
    /\ \/ handler[d] = "submit" /\ Accepted(txOf[d])
       \/ handler[d] = "await" /\ chain' = chain
    /\ handler' = [handler EXCEPT ![d] = "failed"]
    /\ lost' = lost \cup {txOf[d]}
    /\ UNCHANGED <<records, deployment, sweep, reader>>

\* The receipt, of a mined or of a reverted transaction alike; the EIP-7966
\* timeout, which leaves the row pending; or the node's error for a
\* transaction it has dropped.
SyncAnswer(d) ==
    /\ handler[d] = "await"
    /\ \E pc \in {"confirmed", "over", "failed"} :
          /\ pc = "confirmed" => Included(txOf[d])
          /\ pc = "failed" => ~Known(txOf[d])
          /\ handler' = [handler EXCEPT ![d] = pc]
    /\ UNCHANGED <<records, chain, deployment, sweep, reader, lost>>

\* success(); an error it throws is caught as if the submission had failed.
RecordSuccess(d) ==
    /\ handler[d] = "confirmed"
    /\ Succeed(d)
    /\ handler' = [handler EXCEPT ![d] =
                     IF deployment[d] \in {"pending", "success"} THEN "over" ELSE "failed"]
    /\ UNCHANGED <<records, chain, sweep, reader, lost>>

SuccessWriteFails(d) ==
    /\ handler[d] = "confirmed"
    /\ handler' = [handler EXCEPT ![d] = "failed"]
    /\ lost' = lost \cup {txOf[d]}
    /\ UNCHANGED <<records, chain, deployment, sweep, reader>>

\* error(), in the catch block.
RecordError(d) ==
    /\ handler[d] = "failed"
    /\ Fail(d)
    /\ handler' = [handler EXCEPT ![d] = "over"]
    /\ UNCHANGED <<records, chain, sweep, reader, lost>>

\* The process stops, or the write of the error fails: the row stays pending.
Crash(d) ==
    /\ handler[d] \in {"submit", "await", "confirmed", "failed"}
    /\ handler' = [handler EXCEPT ![d] = "over"]
    /\ UNCHANGED <<records, chain, deployment, sweep, reader, lost>>

\* The time to live, an hour, is longer than any request lasts.
Age(d) ==
    /\ deployment[d] = "pending" /\ handler[d] = "over"
    /\ d \notin stale
    /\ stale' = stale \cup {d}
    /\ UNCHANGED <<chainType, chain, deployment, txOf, before, handler, sweep, reader, lost>>

-----------------------------------------------------------------------------
(* sweepStalePendingDeployments                                            *)

\* Mutant of Oldest: the batch is taken from the latest rows.
Youngest(ds) == {d \in ds : Cardinality({e \in ds : d \in before[e]}) < BatchLimit}

Oldest(ds) == {d \in ds : Cardinality(before[d] \cap ds) < BatchLimit}

SweepTo(todo) ==
    sweep' = [sweep EXCEPT !.pc = IF todo = {} THEN "idle" ELSE "receipt",
                           !.todo = todo]
SweepVerdict(v) == sweep' = [sweep EXCEPT !.pc = "write", !.verdict = v]

\* The job is at row d, the oldest that is left.
Sweeping(d, pc) ==
    /\ sweep.pc = pc
    /\ d \in sweep.todo
    /\ before[d] \cap sweep.todo = {}

\* findStalePending
SweepStart ==
    /\ sweep.pc = "idle"
    /\ PendingAmong(stale) # {}
    /\ SweepTo(Oldest(PendingAmong(stale)))
    /\ UNCHANGED <<records, chain, deployment, handler, reader, lost>>

\* deployReceiptContractAddress: null for a reverted transaction.
SweepReceipt(d) ==
    /\ Sweeping(d, "receipt")
    /\ IF chain[txOf[d]] = "mined" THEN SweepVerdict("success")
                                   ELSE sweep' = [sweep EXCEPT !.pc = "known"]
    /\ UNCHANGED <<records, chain, deployment, handler, reader, lost>>

\* Mutant of KeptWaiting: no second lookup, no receipt means gone.
KeptWaitingNever(t) == FALSE

\* Mutant of KeptWaiting: the node's null is taken for a transaction.
KeptWaitingNull(t) == TRUE

\* transactionIsKnown, which also holds of a mined or reverted transaction.
KeptWaiting(t) == Known(t)

SweepKnown(d) ==
    /\ Sweeping(d, "known")
    /\ IF KeptWaiting(txOf[d]) THEN SweepTo(sweep.todo \ {d})
                               ELSE SweepVerdict("errored")
    /\ UNCHANGED <<records, chain, deployment, handler, reader, lost>>

\* A lookup fails: the row is skipped, or the tick is given up.
SweepOutage(d) ==
    /\ Sweeping(d, "receipt") \/ Sweeping(d, "known")
    /\ SweepTo(sweep.todo \ {d}) \/ SweepTo({})
    /\ UNCHANGED <<records, chain, deployment, handler, reader, lost>>

SweepWrite(d) ==
    /\ Sweeping(d, "write")
    /\ IF sweep.verdict = "success" THEN Succeed(d) ELSE Fail(d)
    /\ SweepTo(sweep.todo \ {d})
    /\ UNCHANGED <<records, chain, handler, reader, lost>>

\* deleteErroredBefore, after the retention.
Purge(d) ==
    /\ deployment[d] = "errored"
    /\ deployment' = [deployment EXCEPT ![d] = "deleted"]
    /\ UNCHANGED <<records, chain, handler, sweep, reader, lost>>

-----------------------------------------------------------------------------
(* checkContractAuthorship                                                 *)

RowsAt(a) == {d \in Deploys : txOf[d] # NoValue /\ AddressOf(txOf[d]) = a}

ReadTo(x, todo) ==
    reader' = [reader EXCEPT ![x] = [pc |-> IF todo = {} THEN "idle" ELSE "receipt",
                                     todo |-> todo]]

\* The reader is at row d, the latest that is left.
ReadingAuthorship(x, d, pc) ==
    /\ reader[x].pc = pc
    /\ d \in reader[x].todo
    /\ \A e \in reader[x].todo : d \notin before[e]

\* findByAddress finds none; findAllPendingByAddress.
CheckAuthorship(x, a) ==
    /\ reader[x].pc = "idle"
    /\ \A d \in RowsAt(a) : deployment[d] # "success"
    /\ PendingAmong(RowsAt(a)) # {}
    /\ ReadTo(x, PendingAmong(RowsAt(a)))
    /\ UNCHANGED <<records, chain, deployment, handler, sweep, lost>>

\* The receipt of one pending row; a failed lookup is an outcome like no receipt.
ReconcileReceipt(x, d) ==
    /\ ReadingAuthorship(x, d, "receipt")
    /\ \/ /\ chain[txOf[d]] = "mined"
          /\ reader' = [reader EXCEPT ![x].pc = "write"]
       \/ ReadTo(x, reader[x].todo \ {d})
    /\ UNCHANGED <<records, chain, deployment, handler, sweep, lost>>

\* success(); whether it throws or not, the receipt has proved the authorship.
ReconcileWrite(x, d) ==
    /\ ReadingAuthorship(x, d, "write")
    /\ Succeed(d)
    /\ ReadTo(x, {})
    /\ UNCHANGED <<records, chain, handler, sweep, lost>>

-----------------------------------------------------------------------------
HandlerStep(d) ==
    \/ SubmitDeployment(d)
    \/ SyncAnswer(d)
    \/ RecordSuccess(d)
    \/ RecordError(d)

DeploymentsNext ==
    \/ \E t \in DeploymentTxs : Include(t) \/ Drop(t)
    \/ \E d \in Deploys, t \in DeploymentTxs : BeginDeployment(d, t)
    \/ \E d \in Deploys :
          \/ HandlerStep(d)
          \/ AnswerLost(d)
          \/ SuccessWriteFails(d)
          \/ Crash(d)
          \/ Age(d)
          \/ SweepReceipt(d)
          \/ SweepKnown(d)
          \/ SweepOutage(d)
          \/ SweepWrite(d)
          \/ Purge(d)
    \/ SweepStart
    \/ \E x \in Readers, a \in Addresses : CheckAuthorship(x, a)
    \/ \E x \in Readers, d \in Deploys : ReconcileReceipt(x, d) \/ ReconcileWrite(x, d)

DeploymentsSpec == DeploymentsInit /\ [][DeploymentsNext]_deploymentVars

\* Requests end, rows age, the job runs at its interval, and the node is not
\* out of reach whenever one particular row is looked up.
Fairness ==
    /\ \A d \in Deploys :
          /\ WF_deploymentVars(HandlerStep(d))
          /\ WF_deploymentVars(Age(d))
          /\ SF_deploymentVars(SweepReceipt(d))
          /\ SF_deploymentVars(SweepKnown(d))
          /\ WF_deploymentVars(SweepWrite(d))
    /\ WF_deploymentVars(SweepStart)

FairDeploymentsSpec == DeploymentsSpec /\ Fairness

-----------------------------------------------------------------------------
(* Properties                                                              *)

\* Success is final, and an errored row can only be purged: the request, the
\* readers and the sweep resolve a row once, on whatever they had read before
\* (contract-deployments-repository.ts, success and error).
ResolvedOnce ==
    [][\A d \in Deploys :
         /\ deployment[d] = "success" => deployment'[d] = "success"
         /\ deployment[d] = "errored" => deployment'[d] \in {"errored", "deleted"}]_deploymentVars

\* A mined deployment keeps a row that proves, or will prove, its author, unless
\* the answer of its submission was lost: no timeout, retry, replacement or
\* sweep strips the deployer ("Erroring a mined deploy would permanently strip
\* the deployer's authorship", deployment-cleanup-plugin.ts).
MinedHasAuthor ==
    \A t \in DeploymentTxs \ lost :
        chain[t] = "mined" =>
            \E d \in Deploys : txOf[d] = t /\ deployment[d] \in {"pending", "success"}

\* Authorship is granted for transactions that a block has taken, and on a
\* chain that does not confirm at submission only for those that deployed
\* (SUBMISSION_CONFIRMS_INCLUSION, reconcilePendingDeployment).
SuccessBacked ==
    \A d \in Deploys :
        deployment[d] = "success" => /\ Included(txOf[d])
                                     /\ chainType = "besu" => chain[txOf[d]] = "mined"

\* A batch of older rows that the sweep looks at and keeps, in every tick.
HeldUp(d) ==
    LET kept == {e \in before[d] : /\ e \in stale /\ deployment[e] = "pending"
                                   /\ chain[txOf[e]] \in {"pooled", "reverted"}}
    IN Cardinality(kept) >= BatchLimit

\* "the backlog drains across ticks, oldest rows first"
\* (deployment-cleanup-plugin.ts): also in a backlog larger than a batch, a
\* pending row whose transaction was mined, dropped or never sent is resolved
\* in the end, unless as many older rows as a batch holds are kept waiting.
BacklogDrains ==
    \A d \in Deploys :
        deployment[d] = "pending" /\ chain[txOf[d]] \notin {"pooled", "reverted"}
            ~> \/ deployment[d] # "pending"
               \/ chain[txOf[d]] \in {"pooled", "reverted"}
               \/ HeldUp(d)
=============================================================================
