------------------------- MODULE TransactionService -------------------------
(***************************************************************************)
(* The transaction service.  Each thread has at most one open transaction  *)
(* (a thread_local TransactionWrapper).  A store reached during it asks    *)
(* its resource manager for the thread's resource; the first time, the     *)
(* manager creates the resource and enlists itself in the wrapper.  A      *)
(* resource opens one RocksDB transaction per database it writes.  Commit  *)
(* and rollback walk the wrapper's list in the order of enlistment and end *)
(* the databases one by one.                                               *)
(*                                                                         *)
(* The graph databases have no transactions: what is written to them is    *)
(* there at once, and neither commit nor rollback touches it.  RocksDB is  *)
(* external: a Put locks its row until the transaction ends; it waits for  *)
(* another holder for a second, then fails.  Nobody reads the status of a  *)
(* Put or of a Commit.                                                     *)
(***************************************************************************)
EXTENDS Integers, Sequences, FiniteSets

CONSTANTS
    Thread,         \* the threads of the process
    Txn,            \* the transactions opened in its life; a bound
    NoTxn,          \* no transaction
    Resource,       \* the resource managers: account, block, router
    Database,       \* the RocksDB and graph databases
    Graph,          \* those that are librdf graph stores
    Owner,          \* the manager each database belongs to
    Position,       \* the place of each database in its manager's map
    Row,            \* keys
    RowsOf,         \* the rows each thread's handlers write
    Unreliable,     \* databases whose Commit may fail, its status unread
    MayCrash        \* bound: is a crash of the process explored?

ASSUME ServiceAssumption ==
    /\ NoTxn \notin Txn
    /\ Graph \subseteq Database
    /\ Owner \in [Database -> Resource]
    /\ Position \in [Database -> Nat]
    /\ \A d, e \in Database : Position[d] = Position[e] /\ Owner[d] = Owner[e] => d = e
    /\ RowsOf \in [Thread -> SUBSET Row]
    /\ Unreliable \subseteq Database \ Graph
    /\ MayCrash \in BOOLEAN

VARIABLES
    wrapper,        \* each thread's transactionWrapper, by its transaction
    resources,      \* TransactionWrapper::resources of each transaction
    phase,          \* where a thread is in its transaction
    opened,         \* the resources a thread holds (thread_local pointers)
    pending,        \* the uncommitted writes a thread's resources hold
    wanted,         \* the Put a thread is blocked in, waiting for its row
    stored,         \* the databases: who last wrote each row, durably
    asked,          \* history: the writes a transaction's code made
    landed,         \* history: those that became durable
    outcome         \* history: how a transaction ended

vars == <<wrapper, resources, phase, opened, pending, wanted, stored, asked, landed, outcome>>

\* A write is the database and the row it goes to.
Write == Database \X Row
Transactional == (Database \ Graph) \X Row

TypeOK ==
    /\ wrapper \in [Thread -> Txn \cup {NoTxn}]
    /\ resources \in [Txn -> Seq(Resource)]
    /\ phase \in [Thread -> {"idle", "working", "committing", "rollingBack"}]
    /\ opened \in [Thread -> SUBSET Resource]
    /\ pending \in [Thread -> SUBSET Transactional]
    /\ wanted \in [Thread -> SUBSET Transactional]
    /\ stored \in [Write -> Txn \cup {NoTxn}]
    /\ asked \in [Txn -> SUBSET Write]
    /\ landed \in [Txn -> SUBSET Write]
    /\ outcome \in [Txn -> {"none", "open", "committed", "rolledBack", "crashed"}]

Init ==
    /\ wrapper = [t \in Thread |-> NoTxn]
    /\ resources = [x \in Txn |-> <<>>]
    /\ phase = [t \in Thread |-> "idle"]
    /\ opened = [t \in Thread |-> {}]
    /\ pending = [t \in Thread |-> {}]
    /\ wanted = [t \in Thread |-> {}]
    /\ stored = [w \in Write |-> NoTxn]
    /\ asked = [x \in Txn |-> {}]
    /\ landed = [x \in Txn |-> {}]
    /\ outcome = [x \in Txn |-> "none"]

\* RocksDB's row lock: another thread's uncommitted write holds it.
Locked(t, w) == \E u \in Thread \ {t} : w \in pending[u]

\* The databases a thread's resource has a RocksDB transaction on.
Begun(t, r) == {d \in Database : Owner[d] = r /\ \E k \in Row : <<d, k>> \in pending[t]}

WritesTo(t, d) == {w \in pending[t] : w[1] = d}

----------------------------------------------------------------------------
(* One transaction, from createTransaction to the end of its scope.        *)

\* A slip in createTransaction: an open transaction is replaced.
CreateTransactionOver(t, x) ==
    /\ phase[t] \in {"idle", "working"}
    /\ outcome[x] = "none"
    /\ wrapper' = [wrapper EXCEPT ![t] = x]
    /\ phase' = [phase EXCEPT ![t] = "working"]
    /\ outcome' = [outcome EXCEPT ![x] = "open"]
    /\ UNCHANGED <<resources, opened, pending, wanted, stored, asked, landed>>

\* createTransaction: a second one on the same thread is refused.
CreateTransaction(t, x) ==
    /\ wrapper[t] = NoTxn
    /\ outcome[x] = "none"
    /\ wrapper' = [wrapper EXCEPT ![t] = x]
    /\ phase' = [phase EXCEPT ![t] = "working"]
    /\ outcome' = [outcome EXCEPT ![x] = "open"]
    /\ UNCHANGED <<resources, opened, pending, wanted, stored, asked, landed>>

\* A slip in getResource: the resource is created and not enlisted.
GetResourceUnlisted(t, r) ==
    /\ phase[t] = "working"
    /\ wanted[t] = {}
    /\ r \notin opened[t]
    /\ opened' = [opened EXCEPT ![t] = @ \cup {r}]
    /\ UNCHANGED <<wrapper, resources, phase, pending, wanted, stored, asked, landed, outcome>>

\* ResourceManager::getResource, which enlists a resource it had to create.
GetResource(t, r) ==
    /\ phase[t] = "working"
    /\ wanted[t] = {}
    /\ r \notin opened[t]
    /\ opened' = [opened EXCEPT ![t] = @ \cup {r}]
    /\ resources' = [resources EXCEPT ![wrapper[t]] = Append(@, r)]
    /\ UNCHANGED <<wrapper, phase, pending, wanted, stored, asked, landed, outcome>>

\* A slip in what a graph session is: its updates wait for the commit.
PutBuffered(t, w) ==
    /\ phase[t] = "working"
    /\ wanted[t] = {}
    /\ Owner[w[1]] \in opened[t]
    /\ w[2] \in RowsOf[t] /\ w \notin asked[wrapper[t]]
    /\ ~Locked(t, w)
    /\ asked' = [asked EXCEPT ![wrapper[t]] = @ \cup {w}]
    /\ pending' = [pending EXCEPT ![t] = @ \cup {w}]
    /\ UNCHANGED <<wrapper, resources, phase, opened, wanted, stored, landed, outcome>>

\* A Put through the resource's RocksDB transaction, or a graph update.  No
\* handler puts a row twice.
Put(t, w) ==
    /\ phase[t] = "working"
    /\ wanted[t] = {}
    /\ Owner[w[1]] \in opened[t]
    /\ w[2] \in RowsOf[t] /\ w \notin asked[wrapper[t]]
    /\ asked' = [asked EXCEPT ![wrapper[t]] = @ \cup {w}]
    /\ \/ /\ w[1] \in Graph
          /\ stored' = [stored EXCEPT ![w] = wrapper[t]]
          /\ landed' = [landed EXCEPT ![wrapper[t]] = @ \cup {w}]
          /\ UNCHANGED <<pending, wanted>>
       \/ /\ w[1] \notin Graph /\ ~Locked(t, w)
          /\ pending' = [pending EXCEPT ![t] = @ \cup {w}]
          /\ UNCHANGED <<wanted, stored, landed>>
       \/ /\ w[1] \notin Graph /\ Locked(t, w)
          /\ wanted' = [wanted EXCEPT ![t] = {w}]
          /\ UNCHANGED <<pending, stored, landed>>
    /\ UNCHANGED <<wrapper, resources, phase, opened, outcome>>

\* A slip around the lock: a Put waits for its row for ever.
PutReturnsUnlocked(t, w) ==
    /\ w \in wanted[t]
    /\ ~Locked(t, w)
    /\ wanted' = [wanted EXCEPT ![t] = {}]
    /\ pending' = [pending EXCEPT ![t] = @ \cup {w}]
    /\ UNCHANGED <<wrapper, resources, phase, opened, stored, asked, landed, outcome>>

\* A Put that waited for its row: the holder ends in time, or the second is
\* over first and the Put fails.
PutReturns(t, w) ==
    /\ w \in wanted[t]
    /\ wanted' = [wanted EXCEPT ![t] = {}]
    /\ \/ ~Locked(t, w) /\ pending' = [pending EXCEPT ![t] = @ \cup {w}]
       \/ Locked(t, w) /\ UNCHANGED pending
    /\ UNCHANGED <<wrapper, resources, phase, opened, stored, asked, landed, outcome>>

\* TransactionImpl::commit, or its rollback: by ~TransactionImpl, when the
\* scope is left by an exception or by a return without commit.
Finish(t) ==
    /\ phase[t] = "working"
    /\ wanted[t] = {}
    /\ \E p \in {"committing", "rollingBack"} : phase' = [phase EXCEPT ![t] = p]
    /\ UNCHANGED <<wrapper, resources, opened, pending, wanted, stored, asked, landed, outcome>>

\* The resource TransactionWrapper's loop is at: the first still open.
Current(t, r) ==
    \E i \in 1 .. Len(resources[wrapper[t]]) :
        /\ resources[wrapper[t]][i] = r
        /\ r \in opened[t]
        /\ \A j \in 1 .. i - 1 : resources[wrapper[t]][j] \notin opened[t]

\* The database of r its transactionMap is at.
First(t, r, d) ==
    /\ d \in Begun(t, r)
    /\ \A e \in Begun(t, r) : Position[d] <= Position[e]

\* Resource::commit, one database of the current resource.
CommitDatabase(t, r, d) ==
    /\ phase[t] = "committing"
    /\ Current(t, r)
    /\ First(t, r, d)
    /\ \/ /\ stored' = [w \in Write |-> IF w \in WritesTo(t, d) THEN wrapper[t] ELSE stored[w]]
          /\ landed' = [landed EXCEPT ![wrapper[t]] = @ \cup WritesTo(t, d)]
       \/ d \in Unreliable /\ UNCHANGED <<stored, landed>>
    /\ pending' = [pending EXCEPT ![t] = @ \ WritesTo(t, d)]
    /\ UNCHANGED <<wrapper, resources, phase, opened, wanted, asked, outcome>>

\* A slip in Resource::rollback: it commits.
RollbackDatabaseCommitting(t, r, d) ==
    /\ phase[t] = "rollingBack"
    /\ Current(t, r)
    /\ First(t, r, d)
    /\ stored' = [w \in Write |-> IF w \in WritesTo(t, d) THEN wrapper[t] ELSE stored[w]]
    /\ landed' = [landed EXCEPT ![wrapper[t]] = @ \cup WritesTo(t, d)]
    /\ pending' = [pending EXCEPT ![t] = @ \ WritesTo(t, d)]
    /\ UNCHANGED <<wrapper, resources, phase, opened, wanted, asked, outcome>>

\* Resource::rollback, one database of the current resource.
RollbackDatabase(t, r, d) ==
    /\ phase[t] = "rollingBack"
    /\ Current(t, r)
    /\ First(t, r, d)
    /\ pending' = [pending EXCEPT ![t] = @ \ WritesTo(t, d)]
    /\ UNCHANGED <<wrapper, resources, phase, opened, wanted, stored, asked, landed, outcome>>

\* ResourceManager::commit or rollback ends: the thread's resource is reset.
ResetResource(t, r) ==
    /\ phase[t] \in {"committing", "rollingBack"}
    /\ Current(t, r)
    /\ Begun(t, r) = {}
    /\ opened' = [opened EXCEPT ![t] = @ \ {r}]
    /\ UNCHANGED <<wrapper, resources, phase, pending, wanted, stored, asked, landed, outcome>>

\* The loop is over: the service resets the wrapper.
ResetWrapper(t) ==
    /\ phase[t] \in {"committing", "rollingBack"}
    /\ \A i \in 1 .. Len(resources[wrapper[t]]) : resources[wrapper[t]][i] \notin opened[t]
    /\ outcome' = [outcome EXCEPT ![wrapper[t]] =
                      IF phase[t] = "committing" THEN "committed" ELSE "rolledBack"]
    /\ wrapper' = [wrapper EXCEPT ![t] = NoTxn]
    /\ phase' = [phase EXCEPT ![t] = "idle"]
    /\ UNCHANGED <<resources, opened, pending, wanted, stored, asked, landed>>

\* The process dies and is started again: RocksDB forgets what is uncommitted.
Crash ==
    /\ MayCrash
    /\ \E t \in Thread : phase[t] # "idle"
    /\ wrapper' = [t \in Thread |-> NoTxn]
    /\ phase' = [t \in Thread |-> "idle"]
    /\ opened' = [t \in Thread |-> {}]
    /\ pending' = [t \in Thread |-> {}]
    /\ wanted' = [t \in Thread |-> {}]
    /\ outcome' = [x \in Txn |-> IF outcome[x] = "open" THEN "crashed" ELSE outcome[x]]
    /\ UNCHANGED <<resources, stored, asked, landed>>

----------------------------------------------------------------------------
\* The end of a transaction once it has begun: no condition from outside.
Ending(t) ==
    \/ \E r \in Resource : \/ \E d \in Database : CommitDatabase(t, r, d) \/ RollbackDatabase(t, r, d)
                           \/ ResetResource(t, r)
    \/ ResetWrapper(t)

Next ==
    \/ \E t \in Thread :
        \/ \E x \in Txn : CreateTransaction(t, x)
        \/ \E r \in Resource : GetResource(t, r)
        \/ \E w \in Write : Put(t, w) \/ PutReturns(t, w)
        \/ Finish(t)
        \/ Ending(t)
    \/ Crash

Spec == Init /\ [][Next]_vars

\* A handler's code comes to its end, a blocked Put returns, the loops run on.
Fairness == \A t \in Thread :
    /\ WF_vars(Finish(t))
    /\ WF_vars(\E w \in Write : PutReturns(t, w))
    /\ WF_vars(Ending(t))
FairSpec == Spec /\ Fairness

----------------------------------------------------------------------------
(* What the service promises the stores.                                   *)

Open == {x \in Txn : outcome[x] = "open"}
Used(x) == {resources[x][i] : i \in 1 .. Len(resources[x])}

\* After commit or rollback a thread is as new: no wrapper that would make its
\* next createTransaction throw, no resource that would be reused without
\* being enlisted, no lock that another thread would wait for.
ThreadReusable ==
    \A t \in Thread :
        /\ phase[t] = "idle" => wrapper[t] = NoTxn /\ opened[t] = {} /\ pending[t] = {} /\ wanted[t] = {}
        /\ phase[t] = "working" => opened[t] = Used(wrapper[t])

\* Every thread has a transaction of its own, and every open transaction a
\* thread that will end it.
OneThreadEach ==
    \A x \in Open : \E t \in Thread :
        /\ wrapper[t] = x
        /\ \A u \in Thread \ {t} : wrapper[u] # x

\* Nothing of a transaction reaches RocksDB before its commit, and nothing at
\* all of one that is rolled back, whatever a crash or a lost lock does.
NothingBeforeCommit ==
    \A x \in Txn : landed[x] \cap Transactional # {} =>
        \/ outcome[x] \in {"committed", "crashed"}
        \/ \E t \in Thread : wrapper[t] = x /\ phase[t] = "committing"

\* A write of x that may be refused, its status unread: another transaction
\* asks for the same row, or the Commit of its database may fail.
Refusable(x, w) == w[1] \in Unreliable \/ \E y \in Txn \ {x} : w \in asked[y]

\* A committed transaction is in the databases whole: every write its code
\* made, in every resource it used, but for those refused one by one; whoever
\* waits for whose rows and whichever commits fail beside it.
CommittedIsWhole ==
    \A x \in Txn : outcome[x] = "committed" =>
        /\ landed[x] \subseteq asked[x]
        /\ \A w \in asked[x] \ landed[x] : Refusable(x, w)

\* v is durable before w is: its resource was enlisted earlier, or it is the
\* same and the map of databases names v's first.
Earlier(x, v, w) ==
    \/ \E i, j \in 1 .. Len(resources[x]) :
          i < j /\ resources[x][i] = Owner[v[1]] /\ resources[x][j] = Owner[w[1]]
    \/ Owner[v[1]] = Owner[w[1]] /\ Position[v[1]] < Position[w[1]]

\* What a crash leaves of a commit is a beginning of it, in the order in which
\* the resources were first used, again but for what was refused.
TornInOrder ==
    \A x \in Txn : \A w \in landed[x] \cap Transactional, v \in asked[x] \cap Transactional :
        Earlier(x, v, w) => v \in landed[x] \/ Refusable(x, v)

\* A thread has a transaction of its own and leaves nothing of it behind.
ThreadsClean == ThreadReusable /\ OneThreadEach

\* A transaction is committed as a whole, and torn only by a crash and in order.
Atomic == CommittedIsWhole /\ TornInOrder

\* No transaction stays open: two threads that wait for each other's rows are
\* let go by the time-out of the lock.
TransactionsEnd == \A x \in Txn : outcome[x] = "open" ~> outcome[x] # "open"

----------------------------------------------------------------------------
(* What makes these properties inductive.  Bound ties a thread to its      *)
(* transaction, Clean what it holds to what it enlisted; Kept says that a  *)
(* write its code made is durable or still held.                           *)

\* A thread is in a transaction exactly when it is not idle; the transaction
\* is open, and no other thread's; one that was never opened is blank.
Bound ==
    /\ \A t \in Thread : phase[t] = "idle" <=> wrapper[t] = NoTxn
    /\ \A t \in Thread : wrapper[t] # NoTxn => outcome[wrapper[t]] = "open"
    /\ \A t, u \in Thread : wrapper[t] # NoTxn /\ wrapper[t] = wrapper[u] => t = u
    /\ \A x \in Txn : outcome[x] = "open" => \E t \in Thread : wrapper[t] = x
    /\ \A x \in Txn : outcome[x] = "none" => resources[x] = <<>> /\ asked[x] = {}

\* A thread holds only what it enlisted, and writes only through what it holds.
Clean ==
    /\ \A t \in Thread : phase[t] = "idle" => opened[t] = {}
    /\ \A t \in Thread : phase[t] # "working" => wanted[t] = {}
    /\ \A t \in Thread : phase[t] = "working" => opened[t] = Used(wrapper[t])
    /\ \A t \in Thread : phase[t] # "idle" => opened[t] \subseteq Used(wrapper[t])
    /\ \A t \in Thread : \A w \in pending[t] \cup wanted[t] : Owner[w[1]] \in opened[t]

\* Holds under any contention and any failure.
ServiceInv == TypeOK /\ Bound /\ Clean /\ NothingBeforeCommit

\* The rows of two threads are apart and no Commit fails.
Calm ==
    /\ Unreliable = {}
    /\ \A t, u \in Thread : t # u => RowsOf[t] \cap RowsOf[u] = {}

\* A write its code made may be missing; in a calm system none is.
Excused(x, w) == ~Calm /\ Refusable(x, w)

\* No Put is lost: what a transaction asked for is durable, still held, waited
\* for, or was refused.
Held(t) == pending[t] \cup wanted[t]
Kept ==
    /\ \A t \in Thread : \A v, w \in wanted[t] : v = w
    /\ Calm => \A t \in Thread : wanted[t] = {} /\ \A w \in pending[t] : w[2] \in RowsOf[t]
    /\ \A t \in Thread : phase[t] \in {"working", "committing"} =>
            \A w \in asked[wrapper[t]] :
                w \in landed[wrapper[t]] \cup Held(t) \/ Excused(wrapper[t], w)
    /\ \A x \in Txn : landed[x] \subseteq asked[x]
    /\ \A t \in Thread : wrapper[t] # NoTxn => Held(t) \subseteq asked[wrapper[t]]

\* A resource is enlisted once.
Once ==
    \A x \in Txn : \A i, j \in 1 .. Len(resources[x]) : resources[x][i] = resources[x][j] => i = j

\* What is committed is whole and what is torn is in order, but for what is excused.
AllLanded ==
    \A x \in Txn : outcome[x] = "committed" =>
        \A w \in asked[x] : w \in landed[x] \/ Excused(x, w)
LandedInOrder ==
    \A x \in Txn : \A w \in landed[x] \cap Transactional, v \in asked[x] \cap Transactional :
        Earlier(x, v, w) => v \in landed[x] \/ Excused(x, v)

\* Holds under any contention and any failure.
WholeInv == ServiceInv /\ Kept /\ Once /\ AllLanded /\ LandedInOrder
=============================================================================
