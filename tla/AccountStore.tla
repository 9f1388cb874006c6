---------------------------- MODULE AccountStore ----------------------------
(***************************************************************************)
(* The account database of one server: a RocksDB table of accounts, and    *)
(* the graph databases that hold the RDF statements about them.  A master  *)
(* account without a parent lives in the base graph, a later master in a   *)
(* graph named after its own hash, every other account in its parent's.    *)
(*                                                                         *)
(* One thread applies change sets, the one that makes blocks; the threads  *)
(* that serve RPC and HTTP only look accounts up and query their graphs.   *)
(* Each has a thread_local AccountResource, whose graph sessions live to   *)
(* the end of the thread's transaction; they share the manager of the      *)
(* graph stores.  The RocksDB part of a change is seen by the others at    *)
(* the commit, the graph part at once, and no rollback takes it back.      *)
(*                                                                         *)
(* The statements about an account are taken together: a graph holds them  *)
(* or it does not.  librdf and RocksDB are external.                       *)
(***************************************************************************)
CONSTANTS
    Account,        \* account hashes
    NoAccount,      \* an empty parent_account_hash
    NoRow,          \* no entry under an account's hash
    BaseGraph,      \* Constants::BASE_GRAPH; other graphs have an account's name
    NoStore,        \* a null AccountGraphStorePtr
    Producer,       \* the thread that applies change sets
    Reader,         \* the threads that only query
    LaterMaster     \* the accounts that may be created as masters with a parent

Thread == Reader \cup {Producer}
Name == Account \cup {BaseGraph}
Row == [parent : Account \cup {NoAccount}, master : BOOLEAN, graph : Name]

ASSUME AccountAssumption ==
    /\ NoAccount \notin Account
    /\ BaseGraph \notin Account
    /\ NoRow \notin Row
    /\ NoStore \notin Name
    /\ Producer \notin Reader
    /\ LaterMaster \subseteq Account

VARIABLES
    rows,           \* accounts_mapping, committed
    pending,        \* the producer's uncommitted rows
    disk,           \* the graph directories that exist
    graphs,         \* AccountGraphStoreManager::graphs
    session,        \* AccountResource::sessionMap of each thread
    content,        \* what each graph database holds
    fresh,          \* history: accounts whose statements the open block persisted
    owed,           \* history: those of committed blocks, not removed since
    early           \* history: masters created before the parent they name

vars == <<rows, pending, disk, graphs, session, content, fresh, owed, early>>

TypeOK ==
    /\ rows \in [Account -> Row \cup {NoRow}]
    /\ pending \in [Account -> Row \cup {NoRow}]
    /\ disk \subseteq Name
    /\ graphs \in [Name -> Name \cup {NoStore}]
    /\ session \in [Thread -> [Name -> Name \cup {NoStore}]]
    /\ content \in [Name -> SUBSET Account]
    /\ fresh \subseteq Account
    /\ owed \subseteq Account
    /\ early \subseteq Account

\* A new AccountGraphStoreManager: the base graph, if it exists.
ManagerOn(d) == [n \in Name |-> IF n = BaseGraph /\ BaseGraph \in d THEN BaseGraph ELSE NoStore]
NoSessions == [n \in Name |-> NoStore]
NoRows == [a \in Account |-> NoRow]

Init ==
    /\ rows = NoRows
    /\ pending = NoRows
    /\ disk = {}
    /\ graphs = ManagerOn({})
    /\ session = [t \in Thread |-> NoSessions]
    /\ content = [n \in Name |-> {}]
    /\ fresh = {}
    /\ owed = {}
    /\ early = {}

----------------------------------------------------------------------------
(* AccountGraphStoreManager and AccountResource.                           *)

\* getAccountInfo in the producer's transaction, which sees its own rows.
InfoOf(a) == IF pending[a] # NoRow THEN pending[a] ELSE rows[a]

\* checkForDb: open already, or there on the disk.
HasDb(n) == graphs[n] # NoStore \/ n \in disk

\* A slip in operator[]: it takes the one store the manager holds.
OpenedAny(g, d, n) == IF g[BaseGraph] # NoStore THEN g[BaseGraph] ELSE IF n \in d THEN n ELSE NoStore

\* The store operator[] returns, given the manager's map and the disk.
Opened(g, d, n) == IF g[n] # NoStore THEN g[n] ELSE IF n \in d THEN n ELSE NoStore

\* What operator[] leaves in the map: a store it had to open is put under the
\* name of the base graph, whatever its own.
Remembered(g, n) == IF g[n] # NoStore THEN g ELSE [g EXCEPT ![BaseGraph] = n]

\* AccountResource::getGraphSession: t's session on n, cached or new, over the
\* map g and the disk d.
SessionOn(t, g, d, n) == IF session[t][n] # NoStore THEN session[t][n] ELSE Opened(g, d, n)
GetGraphSession(t, g, d, n) ==
    /\ session' = [session EXCEPT ![t] = [@ EXCEPT ![n] = SessionOn(t, g, d, n)]]
    /\ graphs' = IF session[t][n] # NoStore THEN g ELSE Remembered(g, n)

----------------------------------------------------------------------------
(* AccountStore.                                                           *)

\* The second half of applyTransaction: the statements about a are persisted
\* or removed through the session on n.
WriteStatements(a, g, d, n) ==
    LET store == SessionOn(Producer, g, d, n) IN
    /\ store # NoStore
    /\ GetGraphSession(Producer, g, d, n)
    /\ \/ /\ content' = [content EXCEPT ![store] = @ \cup {a}]
          /\ fresh' = fresh \cup {a}
          /\ UNCHANGED owed
       \/ /\ content' = [content EXCEPT ![store] = @ \ {a}]
          /\ fresh' = fresh \ {a}
          /\ owed' = owed \ {a}

\* A change set about an account that exists.
ApplyToAccount(a) ==
    /\ InfoOf(a) # NoRow
    /\ WriteStatements(a, graphs, disk, InfoOf(a).graph)
    /\ UNCHANGED <<rows, pending, disk, early>>

\* The genesis block comes first and begins with the top master account.
Founded == \E a \in Account : InfoOf(a) # NoRow

\* createAccount takes a master's parent as it is named, there or not.
NoteParent(a, parent) ==
    early' = IF parent = NoAccount \/ InfoOf(parent) # NoRow THEN early ELSE early \cup {a}

\* A slip in createAccount: it does not ask whether the account exists.
CreateMasterAgain(a, parent) ==
    LET name == IF parent = NoAccount THEN BaseGraph ELSE a
        made == IF HasDb(name) THEN disk ELSE disk \cup {name}
    IN  /\ IF parent = NoAccount THEN TRUE ELSE Founded /\ a \in LaterMaster
        /\ NoteParent(a, parent)
        /\ disk' = made
        /\ pending' = [pending EXCEPT ![a] = [parent |-> parent, master |-> TRUE, graph |-> name]]
        /\ WriteStatements(a, IF HasDb(name) THEN graphs ELSE [graphs EXCEPT ![BaseGraph] = name],
                           made, name)
        /\ UNCHANGED rows

\* A slip in createAccount: a base graph's directory gets the account's name.
CreateMasterMisnamed(a, parent) ==
    LET name == IF parent = NoAccount THEN BaseGraph ELSE a
    IN  /\ InfoOf(a) = NoRow
        /\ IF parent = NoAccount THEN TRUE ELSE Founded /\ a \in LaterMaster
        /\ NoteParent(a, parent)
        /\ disk' = disk \cup {a}
        /\ pending' = [pending EXCEPT ![a] = [parent |-> parent, master |-> TRUE, graph |-> name]]
        /\ WriteStatements(a, [graphs EXCEPT ![BaseGraph] = a], disk \cup {a}, name)
        /\ UNCHANGED rows

\* A change set that creates the master account a.  createStore makes the
\* directory of its graph at once, and puts the store under the base's name.
CreateMaster(a, parent) ==
    LET name == IF parent = NoAccount THEN BaseGraph ELSE a
        made == IF HasDb(name) THEN disk ELSE disk \cup {name}
    IN  /\ InfoOf(a) = NoRow
        /\ IF parent = NoAccount THEN TRUE ELSE Founded /\ a \in LaterMaster
        /\ NoteParent(a, parent)
        /\ disk' = made
        /\ pending' = [pending EXCEPT ![a] = [parent |-> parent, master |-> TRUE, graph |-> name]]
        /\ WriteStatements(a, IF HasDb(name) THEN graphs ELSE [graphs EXCEPT ![BaseGraph] = name],
                           made, name)
        /\ UNCHANGED rows

\* A slip in createAccount: a parent that is not found is the base graph's.
CreateAccountUnchecked(a, parent) ==
    /\ InfoOf(a) = NoRow
    /\ Founded
    /\ LET name == IF InfoOf(parent) = NoRow THEN BaseGraph ELSE InfoOf(parent).graph IN
        /\ pending' = [pending EXCEPT ![a] = [parent |-> parent, master |-> FALSE, graph |-> name]]
        /\ WriteStatements(a, graphs, disk, name)
    /\ UNCHANGED <<rows, disk, early>>

\* A slip in createAccount: the row is written before its graph is named.
CreateAccountUnnamed(a, parent) ==
    /\ InfoOf(a) = NoRow
    /\ InfoOf(parent) # NoRow
    /\ pending' = [pending EXCEPT ![a] = [parent |-> parent, master |-> FALSE, graph |-> NoAccount]]
    /\ WriteStatements(a, graphs, disk, InfoOf(parent).graph)
    /\ UNCHANGED <<rows, disk, early>>

\* A change set that creates any other account, in the graph of its parent.
CreateAccount(a, parent) ==
    /\ InfoOf(a) = NoRow
    /\ InfoOf(parent) # NoRow
    /\ pending' = [pending EXCEPT ![a] = [parent |-> parent, master |-> FALSE,
                                          graph |-> InfoOf(parent).graph]]
    /\ WriteStatements(a, graphs, disk, InfoOf(parent).graph)
    /\ UNCHANGED <<rows, disk, early>>

\* AccountResource::commit at the end of a block.
Commit ==
    /\ rows' = [a \in Account |-> InfoOf(a)]
    /\ pending' = NoRows
    /\ session' = [session EXCEPT ![Producer] = NoSessions]
    /\ owed' = owed \cup fresh
    /\ fresh' = {}
    /\ UNCHANGED <<disk, graphs, content, early>>

\* sparqlQuery and getContract: a reader looks the account up, and queries the
\* session on its graph, which it keeps while its transaction lasts.
Query(t, a) ==
    /\ rows[a] # NoRow
    /\ SessionOn(t, graphs, disk, rows[a].graph) # NoStore
    /\ GetGraphSession(t, graphs, disk, rows[a].graph)
    /\ UNCHANGED <<rows, pending, disk, content, fresh, owed, early>>

\* The end of a reader's transaction.
EndQueries(t) ==
    /\ session' = [session EXCEPT ![t] = NoSessions]
    /\ UNCHANGED <<rows, pending, disk, graphs, content, fresh, owed, early>>

\* The server ends and starts again: it dies, or a change set is refused (no
\* create status, a parent that is not there, any failure of the block).  Of
\* the genesis block that rolls postStart back and main unloads; of a later
\* one the exception leaves the producer's thread and ends the process.
Restart ==
    /\ pending' = NoRows
    /\ graphs' = ManagerOn(disk)
    /\ session' = [t \in Thread |-> NoSessions]
    /\ fresh' = {}
    /\ early' = {a \in early : rows[a] # NoRow}
    /\ UNCHANGED <<rows, disk, content, owed>>

Next ==
    \/ \E a \in Account :
        \/ ApplyToAccount(a)
        \/ \E p \in Account \cup {NoAccount} : CreateMaster(a, p)
        \/ \E p \in Account : CreateAccount(a, p)
        \/ \E t \in Reader : Query(t, a)
    \/ \E t \in Reader : EndQueries(t)
    \/ Commit \/ Restart

Spec == Init /\ [][Next]_vars

----------------------------------------------------------------------------
(* What the account database promises.                                     *)

Accounts == {a \in Account : InfoOf(a) # NoRow}
ParentOf(a) == InfoOf(a).parent
IsMaster(a) == InfoOf(a).master

\* The store t would query now for the graph n.
StoreFor(t, n) == SessionOn(t, graphs, disk, n)

\* The statements about a that committed blocks persisted are there for every
\* thread that has a session on a's graph or would open one.
Seen(a) == \A t \in Thread :
    /\ StoreFor(t, rows[a].graph) # NoStore
    /\ a \in content[StoreFor(t, rows[a].graph)]

\* getGraphSession never meets a graph that is not there (it would follow a
\* null pointer): the graph of every account has a directory, in time for the
\* account's first session and after every restart.
GraphsExist == \A a \in Accounts : InfoOf(a).graph \in disk

\* An account that is no master has a parent in the database and lives in its
\* parent's graph, also while the block that creates either is open.
GraphFollowsParent ==
    \A a \in Accounts : ~IsMaster(a) =>
        /\ ParentOf(a) \in Accounts
        /\ InfoOf(ParentOf(a)).graph = InfoOf(a).graph

\* The parents of an account lead to a master: no accounts but masters are
\* each other's ancestors.  (A set closed under parents would be a cycle.)
MasterReached ==
    \A S \in SUBSET {a \in Accounts : ~IsMaster(a)} :
        (\A a \in S : ParentOf(a) \in S) => S = {}

\* The graphs an account's session asks for are those of its family.
GraphsSound == GraphsExist /\ GraphFollowsParent /\ MasterReached

\* The accounts that were created after the parent they name.
Settled == Accounts \ early

\* buildNodeAccountRouting recurs from parent to child with no check, and for an
\* account that is its own ancestor without end.  Nothing keeps a master from
\* naming itself, or an account that will be created below it; this is the only
\* way there: whatever else is created, committed and lost, every circle of
\* accounts has a master in it that was created before its parent.
RoutingEndsUnlessEarly ==
    \A S \in SUBSET Settled : (\A a \in S : ParentOf(a) \in S) => S = {}

\* What a committed block persisted about an account of a later master's
\* graph is found again, by any thread, whatever is opened in between.
NamedGraphsKeep == \A a \in owed : rows[a].graph # BaseGraph => Seen(a)

\* The same of every account.  Holds while there is no later master.
GraphsKeep == \A a \in owed : Seen(a)

\* Nothing takes an account away or moves it to another graph, once the block
\* that created it is committed.
AccountsPermanent == [][\A a \in Account : rows[a] # NoRow => rows'[a] = rows[a]]_vars

----------------------------------------------------------------------------
(* What makes these properties inductive.                                  *)

\* The manager's map has at most the base graph's name, and if it has it the
\* base graph exists; what it holds under it may be another graph.
MapOver(g, d) ==
    /\ \A n \in Name \ {BaseGraph} : g[n] = NoStore
    /\ g[BaseGraph] # NoStore => g[BaseGraph] \in d /\ BaseGraph \in d

\* The committed rows, taken alone, are closed under parents.
RowsFollow ==
    \A a \in Account : rows[a] # NoRow /\ ~rows[a].master =>
        /\ rows[a].parent \in Account
        /\ rows[rows[a].parent] # NoRow
        /\ rows[rows[a].parent].graph = rows[a].graph

\* A row is put once, and the base graph is older than any account.
RowsOnce ==
    /\ \A a \in Account : pending[a] # NoRow => rows[a] = NoRow
    /\ Accounts # {} => BaseGraph \in disk

\* A session on a named graph is on that graph.
SessionsOwn ==
    \A t \in Thread : \A n \in Name \ {BaseGraph} : session[t][n] \in {NoStore, n}

\* What a block persists is in the named graph before the block is committed.
NamedContent ==
    /\ \A a \in owed : rows[a] # NoRow
    /\ \A a \in fresh : InfoOf(a) # NoRow
    /\ \A a \in owed \cup fresh :
          InfoOf(a).graph # BaseGraph => a \in content[InfoOf(a).graph]

\* The parent of such an account, if there is one, is in the database.
ParentsPresent ==
    /\ \A a \in Settled : ParentOf(a) \in Accounts \cup {NoAccount}
    /\ \A a \in Account \ early : rows[a] # NoRow =>
          \/ rows[a].parent = NoAccount
          \/ rows[a].parent \in Account /\ rows[rows[a].parent] # NoRow

AccountInv ==
    /\ TypeOK
    /\ MapOver(graphs, disk)
    /\ RowsOnce
    /\ RowsFollow
    /\ GraphsExist
    /\ GraphFollowsParent
    /\ MasterReached
    /\ SessionsOwn
    /\ NamedContent

\* Without later masters: everything is in the base graph.
OneGraph ==
    /\ graphs[BaseGraph] \in {NoStore, BaseGraph}
    /\ \A a \in Accounts : InfoOf(a).graph = BaseGraph
    /\ \A a \in Account : rows[a] # NoRow => rows[a].graph = BaseGraph
    /\ \A t \in Thread : session[t][BaseGraph] \in {NoStore, BaseGraph}
    /\ owed \cup fresh \subseteq content[BaseGraph]

\* And who can be whose ancestor.
AncestryInv == AccountInv /\ ParentsPresent /\ RoutingEndsUnlessEarly
=============================================================================
