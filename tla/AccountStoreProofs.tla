------------------------- MODULE AccountStoreProofs -------------------------
(***************************************************************************)
(* Proofs about AccountStore, for any accounts, readers and later masters. *)
(* AccountInv is inductive with no assumption on what change sets name as  *)
(* parents; AncestryInv adds who can be whose ancestor.                    *)
(***************************************************************************)
EXTENDS AccountStore, TLAPS

USE AccountAssumption

\* The manager's map and the disk: what operator[] returns for a graph that
\* exists is there, and for a named graph it is the graph itself.
LEMMA OpenedExists ==
    ASSUME NEW g \in [Name -> Name \cup {NoStore}], NEW d \in SUBSET Name,
           MapOver(g, d), NEW n \in Name, n \in d
    PROVE  /\ Opened(g, d, n) \in d
           /\ n # BaseGraph => Opened(g, d, n) = n
           /\ Remembered(g, n) \in [Name -> Name \cup {NoStore}]
           /\ BaseGraph \in d => MapOver(Remembered(g, n), d)
<1>1. CASE g[n] # NoStore
  <2>1. n = BaseGraph
    BY <1>1 DEF MapOver
  <2>2. QED
    BY <1>1, <2>1 DEF MapOver, Opened, Remembered
<1>2. CASE g[n] = NoStore
  <2>1. Remembered(g, n) = [g EXCEPT ![BaseGraph] = n] /\ Opened(g, d, n) = n
    BY <1>2 DEF Opened, Remembered
  <2>2. BaseGraph \in Name
    BY DEF Name
  <2>3. QED
    BY <2>1, <2>2 DEF MapOver
<1>3. QED
  BY <1>1, <1>2

\* getGraphSession, for a graph that exists: the session is on a store, on the
\* graph itself if it is a named one, and the map stays as it should.
LEMMA SessionStep ==
    ASSUME NEW g \in [Name -> Name \cup {NoStore}], NEW d \in SUBSET Name,
           MapOver(g, d), BaseGraph \in d, NEW n \in Name, n \in d, NEW t \in Thread,
           session \in [Thread -> [Name -> Name \cup {NoStore}]], SessionsOwn,
           GetGraphSession(t, g, d, n)
    PROVE  /\ graphs' \in [Name -> Name \cup {NoStore}]
           /\ MapOver(graphs', d)
           /\ session' \in [Thread -> [Name -> Name \cup {NoStore}]]
           /\ SessionsOwn'
           /\ SessionOn(t, g, d, n) \in Name
           /\ n # BaseGraph => SessionOn(t, g, d, n) = n
<1> DEFINE s == SessionOn(t, g, d, n)
<1>1. session[t] \in [Name -> Name \cup {NoStore}]
  OBVIOUS
<1>2. s \in Name /\ (n # BaseGraph => s = n)
  BY OpenedExists, <1>1 DEF SessionOn, SessionsOwn
<1>3. graphs' \in [Name -> Name \cup {NoStore}] /\ MapOver(graphs', d)
  BY OpenedExists DEF GetGraphSession
<1>4. session' = [session EXCEPT ![t] = [session[t] EXCEPT ![n] = s]]
  BY DEF GetGraphSession
<1>5. session' \in [Thread -> [Name -> Name \cup {NoStore}]]
  <2>1. [session[t] EXCEPT ![n] = s] \in [Name -> Name \cup {NoStore}]
    BY <1>1, <1>2
  <2>2. QED
    BY <1>4, <2>1
<1>6. ASSUME NEW u \in Thread, NEW m \in Name \ {BaseGraph}
      PROVE  session'[u][m] \in {NoStore, m}
  <2>1. CASE u = t /\ m = n
    BY <1>1, <1>2, <1>4, <2>1
  <2>2. CASE ~(u = t /\ m = n)
    BY <1>1, <1>4, <2>2 DEF SessionsOwn
  <2>3. QED
    BY <2>1, <2>2
<1>7. SessionsOwn'
  BY <1>6 DEF SessionsOwn
<1>8. QED
  BY <1>2, <1>3, <1>5, <1>7

\* What applyTransaction does to the graphs, given a map and a disk on which
\* the graph exists: only the account's own statements change, and if they
\* are still due afterwards the account's named graph has them.
LEMMA WriteStep ==
    ASSUME NEW g \in [Name -> Name \cup {NoStore}], NEW d \in SUBSET Name,
           MapOver(g, d), BaseGraph \in d, NEW n \in Name, n \in d, NEW a \in Account,
           TypeOK, SessionsOwn, WriteStatements(a, g, d, n)
    PROVE  /\ graphs' \in [Name -> Name \cup {NoStore}]
           /\ MapOver(graphs', d)
           /\ session' \in [Thread -> [Name -> Name \cup {NoStore}]]
           /\ SessionsOwn'
           /\ content' \in [Name -> SUBSET Account]
           /\ \A b \in Account \ {a}, m \in Name : b \in content[m] => b \in content'[m]
           /\ fresh' \subseteq fresh \cup {a}
           /\ owed' \subseteq owed
           /\ a \in owed' \cup fresh' /\ n # BaseGraph => a \in content'[n]
<1> DEFINE s == SessionOn(Producer, g, d, n)
<1>1. Producer \in Thread
  BY DEF Thread
<1>2. GetGraphSession(Producer, g, d, n)
  BY DEF WriteStatements
<1>3. /\ graphs' \in [Name -> Name \cup {NoStore}]
      /\ MapOver(graphs', d)
      /\ session' \in [Thread -> [Name -> Name \cup {NoStore}]]
      /\ SessionsOwn'
      /\ s \in Name
      /\ n # BaseGraph => s = n
  BY <1>1, <1>2, SessionStep DEF TypeOK
<1> HIDE DEF s
<1>4. content \in [Name -> SUBSET Account] /\ content[s] \in SUBSET Account
  BY <1>3 DEF TypeOK
<1>5. CASE /\ content' = [content EXCEPT ![s] = @ \cup {a}]
           /\ fresh' = fresh \cup {a}
           /\ UNCHANGED owed
  <2>1. content' = [content EXCEPT ![s] = content[s] \cup {a}] /\ content[s] \cup {a} \in SUBSET Account
    BY <1>4, <1>5
  <2>2. content' \in [Name -> SUBSET Account]
    BY <1>3, <1>4, <2>1
  <2>3. \A b \in Account \ {a}, m \in Name : b \in content[m] => b \in content'[m]
    BY <1>3, <1>4, <2>1
  <2>4. n # BaseGraph => a \in content'[n]
    BY <1>3, <1>4, <2>1
  <2>5. QED
    BY <1>3, <1>5, <2>2, <2>3, <2>4
<1>6. CASE /\ content' = [content EXCEPT ![s] = @ \ {a}]
           /\ fresh' = fresh \ {a}
           /\ owed' = owed \ {a}
  <2>1. content' = [content EXCEPT ![s] = content[s] \ {a}] /\ content[s] \ {a} \in SUBSET Account
    BY <1>4, <1>6
  <2>2. content' \in [Name -> SUBSET Account]
    BY <1>3, <1>4, <2>1
  <2>3. \A b \in Account \ {a}, m \in Name : b \in content[m] => b \in content'[m]
    BY <1>3, <1>4, <2>1
  <2>4. a \notin owed' \cup fresh'
    BY <1>6
  <2>5. QED
    BY <1>3, <1>6, <2>2, <2>3, <2>4
<1>7. QED
  BY <1>5, <1>6 DEF WriteStatements, s

\* No nonempty part of A is closed under f.
NoCycle(A, f) == \A S \in SUBSET A : (\A x \in S : f[x] \in S) => S = {}

\* One more account in a set without cycles of parents makes none, if no
\* earlier account's parent is the new one and it is not its own.
LEMMA NoNewCycle ==
    ASSUME NEW A, NEW a, NEW f, NEW h,
           NoCycle(A, f), \A x \in A : h[x] = f[x] /\ f[x] # a, h[a] # a
    PROVE  NoCycle(A \cup {a}, h)
<1> SUFFICES ASSUME NEW S \in SUBSET (A \cup {a}), \A x \in S : h[x] \in S
             PROVE  S = {}
  BY DEF NoCycle
<1> DEFINE T == (S \ {a}) \cap A
<1>1. \A x \in T : f[x] \in T
  <2> SUFFICES ASSUME NEW x \in T PROVE f[x] \in T
    OBVIOUS
  <2>1. h[x] = f[x] /\ f[x] # a /\ h[x] \in S
    OBVIOUS
  <2>2. QED
    BY <2>1
<1>2. T = {}
  BY <1>1 DEF NoCycle
<1>3. S \subseteq {a}
  BY <1>2
<1>4. QED
  BY <1>3

\* The initial state: a server that has never been started.
LEMMA InitInv == Init => AncestryInv
<1> SUFFICES ASSUME Init PROVE AncestryInv
  OBVIOUS
<1> USE DEF Init, NoRows, NoSessions, ManagerOn
<1>1. BaseGraph \in Name
  BY DEF Name
<1>2. Accounts = {}
  BY DEF Accounts, InfoOf
<1>3. TypeOK
  BY <1>1 DEF TypeOK
<1>4. MapOver(graphs, disk)
  BY <1>1 DEF MapOver
<1>5. RowsOnce /\ RowsFollow
  BY <1>2 DEF RowsOnce, RowsFollow
<1>6. GraphsExist /\ GraphFollowsParent /\ ParentsPresent
  BY <1>2 DEF GraphsExist, GraphFollowsParent, ParentsPresent, Settled
<1>7. MasterReached /\ RoutingEndsUnlessEarly
  BY <1>2 DEF MasterReached, RoutingEndsUnlessEarly, Settled
<1>8. SessionsOwn
  BY DEF SessionsOwn
<1>9. NamedContent
  BY DEF NamedContent
<1>10. QED
  BY <1>3, <1>4, <1>5, <1>6, <1>7, <1>8, <1>9 DEF AccountInv, AncestryInv

\* The rows as a whole: their types and the accounts they stand for.
LEMMA Infos ==
    ASSUME TypeOK
    PROVE  /\ Accounts \subseteq Account
           /\ \A a \in Account : InfoOf(a) \in Row \cup {NoRow}
           /\ \A a \in Accounts : /\ InfoOf(a) \in Row
                                  /\ InfoOf(a).graph \in Name
                                  /\ ParentOf(a) \in Account \cup {NoAccount}
                                  /\ IsMaster(a) \in BOOLEAN
<1>1. \A a \in Account : InfoOf(a) \in Row \cup {NoRow}
  BY DEF TypeOK, InfoOf
<1>2. \A a \in Accounts : a \in Account /\ InfoOf(a) \in Row
  BY <1>1 DEF Accounts
<1>3. QED
  BY <1>1, <1>2 DEF Row, ParentOf, IsMaster, Accounts

\* A change set about an account that exists.
LEMMA ApplyInv ==
    ASSUME AccountInv, NEW a \in Account, ApplyToAccount(a)
    PROVE  AccountInv' /\ (AncestryInv => AncestryInv')
<1> USE DEF AccountInv
<1>1. a \in Accounts /\ UNCHANGED <<rows, pending, disk, early>>
  BY DEF ApplyToAccount, Accounts
<1>2. InfoOf(a).graph \in Name /\ InfoOf(a).graph \in disk /\ BaseGraph \in disk
  BY <1>1, Infos DEF GraphsExist, RowsOnce
<1>3. PICK g0, d0, n0 : g0 = graphs /\ d0 = disk /\ n0 = InfoOf(a).graph
  OBVIOUS
<1>4. WriteStatements(a, g0, d0, n0)
  BY <1>3 DEF ApplyToAccount
<1>5. g0 \in [Name -> Name \cup {NoStore}] /\ d0 \in SUBSET Name /\ MapOver(g0, d0)
  BY <1>3 DEF TypeOK
<1>6. /\ graphs' \in [Name -> Name \cup {NoStore}]
      /\ MapOver(graphs', d0)
      /\ session' \in [Thread -> [Name -> Name \cup {NoStore}]]
      /\ SessionsOwn'
      /\ content' \in [Name -> SUBSET Account]
      /\ \A b \in Account \ {a}, m \in Name : b \in content[m] => b \in content'[m]
      /\ fresh' \subseteq fresh \cup {a}
      /\ owed' \subseteq owed
      /\ a \in owed' \cup fresh' /\ n0 # BaseGraph => a \in content'[n0]
  BY <1>2, <1>3, <1>4, <1>5, WriteStep
<1>7. TypeOK'
  BY <1>1, <1>6 DEF TypeOK
<1>8. MapOver(graphs', disk')
  BY <1>1, <1>3, <1>6
<1>9. \A b \in Account : InfoOf(b)' = InfoOf(b)
  BY <1>1 DEF InfoOf
<1>10. Accounts' = Accounts
  BY <1>9 DEF Accounts
<1>11. RowsOnce' /\ RowsFollow' /\ GraphsExist'
  BY <1>1, <1>9, <1>10 DEF RowsOnce, RowsFollow, GraphsExist, Accounts
<1>12. \A b \in Accounts : ParentOf(b)' = ParentOf(b) /\ IsMaster(b)' = IsMaster(b)
  BY <1>9 DEF ParentOf, IsMaster, Accounts
<1>13. GraphFollowsParent'
  BY <1>9, <1>10, <1>12 DEF GraphFollowsParent, Accounts
<1>14. MasterReached'
  BY <1>10, <1>12 DEF MasterReached
<1>15. NamedContent'
  <2>1. owed' \subseteq Account /\ fresh' \subseteq Account
    BY <1>7 DEF TypeOK
  <2>2. \A b \in owed' : rows'[b] # NoRow
    BY <1>1, <1>6 DEF NamedContent
  <2>3. \A b \in fresh' : InfoOf(b)' # NoRow
    BY <1>1, <1>6, <1>9, <2>1 DEF NamedContent, Accounts
  <2>4. ASSUME NEW b \in owed' \cup fresh', InfoOf(b)'.graph # BaseGraph
        PROVE  b \in content'[InfoOf(b)'.graph]
    <3>1. InfoOf(b)' = InfoOf(b)
      BY <1>9, <2>1
    <3>2. CASE b = a
      BY <1>3, <1>6, <2>4, <3>1, <3>2
    <3>3. CASE b # a
      <4>1. b \in owed \cup fresh
        BY <1>6, <3>3
      <4>2. b \in content[InfoOf(b).graph]
        BY <2>4, <3>1, <4>1 DEF NamedContent
      <4>3. b \in Accounts
        BY <1>6, <2>1, <2>2, <2>3, <3>1, <4>1, <1>1 DEF NamedContent, Accounts, InfoOf
      <4>4. InfoOf(b).graph \in Name
        BY <4>3, Infos
      <4>5. QED
        BY <1>6, <2>1, <3>1, <3>3, <4>2, <4>4
    <3>4. QED
      BY <3>2, <3>3
  <2>5. QED
    BY <2>2, <2>3, <2>4 DEF NamedContent
<1>16. AccountInv'
  BY <1>6, <1>7, <1>8, <1>11, <1>13, <1>14, <1>15
<1>17. ParentsPresent /\ RoutingEndsUnlessEarly => ParentsPresent' /\ RoutingEndsUnlessEarly'
  BY <1>1, <1>10, <1>12 DEF ParentsPresent, RoutingEndsUnlessEarly, Settled
<1>18. QED
  BY <1>16, <1>17 DEF AncestryInv

\* createAccount and the statements that come with it, for a row whose graph
\* exists by then and which, if it is no master's, is in its parent's graph.
LEMMA CreateInv ==
    ASSUME AccountInv, NEW a \in Account, NEW r \in Row, NEW d \in SUBSET Name,
           NEW g \in [Name -> Name \cup {NoStore}], MapOver(g, d),
           InfoOf(a) = NoRow, disk \subseteq d, BaseGraph \in d, r.graph \in d,
           ~r.master => r.parent \in Accounts /\ InfoOf(r.parent).graph = r.graph,
           pending' = [pending EXCEPT ![a] = r], rows' = rows, disk' = d,
           early' = IF r.parent \in Accounts \cup {NoAccount} THEN early ELSE early \cup {a},
           WriteStatements(a, g, d, r.graph)
    PROVE  /\ AccountInv'
           /\ ParentsPresent /\ RoutingEndsUnlessEarly
                => ParentsPresent' /\ RoutingEndsUnlessEarly'
<1> USE DEF AccountInv
<1>1. /\ r.graph \in Name
      /\ r.parent \in Account \cup {NoAccount}
      /\ r.master \in BOOLEAN
      /\ r # NoRow
  BY DEF Row
<1>2. /\ graphs' \in [Name -> Name \cup {NoStore}]
      /\ MapOver(graphs', d)
      /\ session' \in [Thread -> [Name -> Name \cup {NoStore}]]
      /\ SessionsOwn'
      /\ content' \in [Name -> SUBSET Account]
      /\ \A b \in Account \ {a}, m \in Name : b \in content[m] => b \in content'[m]
      /\ fresh' \subseteq fresh \cup {a}
      /\ owed' \subseteq owed
      /\ a \in owed' \cup fresh' /\ r.graph # BaseGraph => a \in content'[r.graph]
  BY <1>1, WriteStep
<1>3. TypeOK'
  BY <1>2 DEF TypeOK
<1>4. a \notin Accounts /\ rows[a] = NoRow /\ pending[a] = NoRow
  BY DEF Accounts, InfoOf
<1>5. InfoOf(a)' = r /\ \A b \in Account \ {a} : InfoOf(b)' = InfoOf(b)
  BY <1>1 DEF InfoOf, TypeOK
<1>6. Accounts' = Accounts \cup {a}
  BY <1>1, <1>5 DEF Accounts
<1>7. \A b \in Accounts : /\ InfoOf(b)' = InfoOf(b)
                          /\ ParentOf(b)' = ParentOf(b)
                          /\ IsMaster(b)' = IsMaster(b)
  BY <1>4, <1>5, Infos DEF ParentOf, IsMaster
<1>8. ParentOf(a)' = r.parent /\ IsMaster(a)' = r.master
  BY <1>5 DEF ParentOf, IsMaster
<1>9. RowsOnce'
  <2>1. \A b \in Account : pending'[b] # NoRow => rows'[b] = NoRow
    BY <1>4 DEF RowsOnce, TypeOK
  <2>2. QED
    BY <2>1 DEF RowsOnce
<1>10. RowsFollow'
  BY DEF RowsFollow
<1>11. GraphsExist'
  BY <1>5, <1>6, <1>7 DEF GraphsExist
<1>12. GraphFollowsParent'
  <2>1. ASSUME NEW b \in Accounts', ~IsMaster(b)'
        PROVE  ParentOf(b)' \in Accounts' /\ InfoOf(ParentOf(b))'.graph = InfoOf(b)'.graph
    <3>1. CASE b = a
      <4>1. r.parent \in Accounts /\ InfoOf(r.parent).graph = r.graph
        BY <1>8, <2>1, <3>1
      <4>2. r.parent \in Account \ {a}
        BY <1>4, <4>1, Infos
      <4>3. InfoOf(r.parent)' = InfoOf(r.parent)
        BY <1>5, <4>2
      <4>4. ParentOf(b)' = r.parent /\ InfoOf(b)' = r
        BY <1>5, <1>8, <3>1
      <4>5. InfoOf(ParentOf(b))' = InfoOf(r.parent)'
        BY <4>4 DEF InfoOf
      <4>6. QED
        BY <1>6, <4>1, <4>3, <4>4, <4>5
    <3>2. CASE b \in Accounts
      <4>1. ParentOf(b) \in Accounts /\ InfoOf(ParentOf(b)).graph = InfoOf(b).graph
        BY <1>7, <2>1, <3>2 DEF GraphFollowsParent
      <4>2. PICK p : p = ParentOf(b)
        OBVIOUS
      <4>3. InfoOf(p)' = InfoOf(p) /\ ParentOf(b)' = p /\ InfoOf(b)' = InfoOf(b)
        BY <1>7, <3>2, <4>1, <4>2
      <4>4. InfoOf(ParentOf(b))' = InfoOf(p)'
        BY <4>3 DEF InfoOf
      <4>5. QED
        BY <1>6, <4>1, <4>2, <4>3, <4>4
    <3>3. QED
      BY <1>6, <3>1, <3>2
  <2>2. QED
    BY <2>1 DEF GraphFollowsParent
<1>13. MasterReached'
  <2> DEFINE A == {b \in Accounts : ~IsMaster(b)}
             f == [b \in Account |-> ParentOf(b)]
             h == [b \in Account |-> IF b = a THEN r.parent ELSE ParentOf(b)]
  <2>1. A \subseteq Account /\ A \subseteq Accounts
    BY Infos
  <2>2. \A S \in SUBSET A : (\A x \in S : f[x] \in S) => S = {}
    BY <2>1 DEF MasterReached
  <2>3. CASE r.master
    <3>1. {b \in Accounts : ~IsMaster(b)}' = A
      BY <1>6, <1>7, <1>8, <2>3
    <3>2. \A S \in SUBSET A : \A x \in S : ParentOf(x)' = ParentOf(x)
      BY <1>7, <2>1
    <3>3. QED
      BY <3>1, <3>2 DEF MasterReached
  <2>4. CASE ~r.master
    <3>1. {b \in Accounts : ~IsMaster(b)}' = A \cup {a}
      BY <1>6, <1>7, <1>8, <2>4
    <3>2. \A x \in A : h[x] = f[x] /\ f[x] # a
      BY <1>4, <2>1 DEF GraphFollowsParent
    <3>3. h[a] # a
      BY <1>4, <2>4
    <3>4. \A S \in SUBSET (A \cup {a}) : (\A x \in S : h[x] \in S) => S = {}
      <4> HIDE DEF A, f, h
      <4>1. PICK A0, f0, h0 : A0 = A /\ f0 = f /\ h0 = h
        OBVIOUS
      <4>2. /\ NoCycle(A0, f0)
            /\ \A x \in A0 : h0[x] = f0[x] /\ f0[x] # a
            /\ h0[a] # a
        BY <2>2, <3>2, <3>3, <4>1 DEF NoCycle
      <4>3. NoCycle(A0 \cup {a}, h0)
        BY <4>2, NoNewCycle
      <4>4. QED
        BY <4>1, <4>3 DEF NoCycle
    <3>5. \A x \in A \cup {a} : ParentOf(x)' = h[x]
      BY <1>4, <1>7, <1>8, <2>1
    <3>6. QED
      <4> HIDE DEF A, h
      <4>1. QED
        BY <3>1, <3>4, <3>5 DEF MasterReached
  <2>5. QED
    BY <2>3, <2>4
<1>14. NamedContent'
  <2>1. owed' \subseteq Account /\ fresh' \subseteq Account
    BY <1>3 DEF TypeOK
  <2>2. \A b \in owed' : rows'[b] # NoRow
    BY <1>2 DEF NamedContent
  <2>3. a \notin owed /\ a \notin fresh
    BY <1>4 DEF NamedContent
  <2>4. \A b \in fresh' : InfoOf(b)' # NoRow
    BY <1>1, <1>2, <1>5, <2>1 DEF NamedContent
  <2>5. ASSUME NEW b \in owed' \cup fresh', InfoOf(b)'.graph # BaseGraph
        PROVE  b \in content'[InfoOf(b)'.graph]
    <3>1. CASE b = a
      BY <1>2, <1>5, <2>5, <3>1
    <3>2. CASE b # a
      <4>1. b \in owed \cup fresh /\ b \in Account \ {a}
        BY <1>2, <2>1, <3>2
      <4>2. InfoOf(b)' = InfoOf(b)
        BY <1>5, <4>1
      <4>3. b \in content[InfoOf(b).graph]
        BY <2>5, <4>1, <4>2 DEF NamedContent
      <4>4. b \in Accounts
        BY <4>1 DEF NamedContent, Accounts, InfoOf
      <4>5. InfoOf(b).graph \in Name
        BY <4>4, Infos
      <4>6. QED
        BY <1>2, <4>1, <4>2, <4>3, <4>5
    <3>3. QED
      BY <3>1, <3>2
  <2>6. QED
    BY <2>2, <2>4, <2>5 DEF NamedContent
<1>15. MapOver(graphs', disk')
  BY <1>2
<1>16. AccountInv'
  BY <1>2, <1>3, <1>9, <1>10, <1>11, <1>12, <1>13, <1>14, <1>15
<1>17. ASSUME ParentsPresent, RoutingEndsUnlessEarly, r.parent \in Accounts \cup {NoAccount}
       PROVE  ParentsPresent' /\ RoutingEndsUnlessEarly'
  <2> DEFINE f == [b \in Account |-> ParentOf(b)]
             h == [b \in Account |-> IF b = a THEN r.parent ELSE ParentOf(b)]
  <2>1. Accounts \subseteq Account /\ Settled \subseteq Accounts
    BY Infos DEF Settled
  <2>0. early' = early /\ Settled' \subseteq Settled \cup {a}
    BY <1>6, <1>17 DEF Settled
  <2>2. ParentsPresent'
    BY <1>6, <1>7, <1>8, <1>17, <2>0, <2>1 DEF ParentsPresent
  <2>3. \A S \in SUBSET Settled : (\A x \in S : f[x] \in S) => S = {}
    BY <1>17, <2>1 DEF RoutingEndsUnlessEarly
  <2>4. \A x \in Settled : h[x] = f[x] /\ f[x] # a
    BY <1>4, <1>17, <2>1 DEF ParentsPresent
  <2>5. h[a] # a
    BY <1>4, <1>17
  <2>6. \A S \in SUBSET (Settled \cup {a}) : (\A x \in S : h[x] \in S) => S = {}
    <3> HIDE DEF f, h
    <3>1. PICK A0, f0, h0 : A0 = Settled /\ f0 = f /\ h0 = h
      OBVIOUS
    <3>2. /\ NoCycle(A0, f0)
          /\ \A x \in A0 : h0[x] = f0[x] /\ f0[x] # a
          /\ h0[a] # a
      BY <2>3, <2>4, <2>5, <3>1 DEF NoCycle
    <3>3. NoCycle(A0 \cup {a}, h0)
      BY <3>2, NoNewCycle
    <3>4. QED
      BY <3>1, <3>3 DEF NoCycle
  <2>7. \A x \in Settled \cup {a} : ParentOf(x)' = h[x]
    BY <1>4, <1>7, <1>8, <2>1
  <2>8. RoutingEndsUnlessEarly'
    <3> HIDE DEF h
    <3>1. QED
      BY <2>0, <2>6, <2>7 DEF RoutingEndsUnlessEarly
  <2>9. QED
    BY <2>2, <2>8
\* A master before its parent: the settled accounts stay the same.
<1>18. ASSUME ParentsPresent, RoutingEndsUnlessEarly, r.parent \notin Accounts \cup {NoAccount}
       PROVE  ParentsPresent' /\ RoutingEndsUnlessEarly'
  <2>1. early' = early \cup {a} /\ Settled' = Settled /\ Settled \subseteq Accounts
    BY <1>4, <1>6, <1>18 DEF Settled
  <2>2. \A x \in Settled : ParentOf(x)' = ParentOf(x)
    BY <1>7, <2>1
  <2>3. ParentsPresent'
    BY <1>6, <1>18, <2>1, <2>2 DEF ParentsPresent
  <2>4. RoutingEndsUnlessEarly'
    BY <1>18, <2>1, <2>2 DEF RoutingEndsUnlessEarly
  <2>5. QED
    BY <2>3, <2>4
<1>19. QED
  BY <1>16, <1>17, <1>18

\* A change set that creates a master account.
LEMMA CreateMasterInv ==
    ASSUME AccountInv, NEW a \in Account, NEW p \in Account \cup {NoAccount}, CreateMaster(a, p)
    PROVE  AccountInv' /\ (AncestryInv => AncestryInv')
<1> USE DEF AccountInv
<1> DEFINE name == IF p = NoAccount THEN BaseGraph ELSE a
           made == IF HasDb(name) THEN disk ELSE disk \cup {name}
           g == IF HasDb(name) THEN graphs ELSE [graphs EXCEPT ![BaseGraph] = name]
           r == [parent |-> p, master |-> TRUE, graph |-> name]
<1>1. name \in Name /\ BaseGraph \in Name /\ r \in Row
  BY DEF Name, Row
<1>2. /\ InfoOf(a) = NoRow
      /\ p = NoAccount \/ Founded
      /\ NoteParent(a, p)
      /\ disk' = made
      /\ pending' = [pending EXCEPT ![a] = r]
      /\ WriteStatements(a, g, made, name)
      /\ rows' = rows
  BY DEF CreateMaster
<1>3. disk \in SUBSET Name /\ graphs \in [Name -> Name \cup {NoStore}] /\ MapOver(graphs, disk)
  BY DEF TypeOK
<1>4. Founded => BaseGraph \in disk
  BY DEF Founded, RowsOnce, Accounts
<1>5. /\ made \in SUBSET Name
      /\ disk \subseteq made
      /\ name \in made
      /\ BaseGraph \in made
      /\ g \in [Name -> Name \cup {NoStore}]
      /\ MapOver(g, made)
  <2>1. CASE HasDb(name)
    <3>1. made = disk /\ g = graphs
      BY <2>1
    <3>2. name \in disk
      BY <1>1, <1>3, <2>1 DEF HasDb, MapOver
    <3>3. BaseGraph \in disk
      BY <1>2, <1>4, <3>2
    <3>4. QED
      BY <1>3, <3>1, <3>2, <3>3
  <2>2. CASE ~HasDb(name)
    <3>1. made = disk \cup {name} /\ g = [graphs EXCEPT ![BaseGraph] = name]
      BY <2>2
    <3>2. BaseGraph \in made
      BY <1>2, <1>4, <3>1
    <3>3. QED
      BY <1>1, <1>3, <3>1, <3>2 DEF MapOver
  <2>3. QED
    BY <2>1, <2>2
<1> HIDE DEF name, made, g
<1>6. PICK n0, d0, g0 : n0 = name /\ d0 = made /\ g0 = g
  OBVIOUS
<1>7. PICK r0 : r0 = [parent |-> p, master |-> TRUE, graph |-> n0]
  OBVIOUS
<1>8. r0 \in Row /\ r0.parent = p /\ r0.master = TRUE /\ r0.graph = n0
  BY <1>1, <1>6, <1>7
<1>9. early' = IF r0.parent \in Accounts \cup {NoAccount} THEN early ELSE early \cup {a}
  BY <1>2, <1>8 DEF NoteParent, Accounts
<1>10. /\ AccountInv'
       /\ ParentsPresent /\ RoutingEndsUnlessEarly
            => ParentsPresent' /\ RoutingEndsUnlessEarly'
  BY <1>2, <1>5, <1>6, <1>7, <1>8, <1>9, CreateInv
<1>11. QED
  BY <1>10 DEF AncestryInv

\* A change set that creates any other account.
LEMMA CreateAccountInv ==
    ASSUME AccountInv, NEW a \in Account, NEW p \in Account, CreateAccount(a, p)
    PROVE  AccountInv' /\ (AncestryInv => AncestryInv')
<1> USE DEF AccountInv
<1>1. p \in Accounts /\ InfoOf(p).graph \in Name
  BY Infos DEF CreateAccount, Accounts
<1>2. InfoOf(p).graph \in disk /\ BaseGraph \in disk
  BY <1>1 DEF GraphsExist, RowsOnce
<1>3. PICK n0, d0, g0 : n0 = InfoOf(p).graph /\ d0 = disk /\ g0 = graphs
  OBVIOUS
<1>4. PICK r0 : r0 = [parent |-> p, master |-> FALSE, graph |-> n0]
  OBVIOUS
<1>5. r0 \in Row /\ r0.parent = p /\ r0.master = FALSE /\ r0.graph = n0
  BY <1>1, <1>3, <1>4 DEF Row
<1>6. /\ InfoOf(a) = NoRow
      /\ disk' = d0
      /\ pending' = [pending EXCEPT ![a] = r0]
      /\ WriteStatements(a, g0, d0, r0.graph)
      /\ rows' = rows
      /\ early' = IF r0.parent \in Accounts \cup {NoAccount} THEN early ELSE early \cup {a}
  BY <1>1, <1>3, <1>4, <1>5 DEF CreateAccount
<1>7. d0 \in SUBSET Name /\ g0 \in [Name -> Name \cup {NoStore}] /\ MapOver(g0, d0)
  BY <1>3 DEF TypeOK
<1>8. /\ AccountInv'
      /\ ParentsPresent /\ RoutingEndsUnlessEarly
           => ParentsPresent' /\ RoutingEndsUnlessEarly'
  BY <1>1, <1>2, <1>3, <1>5, <1>6, <1>7, CreateInv
<1>9. QED
  BY <1>1, <1>5, <1>8 DEF AncestryInv

\* Steps after which the rows are the committed ones: each account is as it
\* was, or is gone because its row was not committed.
LEMMA BackToRows ==
    ASSUME AccountInv, rows' = rows, pending' = NoRows, disk' = disk,
           fresh' = {}, owed' = owed, content' = content,
           early' = {a \in early : rows[a] # NoRow}
    PROVE  /\ RowsOnce' /\ RowsFollow' /\ GraphsExist' /\ GraphFollowsParent'
           /\ MasterReached' /\ NamedContent'
           /\ ParentsPresent /\ RoutingEndsUnlessEarly => ParentsPresent' /\ RoutingEndsUnlessEarly'
           /\ \A a \in Account : InfoOf(a)' = rows[a]
           /\ Accounts' \subseteq Accounts
<1> USE DEF AccountInv
<1>1. \A a \in Account : InfoOf(a)' = rows[a]
  BY DEF InfoOf, NoRows
<1>2. \A a \in Account : rows[a] # NoRow => InfoOf(a) = rows[a]
  BY DEF RowsOnce, InfoOf
<1>3. Accounts' = {a \in Account : rows[a] # NoRow}
  BY <1>1 DEF Accounts
<1>4. Accounts' \subseteq Accounts
  BY <1>2, <1>3 DEF Accounts
<1>5. \A a \in Accounts' : /\ InfoOf(a)' = InfoOf(a)
                           /\ ParentOf(a)' = ParentOf(a)
                           /\ IsMaster(a)' = IsMaster(a)
  BY <1>1, <1>2, <1>3 DEF ParentOf, IsMaster
<1>6. RowsOnce' /\ RowsFollow' /\ GraphsExist'
  BY <1>4, <1>5 DEF RowsOnce, RowsFollow, GraphsExist, NoRows
<1>7. GraphFollowsParent'
  <2>1. ASSUME NEW b \in Accounts', ~IsMaster(b)'
        PROVE  ParentOf(b)' \in Accounts' /\ InfoOf(ParentOf(b))'.graph = InfoOf(b)'.graph
    <3>1. b \in Account /\ rows[b] # NoRow /\ ~rows[b].master
      BY <1>1, <1>3, <2>1 DEF IsMaster
    <3>2. PICK p : p = rows[b].parent
      OBVIOUS
    <3>3. p \in Account /\ rows[p] # NoRow /\ rows[p].graph = rows[b].graph
      BY <3>1, <3>2 DEF RowsFollow
    <3>4. ParentOf(b)' = p
      BY <1>1, <3>1, <3>2 DEF ParentOf
    <3>5. InfoOf(ParentOf(b))' = InfoOf(p)'
      BY <3>4 DEF InfoOf
    <3>6. QED
      BY <1>1, <1>3, <3>1, <3>3, <3>4, <3>5
  <2>2. QED
    BY <2>1 DEF GraphFollowsParent
<1>8. MasterReached'
  BY <1>4, <1>5 DEF MasterReached
<1>0. Settled' \subseteq Settled /\ Settled' \subseteq Accounts'
  BY <1>3, <1>4 DEF Settled
<1>9. RoutingEndsUnlessEarly => RoutingEndsUnlessEarly'
  BY <1>0, <1>5 DEF RoutingEndsUnlessEarly
<1>10. NamedContent'
  <2>1. owed \subseteq Account
    BY DEF TypeOK
  <2>2. \A a \in owed : InfoOf(a)' = InfoOf(a)
    BY <1>1, <1>2, <2>1 DEF NamedContent
  <2>3. QED
    BY <2>2 DEF NamedContent
<1>11. ParentsPresent => ParentsPresent'
  BY <1>0, <1>1, <1>3 DEF ParentsPresent, ParentOf, Settled
<1>12. QED
  BY <1>1, <1>4, <1>6, <1>7, <1>8, <1>9, <1>10, <1>11

\* AccountResource::commit.
LEMMA CommitInv ==
    ASSUME AccountInv, Commit
    PROVE  AccountInv' /\ (AncestryInv => AncestryInv')
<1> USE DEF AccountInv, Commit
<1>1. \A a \in Account : InfoOf(a)' = InfoOf(a) /\ rows'[a] = InfoOf(a)
  BY DEF InfoOf, NoRows
<1>2. Accounts' = Accounts
  BY <1>1 DEF Accounts
<1>3. \A a \in Accounts : ParentOf(a)' = ParentOf(a) /\ IsMaster(a)' = IsMaster(a)
  BY <1>1 DEF ParentOf, IsMaster, Accounts
<1>4. rows' \in [Account -> Row \cup {NoRow}]
  BY <1>1, Infos
<1>5. session' \in [Thread -> [Name -> Name \cup {NoStore}]] /\ SessionsOwn'
  BY DEF TypeOK, SessionsOwn, NoSessions
<1>6. TypeOK'
  BY <1>4, <1>5 DEF TypeOK, NoRows
<1>7. RowsOnce' /\ GraphsExist'
  BY <1>1, <1>2 DEF RowsOnce, GraphsExist, NoRows, Accounts
<1>8. GraphFollowsParent'
  BY <1>1, <1>2, <1>3 DEF GraphFollowsParent, Accounts
<1>9. RowsFollow'
  BY <1>1, Infos DEF RowsFollow, GraphFollowsParent, Accounts, ParentOf, IsMaster
<1>10. MasterReached'
  BY <1>2, <1>3 DEF MasterReached
<1>11. NamedContent'
  <2>1. owed \subseteq Account /\ fresh \subseteq Account
    BY DEF TypeOK
  <2>2. \A a \in owed \cup fresh : InfoOf(a) # NoRow
    BY <2>1 DEF NamedContent, RowsOnce, InfoOf
  <2>3. QED
    BY <1>1, <2>1, <2>2 DEF NamedContent
<1>12. MapOver(graphs', disk')
  OBVIOUS
<1>13. AccountInv'
  BY <1>5, <1>6, <1>7, <1>8, <1>9, <1>10, <1>11, <1>12
<1>14. ASSUME ParentsPresent, RoutingEndsUnlessEarly
       PROVE  ParentsPresent' /\ RoutingEndsUnlessEarly'
  <2>0. Settled' = Settled /\ Settled \subseteq Accounts
    BY <1>2 DEF Settled
  <2>1. \A a \in Settled' : ParentOf(a)' \in Accounts' \cup {NoAccount}
    BY <1>2, <1>3, <1>14, <2>0 DEF ParentsPresent
  <2>2. \A a \in Account \ early' : rows'[a] # NoRow =>
          \/ rows'[a].parent = NoAccount
          \/ rows'[a].parent \in Account /\ rows'[rows'[a].parent] # NoRow
    BY <1>1, <1>14, Infos DEF ParentsPresent, Accounts, ParentOf, Settled
  <2>3. RoutingEndsUnlessEarly'
    BY <1>3, <1>14, <2>0 DEF RoutingEndsUnlessEarly
  <2>4. QED
    BY <2>1, <2>2, <2>3 DEF ParentsPresent
<1>15. QED
  BY <1>13, <1>14 DEF AncestryInv

\* A crash, and the start after it.
LEMMA RestartInv ==
    ASSUME AccountInv, Restart
    PROVE  AccountInv' /\ (AncestryInv => AncestryInv')
<1> USE DEF AccountInv
<1>1. /\ RowsOnce' /\ RowsFollow' /\ GraphsExist' /\ GraphFollowsParent'
      /\ MasterReached' /\ NamedContent'
      /\ ParentsPresent /\ RoutingEndsUnlessEarly => ParentsPresent' /\ RoutingEndsUnlessEarly'
  BY BackToRows DEF Restart
<1>2. session' \in [Thread -> [Name -> Name \cup {NoStore}]] /\ SessionsOwn'
  BY DEF SessionsOwn, NoSessions, Restart
<1>3. graphs' \in [Name -> Name \cup {NoStore}] /\ MapOver(graphs', disk')
  BY DEF MapOver, ManagerOn, Restart, Name
<1>4. TypeOK'
  BY <1>2, <1>3 DEF TypeOK, NoRows, Restart
<1>5. QED
  BY <1>1, <1>2, <1>3, <1>4 DEF AncestryInv

\* Steps that change neither rows nor what the graphs hold.
LEMMA RowsStay ==
    ASSUME AccountInv, UNCHANGED <<rows, pending, disk, content, fresh, owed, early>>
    PROVE  /\ RowsOnce' /\ RowsFollow' /\ GraphsExist' /\ GraphFollowsParent'
           /\ MasterReached' /\ NamedContent'
           /\ ParentsPresent /\ RoutingEndsUnlessEarly => ParentsPresent' /\ RoutingEndsUnlessEarly'
<1> USE DEF AccountInv
<1>1. \A a \in Account : InfoOf(a)' = InfoOf(a)
  BY DEF InfoOf
<1>2. Accounts' = Accounts
  BY <1>1 DEF Accounts
<1>3. \A a \in Accounts : ParentOf(a)' = ParentOf(a) /\ IsMaster(a)' = IsMaster(a)
  BY DEF ParentOf, IsMaster, InfoOf
<1>4. RowsOnce' /\ RowsFollow' /\ GraphsExist' /\ GraphFollowsParent'
  BY <1>2 DEF RowsOnce, RowsFollow, GraphsExist, GraphFollowsParent, ParentOf, IsMaster, InfoOf
<1>5. MasterReached' /\ (RoutingEndsUnlessEarly => RoutingEndsUnlessEarly')
  BY <1>2, <1>3 DEF MasterReached, RoutingEndsUnlessEarly, Settled
<1>6. NamedContent' /\ (ParentsPresent => ParentsPresent')
  BY <1>2 DEF NamedContent, ParentsPresent, ParentOf, InfoOf, Settled
<1>7. QED
  BY <1>4, <1>5, <1>6

\* sparqlQuery and getContract of a reader.
LEMMA QueryInv ==
    ASSUME AccountInv, NEW t \in Reader, NEW a \in Account, Query(t, a)
    PROVE  AccountInv' /\ (AncestryInv => AncestryInv')
<1> USE DEF AccountInv
<1>1. UNCHANGED <<rows, pending, disk, content, fresh, owed, early>>
  BY DEF Query
<1>2. InfoOf(a) = rows[a] /\ a \in Accounts
  BY DEF Query, RowsOnce, InfoOf, Accounts
<1>3. rows[a].graph \in Name /\ rows[a].graph \in disk /\ BaseGraph \in disk /\ t \in Thread
  BY <1>2, Infos DEF GraphsExist, RowsOnce, Thread
<1>4. PICK n0, d0, g0 : n0 = rows[a].graph /\ d0 = disk /\ g0 = graphs
  OBVIOUS
<1>5. GetGraphSession(t, g0, d0, n0)
  BY <1>4 DEF Query
<1>6. /\ graphs' \in [Name -> Name \cup {NoStore}]
      /\ MapOver(graphs', d0)
      /\ session' \in [Thread -> [Name -> Name \cup {NoStore}]]
      /\ SessionsOwn'
  BY <1>3, <1>4, <1>5, SessionStep DEF TypeOK
<1>7. MapOver(graphs', disk')
  BY <1>1, <1>4, <1>6
<1>8. TypeOK'
  BY <1>1, <1>6 DEF TypeOK
<1>9. QED
  BY <1>1, <1>6, <1>7, <1>8, RowsStay DEF AncestryInv

\* The end of a reader's transaction, and a stuttering step.
LEMMA QuietInv ==
    ASSUME AccountInv, UNCHANGED vars \/ \E t \in Reader : EndQueries(t)
    PROVE  AccountInv' /\ (AncestryInv => AncestryInv')
<1> USE DEF AccountInv
<1>1. UNCHANGED <<rows, pending, disk, graphs, content, fresh, owed, early>>
  BY DEF EndQueries, vars
<1>2. session' \in [Thread -> [Name -> Name \cup {NoStore}]] /\ SessionsOwn'
  <2>1. CASE UNCHANGED session
    BY <2>1 DEF TypeOK, SessionsOwn
  <2>2. CASE \E t \in Reader : session' = [session EXCEPT ![t] = NoSessions]
    BY <2>2 DEF TypeOK, SessionsOwn, NoSessions, Thread
  <2>3. QED
    BY <2>1, <2>2 DEF EndQueries, vars
<1>3. TypeOK'
  BY <1>1, <1>2 DEF TypeOK
<1>4. MapOver(graphs', disk')
  BY <1>1
<1>5. QED
  BY <1>1, <1>2, <1>3, <1>4, RowsStay DEF AncestryInv

\* Every step keeps the invariants.
LEMMA NextInv ==
    ASSUME AccountInv, [Next]_vars
    PROVE  AccountInv' /\ (AncestryInv => AncestryInv')
<1>1. CASE \E a \in Account : ApplyToAccount(a)
  BY <1>1, ApplyInv
<1>2. CASE \E a \in Account, p \in Account \cup {NoAccount} : CreateMaster(a, p)
  BY <1>2, CreateMasterInv
<1>3. CASE \E a, p \in Account : CreateAccount(a, p)
  BY <1>3, CreateAccountInv
<1>4. CASE \E a \in Account, t \in Reader : Query(t, a)
  BY <1>4, QueryInv
<1>5. CASE UNCHANGED vars \/ \E t \in Reader : EndQueries(t)
  BY <1>5, QuietInv
<1>6. CASE Commit
  BY <1>6, CommitInv
<1>7. CASE Restart
  BY <1>7, RestartInv
<1>8. QED
  BY <1>1, <1>2, <1>3, <1>4, <1>5, <1>6, <1>7 DEF Next

----------------------------------------------------------------------------
\* A graph that exists can be opened, and a named one is then itself: what is
\* due to it is seen.
LEMMA NamedSeen ==
    ASSUME AccountInv PROVE NamedGraphsKeep
<1> USE DEF AccountInv
<1> SUFFICES ASSUME NEW a \in owed, rows[a].graph # BaseGraph, NEW t \in Thread
             PROVE  /\ StoreFor(t, rows[a].graph) # NoStore
                    /\ a \in content[StoreFor(t, rows[a].graph)]
  BY DEF NamedGraphsKeep, Seen
<1>1. a \in Accounts /\ InfoOf(a) = rows[a]
  BY DEF TypeOK, NamedContent, RowsOnce, InfoOf, Accounts
<1>2. rows[a].graph \in Name /\ rows[a].graph \in disk /\ a \in content[rows[a].graph]
  BY <1>1, Infos DEF GraphsExist, NamedContent
<1>3. Opened(graphs, disk, rows[a].graph) = rows[a].graph
  BY <1>2, OpenedExists DEF TypeOK
<1>4. StoreFor(t, rows[a].graph) = rows[a].graph
  BY <1>2, <1>3 DEF StoreFor, SessionOn, SessionsOwn, TypeOK
<1>5. QED
  BY <1>2, <1>4

\* Whatever change sets name as parents: the types, a directory for every
\* graph, accounts in their parents' graphs under a master, and later masters'
\* graphs that keep what is committed to them.
THEOREM AccountsCorrect ==
    Spec => [](TypeOK /\ GraphsSound /\ NamedGraphsKeep)
<1>1. Init => AccountInv
  BY InitInv DEF AncestryInv
<1>2. AccountInv /\ [Next]_vars => AccountInv'
  BY NextInv
<1>3. AccountInv => TypeOK /\ GraphsSound /\ NamedGraphsKeep
  BY NamedSeen DEF AccountInv, GraphsSound
<1>4. QED
  BY <1>1, <1>2, <1>3, PTL DEF Spec

\* Whoever is its own ancestor, so that the recursion that builds the routing of
\* a node's accounts does not end, has a master above it that was created before
\* the parent it names.
THEOREM RoutingCorrect == Spec => []RoutingEndsUnlessEarly
<1>1. Init => AncestryInv
  BY InitInv
<1>2. AncestryInv /\ [Next]_vars => AncestryInv'
  BY NextInv DEF AncestryInv
<1>3. AncestryInv => RoutingEndsUnlessEarly
  BY DEF AncestryInv
<1>4. QED
  BY <1>1, <1>2, <1>3, PTL DEF Spec

\* A committed account never changes and never goes.
THEOREM AccountsStay == Spec => AccountsPermanent
<1>1. Init => AccountInv
  BY InitInv DEF AncestryInv
<1>2. AccountInv /\ [Next]_vars => AccountInv'
  BY NextInv
<1>3. AccountInv /\ [Next]_vars => [\A a \in Account : rows[a] # NoRow => rows'[a] = rows[a]]_vars
  <2> SUFFICES ASSUME AccountInv, Next, NEW a \in Account, rows[a] # NoRow
               PROVE  rows'[a] = rows[a]
    OBVIOUS
  <2>1. CASE Commit
    BY <2>1 DEF Commit, InfoOf, AccountInv, RowsOnce
  <2>2. CASE ~Commit
    BY <2>2 DEF Next, ApplyToAccount, CreateMaster, CreateAccount, Query, EndQueries, Restart
  <2>3. QED
    BY <2>1, <2>2
<1>4. QED
  BY <1>1, <1>2, <1>3, PTL DEF Spec, AccountsPermanent

----------------------------------------------------------------------------
(* Without later masters the base graph is the only one.                   *)

\* A session on the base graph, when nothing else is under its name.
LEMMA BaseSession ==
    ASSUME AccountInv, OneGraph, NEW g \in [Name -> Name \cup {NoStore}], NEW d \in SUBSET Name,
           g[BaseGraph] \in {NoStore, BaseGraph}, BaseGraph \in d, NEW t \in Thread,
           GetGraphSession(t, g, d, BaseGraph)
    PROVE  /\ SessionOn(t, g, d, BaseGraph) = BaseGraph
           /\ graphs'[BaseGraph] \in {NoStore, BaseGraph}
           /\ \A u \in Thread : session'[u][BaseGraph] \in {NoStore, BaseGraph}
<1>1. BaseGraph \in Name /\ session \in [Thread -> [Name -> Name \cup {NoStore}]]
  BY DEF Name, AccountInv, TypeOK
<1>2. SessionOn(t, g, d, BaseGraph) = BaseGraph
  BY DEF SessionOn, Opened, OneGraph
<1>3. graphs'[BaseGraph] \in {NoStore, BaseGraph}
  BY <1>1 DEF GetGraphSession, Remembered
<1>4. \A u \in Thread : session'[u][BaseGraph] \in {NoStore, BaseGraph}
  BY <1>1, <1>2 DEF GetGraphSession, OneGraph
<1>5. QED
  BY <1>2, <1>3, <1>4

\* Statements written through it.
LEMMA BaseWrite ==
    ASSUME AccountInv, OneGraph, NEW g \in [Name -> Name \cup {NoStore}], NEW d \in SUBSET Name,
           g[BaseGraph] \in {NoStore, BaseGraph}, BaseGraph \in d, NEW a \in Account,
           WriteStatements(a, g, d, BaseGraph)
    PROVE  /\ graphs'[BaseGraph] \in {NoStore, BaseGraph}
           /\ \A u \in Thread : session'[u][BaseGraph] \in {NoStore, BaseGraph}
           /\ owed' \cup fresh' \subseteq content'[BaseGraph]
<1>1. Producer \in Thread /\ BaseGraph \in Name /\ content \in [Name -> SUBSET Account]
  BY DEF Thread, Name, AccountInv, TypeOK
<1>2. GetGraphSession(Producer, g, d, BaseGraph)
  BY DEF WriteStatements
<1>3. /\ SessionOn(Producer, g, d, BaseGraph) = BaseGraph
      /\ graphs'[BaseGraph] \in {NoStore, BaseGraph}
      /\ \A u \in Thread : session'[u][BaseGraph] \in {NoStore, BaseGraph}
  BY <1>1, <1>2, BaseSession
<1>4. owed' \cup fresh' \subseteq content'[BaseGraph]
  <2>1. CASE /\ content' = [content EXCEPT ![BaseGraph] = @ \cup {a}]
             /\ fresh' = fresh \cup {a}
             /\ UNCHANGED owed
    BY <1>1, <2>1 DEF OneGraph
  <2>2. CASE /\ content' = [content EXCEPT ![BaseGraph] = @ \ {a}]
             /\ fresh' = fresh \ {a}
             /\ owed' = owed \ {a}
    BY <1>1, <2>2 DEF OneGraph
  <2>3. QED
    BY <1>3, <2>1, <2>2 DEF WriteStatements
<1>5. QED
  BY <1>3, <1>4

\* Every step keeps to the base graph.
LEMMA OneGraphStep ==
    ASSUME LaterMaster = {}, AccountInv, OneGraph, [Next]_vars
    PROVE  OneGraph'
<1>1. BaseGraph \in Name /\ TypeOK
  BY DEF Name, AccountInv
<1>2. Accounts # {} => BaseGraph \in disk
  BY DEF AccountInv, RowsOnce
<1>3. PICK g0, d0 : g0 = graphs /\ d0 = disk
  OBVIOUS
<1>4. /\ g0 \in [Name -> Name \cup {NoStore}] /\ d0 \in SUBSET Name
      /\ g0[BaseGraph] \in {NoStore, BaseGraph}
  BY <1>1, <1>3 DEF TypeOK, OneGraph
<1>5. ASSUME NEW a \in Account, ApplyToAccount(a) PROVE OneGraph'
  <2>1. a \in Accounts /\ UNCHANGED <<rows, pending, disk>>
    BY <1>5 DEF ApplyToAccount, Accounts
  <2>2. InfoOf(a).graph = BaseGraph /\ BaseGraph \in disk
    BY <1>2, <2>1 DEF OneGraph
  <2>3. WriteStatements(a, g0, d0, BaseGraph)
    BY <1>3, <1>5, <2>2 DEF ApplyToAccount
  <2>4. /\ graphs'[BaseGraph] \in {NoStore, BaseGraph}
        /\ \A u \in Thread : session'[u][BaseGraph] \in {NoStore, BaseGraph}
        /\ owed' \cup fresh' \subseteq content'[BaseGraph]
    BY <1>3, <1>4, <2>2, <2>3, BaseWrite
  <2>5. QED
    BY <2>1, <2>4 DEF OneGraph, Accounts, InfoOf
<1>6. ASSUME NEW a \in Account, NEW r, r.graph = BaseGraph, pending' = [pending EXCEPT ![a] = r],
             UNCHANGED rows
      PROVE  \A b \in Accounts' : InfoOf(b)'.graph = BaseGraph
  <2>1. \A b \in Account \ {a} : InfoOf(b)' = InfoOf(b)
    BY <1>1, <1>6 DEF InfoOf, TypeOK
  <2>2. InfoOf(a)' = r \/ InfoOf(a)' = rows[a]
    BY <1>1, <1>6 DEF InfoOf, TypeOK
  <2>3. QED
    BY <1>6, <2>1, <2>2 DEF Accounts, OneGraph
<1>7. ASSUME NEW a \in Account, NEW p \in Account \cup {NoAccount}, CreateMaster(a, p) PROVE OneGraph'
  <2>1. p = NoAccount
    BY <1>7 DEF CreateMaster
  <2> DEFINE made == IF HasDb(BaseGraph) THEN disk ELSE disk \cup {BaseGraph}
             g == IF HasDb(BaseGraph) THEN graphs ELSE [graphs EXCEPT ![BaseGraph] = BaseGraph]
  <2>2. /\ WriteStatements(a, g, made, BaseGraph)
        /\ pending' = [pending EXCEPT ![a] = [parent |-> p, master |-> TRUE, graph |-> BaseGraph]]
        /\ UNCHANGED rows
    BY <1>7, <2>1 DEF CreateMaster
  <2>3. /\ g \in [Name -> Name \cup {NoStore}] /\ made \in SUBSET Name
        /\ g[BaseGraph] \in {NoStore, BaseGraph} /\ BaseGraph \in made
    BY <1>1 DEF HasDb, TypeOK, OneGraph, AccountInv, MapOver
  <2>4. PICK g1, d1 : g1 = g /\ d1 = made
    OBVIOUS
  <2>5. /\ graphs'[BaseGraph] \in {NoStore, BaseGraph}
        /\ \A u \in Thread : session'[u][BaseGraph] \in {NoStore, BaseGraph}
        /\ owed' \cup fresh' \subseteq content'[BaseGraph]
    <3> HIDE DEF g, made
    <3>1. QED
      BY <2>2, <2>3, <2>4, BaseWrite
  <2>6. \A b \in Accounts' : InfoOf(b)'.graph = BaseGraph
    BY <1>6, <2>2
  <2>7. QED
    BY <2>2, <2>5, <2>6 DEF OneGraph
<1>8. ASSUME NEW a \in Account, NEW p \in Account, CreateAccount(a, p) PROVE OneGraph'
  <2>1. p \in Accounts
    BY <1>8 DEF CreateAccount, Accounts
  <2>2. InfoOf(p).graph = BaseGraph /\ BaseGraph \in disk
    BY <1>2, <2>1 DEF OneGraph
  <2>3. /\ WriteStatements(a, g0, d0, BaseGraph)
        /\ pending' = [pending EXCEPT ![a] = [parent |-> p, master |-> FALSE, graph |-> BaseGraph]]
        /\ UNCHANGED rows
    BY <1>3, <1>8, <2>2 DEF CreateAccount
  <2>4. /\ graphs'[BaseGraph] \in {NoStore, BaseGraph}
        /\ \A u \in Thread : session'[u][BaseGraph] \in {NoStore, BaseGraph}
        /\ owed' \cup fresh' \subseteq content'[BaseGraph]
    BY <1>3, <1>4, <2>2, <2>3, BaseWrite
  <2>5. \A b \in Accounts' : InfoOf(b)'.graph = BaseGraph
    BY <1>6, <2>3
  <2>6. QED
    BY <2>3, <2>4, <2>5 DEF OneGraph
<1>9. ASSUME NEW t \in Reader, NEW a \in Account, Query(t, a) PROVE OneGraph'
  <2>1. rows[a].graph = BaseGraph /\ a \in Accounts /\ t \in Thread
    BY <1>9 DEF Query, OneGraph, Accounts, AccountInv, RowsOnce, InfoOf, Thread
  <2>2. GetGraphSession(t, g0, d0, BaseGraph) /\ UNCHANGED <<rows, pending, disk, content, fresh, owed, early>>
    BY <1>3, <1>9, <2>1 DEF Query
  <2>3. /\ graphs'[BaseGraph] \in {NoStore, BaseGraph}
        /\ \A u \in Thread : session'[u][BaseGraph] \in {NoStore, BaseGraph}
    BY <1>2, <1>3, <1>4, <2>1, <2>2, BaseSession
  <2>4. QED
    BY <2>2, <2>3 DEF OneGraph, Accounts, InfoOf
<1>10. CASE UNCHANGED vars \/ \E t \in Reader : EndQueries(t)
  <2>1. UNCHANGED <<rows, pending, disk, graphs, content, fresh, owed, early>>
    BY <1>10 DEF EndQueries, vars
  <2>2. \A u \in Thread : session'[u][BaseGraph] \in {NoStore, BaseGraph}
    <3>1. CASE UNCHANGED session
      BY <3>1 DEF OneGraph
    <3>2. CASE \E t \in Reader : session' = [session EXCEPT ![t] = NoSessions]
      BY <1>1, <3>2 DEF OneGraph, TypeOK, NoSessions
    <3>3. QED
      BY <1>10, <3>1, <3>2 DEF EndQueries, vars
  <2>3. QED
    BY <2>1, <2>2 DEF OneGraph, Accounts, InfoOf
<1>11. CASE Commit
  <2>1. \A a \in Account : InfoOf(a)' = InfoOf(a) /\ rows'[a] = InfoOf(a)
    BY <1>11 DEF Commit, InfoOf, NoRows
  <2>2. \A u \in Thread : session'[u][BaseGraph] \in {NoStore, BaseGraph}
    BY <1>1, <1>11 DEF Commit, OneGraph, TypeOK, NoSessions
  <2>3. QED
    BY <1>11, <2>1, <2>2 DEF OneGraph, Accounts, Commit
<1>12. CASE Restart
  <2>1. \A a \in Account : InfoOf(a)' = rows[a]
    BY <1>12 DEF Restart, InfoOf, NoRows
  <2>2. \A u \in Thread : session'[u][BaseGraph] \in {NoStore, BaseGraph}
    BY <1>1, <1>12 DEF Restart, OneGraph, TypeOK, NoSessions
  <2>3. graphs'[BaseGraph] \in {NoStore, BaseGraph}
    BY <1>1, <1>12 DEF Restart, OneGraph, ManagerOn
  <2>4. UNCHANGED <<rows, content, owed>> /\ fresh' = {}
    BY <1>12 DEF Restart
  <2>5. QED
    BY <2>1, <2>2, <2>3, <2>4 DEF OneGraph, Accounts
<1>13. QED
  BY <1>5, <1>7, <1>8, <1>9, <1>10, <1>11, <1>12 DEF Next

\* As long as there is no later master, a thread that queries an account sees
\* everything committed blocks have persisted about it.
THEOREM OneGraphKeeps == LaterMaster = {} => (Spec => []GraphsKeep)
<1> SUFFICES ASSUME LaterMaster = {} PROVE Spec => []GraphsKeep
  OBVIOUS
<1>1. Init => AccountInv /\ OneGraph
  <2>1. Init => OneGraph
    BY DEF Init, OneGraph, ManagerOn, NoRows, NoSessions, Accounts, InfoOf, Name
  <2>2. QED
    BY <2>1, InitInv DEF AncestryInv
<1>2. AccountInv /\ OneGraph /\ [Next]_vars => AccountInv' /\ OneGraph'
  BY NextInv, OneGraphStep
<1>3. AccountInv /\ OneGraph => GraphsKeep
  <2> SUFFICES ASSUME AccountInv, OneGraph, NEW a \in owed, NEW t \in Thread
               PROVE  /\ StoreFor(t, rows[a].graph) # NoStore
                      /\ a \in content[StoreFor(t, rows[a].graph)]
    BY DEF GraphsKeep, Seen
  <2>1. a \in Account /\ rows[a] # NoRow /\ rows[a].graph = BaseGraph
    BY DEF AccountInv, TypeOK, NamedContent, OneGraph
  <2>2. BaseGraph \in disk
    BY <2>1 DEF AccountInv, RowsOnce, Accounts, InfoOf
  <2>3. StoreFor(t, BaseGraph) = BaseGraph
    BY <2>2 DEF StoreFor, SessionOn, Opened, OneGraph
  <2>4. BaseGraph # NoStore
    BY DEF Name
  <2>5. QED
    BY <2>1, <2>3, <2>4 DEF OneGraph
<1>4. QED
  BY <1>1, <1>2, <1>3, PTL DEF Spec
=============================================================================
