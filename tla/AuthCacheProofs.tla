--------------------------- MODULE AuthCacheProofs ----------------------------
(***************************************************************************)
(* The bound on how stale an admission can be, proved for any number of    *)
(* requests, tasks and keys and every time-to-live.                        *)
(***************************************************************************)
EXTENDS AuthCache, TLAPS

\* The state stays well typed: a principal is never a revoked row.
LEMMA NextTyped == ASSUME TypeOK, [Next]_vars PROVE TypeOK'
  <1> USE TimesAssumption, NullsAssumption DEF TypeOK, Rows, Never
  <1>1. ASSUME NEW r \in Requests, Hit(r) PROVE TypeOK'
    <2> DEFINE c == cache[task[r]][token[r].key]
    <2>1. c \in Entries
      BY <1>1 DEF Hit, Tokens
    <2>2. c.principal \in 1..MaxRow
      BY <2>1 DEF Entries
    <2> QED BY <1>1, <2>2 DEF Hit, keyVars
  <1>2. ASSUME NEW r \in Requests, Miss(r) PROVE TypeOK'
    <2>1. token[r].key \in Keys
      BY DEF Tokens
    <2>2. \/ cache' = cache
          \/ cache' = [cache EXCEPT ![task[r]][token[r].key] = Nothing]
      BY <1>2 DEF Miss
    <2>3. cache' \in [Tasks -> [Keys -> Entries \cup {Nothing}]]
      <3>1. CASE cache' = cache
        BY <3>1
      <3>2. CASE cache' = [cache EXCEPT ![task[r]][token[r].key] = Nothing]
        <4>1. task[r] \in Tasks /\ cache[task[r]] \in [Keys -> Entries \cup {Nothing}]
          OBVIOUS
        <4>2. [cache[task[r]] EXCEPT ![token[r].key] = Nothing]
                 \in [Keys -> Entries \cup {Nothing}]
          BY <4>1
        <4> QED BY <3>2, <4>1, <4>2
      <3> QED BY <2>2, <3>1, <3>2
    <2> QED BY <1>2, <2>3 DEF Miss, keyVars
  <1>3. ASSUME NEW r \in Requests, Verify(r) PROVE TypeOK'
    <2>1. token[r].key \in Keys
      BY DEF Tokens
    <2>2. Active(token[r].key) \in 1..MaxRow \cup {Nothing}
      BY <2>1 DEF Active
    <2>3. found' \in [Requests -> 1..MaxRow \cup {Nothing}]
      BY <1>3, <2>2 DEF Verify
    <2> QED BY <1>3, <2>3 DEF Verify, keyVars
  <1>4. ASSUME NEW r \in Requests, Admit(r) PROVE TypeOK'
    <2>1. [principal |-> found[r], cachedAt |-> now] \in Entries
      BY <1>4 DEF Admit, Entries
    <2>2. cache' \in [Tasks -> [Keys -> Entries \cup {Nothing}]]
      BY <1>4, <2>1 DEF Admit, Tokens
    <2> QED BY <1>4, <2>2 DEF Admit, keyVars
  <1>5. ASSUME NEW r \in Requests, Refuse(r) PROVE TypeOK'
    BY <1>5 DEF Refuse, keyVars
  <1>6. ASSUME NEW r \in Requests, Leave(r) PROVE TypeOK'
    BY <1>6 DEF Leave, keyVars
  <1>7. ASSUME NEW k \in Keys, Change(k) PROVE TypeOK'
    <2>1. row[k] \in 1..MaxRow
      BY <1>7 DEF Change
    <2>2. row' \in [Keys -> 1..MaxRow \cup {Revoked}]
      <3>1. CASE row' = [row EXCEPT ![k] = Revoked]
        BY <3>1
      <3>2. CASE row[k] < MaxRow /\ row' = [row EXCEPT ![k] = row[k] + 1]
        <4>1. row[k] + 1 \in 1..MaxRow
          BY <2>1, <3>2
        <4> QED BY <3>2, <4>1
      <3> QED BY <1>7, <3>1, <3>2 DEF Change
    <2>3. now \in 0..MaxTime + 1
      OBVIOUS
    <2>4. ended' \in [Keys -> [1..MaxRow -> 0..MaxTime + 1]]
      BY <1>7, <2>1, <2>3 DEF Change
    <2> QED BY <1>7, <2>2, <2>4 DEF Change
  <1>8. ASSUME NEW t \in Tasks, Restart(t) PROVE TypeOK'
    BY <1>8 DEF Restart, keyVars
  <1>9. CASE Tick
    BY <1>9 DEF Tick, keyVars
  <1>10. CASE UNCHANGED vars
    BY <1>10 DEF vars, keyVars
  <1> QED
    BY <1>1, <1>2, <1>3, <1>4, <1>5, <1>6, <1>7, <1>8, <1>9, <1>10 DEF Next, Authenticate

\* No step of a request, of an operator or of the clock breaks the bounds.
LEMMA NextCacheInv == ASSUME CacheInv, [Next]_vars PROVE CacheInv'
  <1> USE TimesAssumption, NullsAssumption DEF CacheInv
  <1>0. TypeOK'
    BY NextTyped
  <1>1. ASSUME NEW r \in Requests, Hit(r) PROVE CacheInv'
    <2>1. AnswersRight'
      BY <1>1 DEF Hit, AnswersRight, keyVars, Matches, TypeOK
    <2>2. (Endings /\ CachedEntries)'
      BY <1>1 DEF Hit, keyVars, Endings, CachedEntries
    <2>3. Lookups'
      BY <1>1 DEF Hit, keyVars, Lookups, TypeOK
    <2> QED BY <1>0, <2>1, <2>2, <2>3
  <1>2. ASSUME NEW r \in Requests, Miss(r) PROVE CacheInv'
    <2>1. AnswersRight'
      BY <1>2 DEF Miss, AnswersRight, keyVars, TypeOK
    <2>2. Endings' /\ Lookups'
      BY <1>2 DEF Miss, keyVars, Endings, Lookups, TypeOK
    <2>3. CachedEntries'
      <3>1. token[r].key \in Keys /\ task[r] \in Tasks
        BY DEF TypeOK, Tokens
      <3>2. \/ cache' = cache
            \/ cache' = [cache EXCEPT ![task[r]][token[r].key] = Nothing]
        BY <1>2 DEF Miss
      <3>3. \A t \in Tasks, k \in Keys : cache'[t][k] \in {cache[t][k], Nothing}
        <4>1. CASE cache' = cache
          BY <4>1
        <4>2. CASE cache' = [cache EXCEPT ![task[r]][token[r].key] = Nothing]
          <5> SUFFICES ASSUME NEW t \in Tasks, NEW k \in Keys
                       PROVE  cache'[t][k] \in {cache[t][k], Nothing}
            OBVIOUS
          <5>1. cache \in [Tasks -> [Keys -> Entries \cup {Nothing}]]
            BY DEF TypeOK
          <5>2. CASE t = task[r] /\ k = token[r].key
            BY <3>1, <4>2, <5>1, <5>2
          <5>3. CASE ~(t = task[r] /\ k = token[r].key)
            BY <3>1, <4>2, <5>1, <5>3
          <5> QED BY <5>2, <5>3
        <4> QED BY <3>2, <4>1, <4>2
      <3>4. now' = now /\ ended' = ended
        BY <1>2 DEF Miss, keyVars
      <3> SUFFICES ASSUME NEW t \in Tasks, NEW k \in Keys, cache'[t][k] # Nothing
                   PROVE  /\ cache'[t][k].cachedAt <= now
                          /\ cache'[t][k].cachedAt <= ended[k][cache'[t][k].principal] + MaxVerify
        BY <3>4 DEF CachedEntries
      <3>5. cache'[t][k] = cache[t][k]
        BY <3>3
      <3> QED BY <3>5 DEF CachedEntries
    <2> QED BY <1>0, <2>1, <2>2, <2>3
  <1>3. ASSUME NEW r \in Requests, Verify(r) PROVE CacheInv'
    <2>1. AnswersRight'
      BY <1>3 DEF Verify, AnswersRight, keyVars, TypeOK
    <2>2. (Endings /\ CachedEntries)'
      BY <1>3 DEF Verify, keyVars, Endings, CachedEntries
    <2>3. Lookups'
      <3>1. token[r].key \in Keys
        BY DEF TypeOK, Tokens
      <3>2. found'[r] = IF token[r].right THEN Active(token[r].key) ELSE Nothing
        BY <1>3 DEF Verify, TypeOK
      <3>3. \/ /\ found'[r] # Nothing
               /\ token[r].right
               /\ now <= ended[token[r].key][found'[r]]
            \/ /\ found'[r] = Nothing
               /\ ~token[r].right \/ row[token[r].key] = Revoked
        <4>1. CASE token[r].right /\ row[token[r].key] # Revoked
          <5>1. found'[r] = row[token[r].key] /\ row[token[r].key] \in Rows
            BY <3>1, <3>2, <4>1 DEF Active, TypeOK
          <5>2. ended[token[r].key][found'[r]] = Never
            BY <3>1, <4>1, <5>1 DEF Endings, Rows
          <5>3. found'[r] # Nothing
            BY <5>1
          <5> QED BY <4>1, <5>2, <5>3 DEF TypeOK, Never
        <4>2. CASE ~(token[r].right /\ row[token[r].key] # Revoked)
          BY <3>2, <4>2 DEF Active
        <4> QED BY <4>1, <4>2
      <3>4. now <= now + MaxVerify /\ now <= now
        BY DEF TypeOK
      <3>5. lookedAt'[r] = now
        BY <1>3 DEF Verify, TypeOK
      <3> QED BY <1>3, <3>3, <3>4, <3>5 DEF Verify, Lookups, keyVars, TypeOK
    <2> QED BY <1>0, <2>1, <2>2, <2>3
  <1>4. ASSUME NEW r \in Requests, Admit(r) PROVE CacheInv'
    <2> DEFINE k == token[r].key
    <2>1. k \in Keys /\ found[r] \in Rows /\ ended[k][found[r]] \in 0..Never
      BY <1>4 DEF Admit, TypeOK, Tokens
    <2>2. now <= lookedAt[r] + MaxVerify /\ lookedAt[r] <= ended[k][found[r]] /\ token[r].right
      BY <1>4 DEF Admit, Lookups
    <2>3. now <= ended[k][found[r]] + MaxVerify
      BY <2>1, <2>2 DEF TypeOK, Never
    <2>4. CachedEntries'
      BY <1>4, <2>1, <2>3 DEF Admit, keyVars, CachedEntries, TypeOK
    <2>5. AnswersRight'
      BY <1>4, <2>2 DEF Admit, AnswersRight, keyVars, TypeOK
    <2>6. Endings' /\ Lookups'
      BY <1>4 DEF Admit, keyVars, Endings, Lookups, TypeOK
    <2> QED BY <1>0, <2>4, <2>5, <2>6
  <1>5. ASSUME NEW r \in Requests, Refuse(r) PROVE CacheInv'
    <2>1. (Endings /\ CachedEntries)'
      BY <1>5 DEF Refuse, keyVars, Endings, CachedEntries
    <2>2. Lookups'
      BY <1>5 DEF Refuse, keyVars, Lookups, TypeOK
    <2>3. ~token[r].right \/ row[token[r].key] = Revoked
      BY <1>5 DEF Refuse, Lookups
    <2>4. AnswersRight'
      BY <1>5, <2>3 DEF Refuse, keyVars, AnswersRight, TypeOK
    <2> QED BY <1>0, <2>1, <2>2, <2>4
  <1>6. ASSUME NEW r \in Requests, Leave(r) PROVE CacheInv'
    <2>1. AnswersRight'
      BY <1>6 DEF Leave, AnswersRight, keyVars, TypeOK
    <2>2. Endings' /\ CachedEntries' /\ Lookups'
      BY <1>6 DEF Leave, keyVars, Endings, CachedEntries, Lookups, TypeOK
    <2> QED BY <1>0, <2>1, <2>2
  <1>7. ASSUME NEW k \in Keys, Change(k) PROVE CacheInv'
    <2>1. row[k] \in Rows /\ now \in Nat
      BY <1>7 DEF Change, TypeOK
    <2>2. /\ \A j \in Keys, v \in Rows :
                ended'[j][v] = IF j = k /\ v = row[k] THEN now ELSE ended[j][v]
          /\ \A j \in Keys : j # k => row'[j] = row[j]
          /\ row'[k] = Revoked \/ row'[k] = row[k] + 1
      BY <1>7, <2>1 DEF Change, TypeOK, Rows
    <2>3. Endings'
      <3> SUFFICES ASSUME NEW j \in Keys, NEW v \in Rows, row'[j] # Revoked, row'[j] <= v
                   PROVE  ended'[j][v] = Never
        BY DEF Endings
      <3>1. CASE j = k
        <4>1. row[k] # Revoked /\ row[k] <= v /\ v # row[k]
          BY <1>7, <2>1, <2>2, <3>1 DEF Change, Rows
        <4> QED BY <2>2, <3>1, <4>1 DEF Endings
      <3>2. CASE j # k
        BY <2>2, <3>2 DEF Endings
      <3> QED BY <3>1, <3>2
    <2>4. Lookups'
      <3> SUFFICES ASSUME NEW r \in Requests, pc[r] = "verified"
                   PROVE  /\ lookedAt[r] <= now /\ now <= lookedAt[r] + MaxVerify
                          /\ \/ /\ found[r] # Nothing
                                /\ token[r].right
                                /\ lookedAt[r] <= ended'[token[r].key][found[r]]
                             \/ /\ found[r] = Nothing
                                /\ ~token[r].right \/ row'[token[r].key] = Revoked
        BY <1>7 DEF Change, Lookups
      <3>1. token[r].key \in Keys /\ found[r] \in Rows \cup {Nothing}
        BY DEF TypeOK, Tokens
      <3>2. row[token[r].key] = Revoked => row'[token[r].key] = Revoked
        BY <1>7, <2>2, <3>1 DEF Change
      <3>3. CASE found[r] = Nothing
        BY <3>2, <3>3 DEF Lookups
      <3>4. CASE found[r] # Nothing
        BY <2>2, <3>1, <3>4 DEF Lookups
      <3> QED BY <3>3, <3>4
    <2>5. CachedEntries'
      <3> SUFFICES ASSUME NEW t \in Tasks, NEW j \in Keys, cache[t][j] # Nothing
                   PROVE  /\ cache[t][j].cachedAt <= now
                          /\ cache[t][j].cachedAt <= ended'[j][cache[t][j].principal] + MaxVerify
        BY <1>7 DEF Change, CachedEntries
      <3>1. cache[t][j].principal \in Rows /\ cache[t][j].cachedAt \in Nat
        BY DEF TypeOK, Entries
      <3>2. cache[t][j].cachedAt <= now + MaxVerify
        BY <2>1, <3>1 DEF CachedEntries
      <3> QED BY <2>2, <3>1, <3>2 DEF CachedEntries
    <2>6. AnswersRight'
      <3> SUFFICES ASSUME NEW r \in Requests
                   PROVE  /\ pc[r] = "admitted" => token[r].right
                          /\ pc[r] = "refused" => ~token[r].right \/ row'[token[r].key] = Revoked
        BY <1>7 DEF Change, AnswersRight
      <3> QED BY <1>7 DEF Change, AnswersRight, TypeOK, Tokens
    <2> QED BY <1>0, <2>3, <2>4, <2>5, <2>6
  <1>8. ASSUME NEW t \in Tasks, Restart(t) PROVE CacheInv'
    <2>1. AnswersRight' /\ Endings' /\ Lookups'
      BY <1>8 DEF Restart, AnswersRight, keyVars, Endings, Lookups
    <2>2. CachedEntries'
      BY <1>8 DEF Restart, keyVars, CachedEntries, TypeOK
    <2> QED BY <1>0, <2>1, <2>2
  <1>9. CASE Tick
    <2>1. now \in Nat /\ now' = now + 1
      BY <1>9 DEF Tick, TypeOK
    <2>2. AnswersRight' /\ Endings'
      BY <1>9 DEF Tick, AnswersRight, keyVars, Endings
    <2>3. Lookups'
      BY <1>9, <2>1 DEF Tick, keyVars, Lookups, TypeOK
    <2>4. CachedEntries'
      <3> SUFFICES ASSUME NEW t \in Tasks, NEW j \in Keys, cache[t][j] # Nothing
                   PROVE  /\ cache[t][j].cachedAt <= now'
                          /\ cache[t][j].cachedAt <= ended[j][cache[t][j].principal] + MaxVerify
        BY <1>9 DEF Tick, keyVars, CachedEntries
      <3>1. cache[t][j].cachedAt \in Nat
        BY DEF TypeOK, Entries
      <3> QED BY <2>1, <3>1 DEF CachedEntries
    <2> QED BY <1>0, <2>2, <2>3, <2>4
  <1>10. CASE UNCHANGED vars
    BY <1>0, <1>10 DEF vars, Endings, Lookups, CachedEntries, AnswersRight
  <1> QED
    BY <1>1, <1>2, <1>3, <1>4, <1>5, <1>6, <1>7, <1>8, <1>9, <1>10 DEF Next, Authenticate

\* CacheInv is an invariant of the caches.
THEOREM CacheInvariance == Spec => []CacheInv
  <1>1. Init => CacheInv
    BY TimesAssumption, NullsAssumption
       DEF Init, CacheInv, TypeOK, AnswersRight, Endings, Lookups, CachedEntries, Rows, Never
  <1>2. CacheInv /\ [Next]_vars => CacheInv'
    BY NextCacheInv
  <1> QED BY <1>1, <1>2, PTL DEF Spec

\* Only the right secret is admitted, and only a wrong secret or a revoked
\* key refused.
THEOREM AnswersAreRight == Spec => []AnswersRight
  <1>1. CacheInv => AnswersRight
    BY DEF CacheInv
  <1> QED BY <1>1, CacheInvariance, PTL

\* No task admits with a principal that stopped being current longer ago
\* than the time-to-live and one verification.
THEOREM StalenessBounded == Spec => StaleBound
  <1>1. CacheInv /\ [Next]_vars =>
          \A r \in Requests :
             pc[r] # "admitted" /\ pc'[r] = "admitted"
               => now <= ended[token[r].key][found'[r]] + Ttl + MaxVerify
    <2> SUFFICES ASSUME CacheInv, [Next]_vars, NEW r \in Requests,
                        pc[r] # "admitted", pc'[r] = "admitted"
                 PROVE  now <= ended[token[r].key][found'[r]] + Ttl + MaxVerify
      OBVIOUS
    <2> USE TimesAssumption, NullsAssumption DEF CacheInv
    <2> DEFINE k == token[r].key
    <2>1. k \in Keys /\ task[r] \in Tasks /\ now \in Nat
      BY DEF TypeOK, Tokens
    <2>2. Hit(r) \/ Admit(r)
      <3>1. ASSUME NEW q \in Requests, Hit(q) \/ Admit(q) PROVE q = r
        BY <3>1 DEF Hit, Admit, TypeOK
      <3>2. ASSUME NEW q \in Requests, Miss(q) \/ Verify(q) \/ Refuse(q) \/ Leave(q) PROVE FALSE
        BY <3>2 DEF Miss, Verify, Refuse, Leave, TypeOK
      <3>3. ASSUME NEW t \in Tasks, Restart(t) PROVE FALSE
        BY <3>3 DEF Restart
      <3>4. CASE (\E q \in Keys : Change(q)) \/ Tick \/ UNCHANGED vars
        BY <3>4 DEF Change, Tick, vars
      <3> QED BY <3>1, <3>2, <3>3, <3>4 DEF Next, Authenticate
    <2>3. CASE Hit(r)
      <3> DEFINE c == cache[task[r]][k]
      <3>1. c # Nothing /\ now - c.cachedAt <= Ttl /\ found'[r] = c.principal
        BY <2>3 DEF Hit, Fresh, TypeOK
      <3>2. c \in Entries
        BY <2>1, <3>1 DEF TypeOK
      <3>3. c.cachedAt \in Nat /\ c.principal \in Rows
        BY <3>2 DEF Entries
      <3>4. ended[k][c.principal] \in Nat
        BY <2>1, <3>3 DEF TypeOK, Never
      <3>5. c.cachedAt <= ended[k][c.principal] + MaxVerify
        BY <2>1, <3>1 DEF CachedEntries
      <3> QED BY <2>1, <3>1, <3>3, <3>4, <3>5
    <2>4. CASE Admit(r)
      <3>1. found'[r] = found[r] /\ found[r] \in Rows
        BY <2>4 DEF Admit, TypeOK
      <3>2. ended[k][found[r]] \in Nat /\ lookedAt[r] \in Nat
        BY <2>1, <3>1 DEF TypeOK, Never
      <3>3. now <= lookedAt[r] + MaxVerify /\ lookedAt[r] <= ended[k][found[r]]
        BY <2>4 DEF Admit, Lookups
      <3> QED BY <2>1, <3>1, <3>2, <3>3
    <2> QED BY <2>2, <2>3, <2>4
  <1> QED BY <1>1, CacheInvariance, PTL DEF Spec, StaleBound

=============================================================================
