------------------------------ MODULE AuthCache ------------------------------
(***************************************************************************)
(* require_api_key on several tasks: each task keeps, per key_id, the      *)
(* digest of the token it verified last and the principal it resolved, and *)
(* serves repeat callers from there until the entry is older than the      *)
(* time-to-live.  Meanwhile an operator may change the row of a key (its   *)
(* scope or rate limit) or revoke it, and a verification may still be      *)
(* under way that read the row before.                                     *)
(***************************************************************************)
EXTENDS Integers

CONSTANTS
    Requests,  \* requests with a well-formed token
    Tasks,     \* API processes, each with a cache of its own
    Keys,      \* key_id values
    Ttl,       \* api_key_cache_ttl_seconds: 300
    MaxVerify, \* bound on the ticks from reading the row to the put
    MaxRow,    \* bound on the contents a key's row takes one after another
    MaxTime,   \* bound on the clock
    Revoked,   \* the row of a key with revoked_at set
    Nothing    \* no cache entry; no principal

Rows  == 1..MaxRow
Never == MaxTime + 1  \* the time a row stops being current that has not yet

\* The secret half of a token: the key's own, or another.
Tokens == [key : Keys, right : BOOLEAN]

Entries == [principal : Rows, cachedAt : Nat]

ASSUME TimesAssumption ==
    /\ Ttl \in Nat
    /\ MaxVerify \in Nat
    /\ MaxRow \in Nat \ {0}
    /\ MaxTime \in Nat
ASSUME NullsAssumption ==
    /\ Revoked \notin Rows
    /\ Nothing \notin Rows
    /\ Nothing \notin Entries

VARIABLES
    now,      \* the clock
    row,      \* the row of each key: what it grants, or Revoked
    ended,    \* history: when each content of a row stopped being current
    cache,    \* each task's cache
    pc,       \* where each request is
    task,     \* the task that serves it
    token,    \* the token it presents
    found,    \* the principal that verify_api_key resolved for it, or Nothing
    lookedAt  \* when it read the row

keyVars == <<row, ended>>
vars    == <<now, row, ended, cache, pc, task, token, found, lookedAt>>

-----------------------------------------------------------------------------
Fresh(entry) == now - entry.cachedAt <= Ttl

\* Mutant of Matches: the digests are not compared.
Matches_Any(tok) == TRUE

\* The digest of the token is the one in the entry: entries are only made of
\* tokens that were verified.
Matches(tok) == tok.right

\* find_active_key_by_key_id.
Active(k) == IF row[k] = Revoked THEN Nothing ELSE row[k]

-----------------------------------------------------------------------------
Init ==
    /\ now = 0
    /\ row = [k \in Keys |-> 1]
    /\ ended = [k \in Keys |-> [v \in Rows |-> Never]]
    /\ cache = [t \in Tasks |-> [k \in Keys |-> Nothing]]
    /\ pc = [r \in Requests |-> "idle"]
    /\ task \in [Requests -> Tasks]
    /\ token \in [Requests -> Tokens]
    /\ found = [r \in Requests |-> Nothing]
    /\ lookedAt = [r \in Requests |-> 0]

\* Mutant of Hit: every use of an entry makes it younger.
Hit_Sliding(r) ==
    LET t == task[r]  k == token[r].key IN
    /\ pc[r] = "idle"
    /\ cache[t][k] # Nothing
    /\ Fresh(cache[t][k])
    /\ Matches(token[r])
    /\ cache' = [cache EXCEPT ![t][k].cachedAt = now]
    /\ pc' = [pc EXCEPT ![r] = "admitted"]
    /\ found' = [found EXCEPT ![r] = cache[t][k].principal]
    /\ UNCHANGED <<now, keyVars, task, token, lookedAt>>

\* A fresh and matching entry answers without a lookup.
Hit(r) ==
    LET t == task[r]  k == token[r].key IN
    /\ pc[r] = "idle"
    /\ cache[t][k] # Nothing
    /\ Fresh(cache[t][k])
    /\ Matches(token[r])
    /\ pc' = [pc EXCEPT ![r] = "admitted"]
    /\ found' = [found EXCEPT ![r] = cache[t][k].principal]
    /\ UNCHANGED <<now, keyVars, cache, task, token, lookedAt>>

\* An entry that is too old is deleted; another token's entry is left alone.
Miss(r) ==
    LET t == task[r]  k == token[r].key IN
    /\ pc[r] = "idle"
    /\ \/ /\ cache[t][k] = Nothing
          /\ UNCHANGED cache
       \/ /\ cache[t][k] # Nothing
          /\ ~Fresh(cache[t][k])
          /\ cache' = [cache EXCEPT ![t][k] = Nothing]
       \/ /\ cache[t][k] # Nothing
          /\ Fresh(cache[t][k])
          /\ ~Matches(token[r])
          /\ UNCHANGED cache
    /\ pc' = [pc EXCEPT ![r] = "looking"]
    /\ UNCHANGED <<now, keyVars, task, token, found, lookedAt>>

\* verify_api_key reads the row and verifies the secret against its hash.
Verify(r) ==
    /\ pc[r] = "looking"
    /\ found' = [found EXCEPT ![r] = IF token[r].right THEN Active(token[r].key) ELSE Nothing]
    /\ lookedAt' = [lookedAt EXCEPT ![r] = now]
    /\ pc' = [pc EXCEPT ![r] = "verified"]
    /\ UNCHANGED <<now, keyVars, cache, task, token>>

\* The connection is given back, then the principal is cached.
Admit(r) ==
    /\ pc[r] = "verified"
    /\ found[r] # Nothing
    /\ cache' = [cache EXCEPT ![task[r]][token[r].key] =
                           [principal |-> found[r], cachedAt |-> now]]
    /\ pc' = [pc EXCEPT ![r] = "admitted"]
    /\ UNCHANGED <<now, keyVars, task, token, found, lookedAt>>

Refuse(r) ==
    /\ pc[r] = "verified"
    /\ found[r] = Nothing
    /\ pc' = [pc EXCEPT ![r] = "refused"]
    /\ UNCHANGED <<now, keyVars, cache, task, token, found, lookedAt>>

\* The request is over and the next one arrives, on any task; or its lookup
\* failed.
Leave(r) ==
    /\ pc[r] # "idle"
    /\ pc' = [pc EXCEPT ![r] = "idle"]
    /\ found' = [found EXCEPT ![r] = Nothing]
    /\ lookedAt' = [lookedAt EXCEPT ![r] = 0]
    /\ \E t \in Tasks : task' = [task EXCEPT ![r] = t]
    /\ \E tok \in Tokens : token' = [token EXCEPT ![r] = tok]
    /\ UNCHANGED <<now, keyVars, cache>>

-----------------------------------------------------------------------------
\* An operator changes the scope or the rate limit of a key, or revokes it.
Change(k) ==
    /\ row[k] # Revoked
    /\ \/ row' = [row EXCEPT ![k] = Revoked]
       \/ row[k] < MaxRow /\ row' = [row EXCEPT ![k] = @ + 1]
    /\ ended' = [ended EXCEPT ![k][row[k]] = now]
    /\ UNCHANGED <<now, cache, pc, task, token, found, lookedAt>>

\* A task is replaced; its requests are lost with its cache.
Restart(t) ==
    /\ cache' = [cache EXCEPT ![t] = [k \in Keys |-> Nothing]]
    /\ pc' = [r \in Requests |-> IF task[r] = t THEN "idle" ELSE pc[r]]
    /\ found' = [r \in Requests |-> IF task[r] = t THEN Nothing ELSE found[r]]
    /\ lookedAt' = [r \in Requests |-> IF task[r] = t THEN 0 ELSE lookedAt[r]]
    /\ UNCHANGED <<now, keyVars, task, token>>

Tick ==
    /\ now < MaxTime
    /\ \A r \in Requests : pc[r] = "verified" => now < lookedAt[r] + MaxVerify
    /\ now' = now + 1
    /\ UNCHANGED <<keyVars, cache, pc, task, token, found, lookedAt>>

Authenticate(r) ==
    \/ Hit(r) \/ Miss(r) \/ Verify(r)
    \/ Admit(r) \/ Refuse(r) \/ Leave(r)

Next ==
    \/ \E r \in Requests : Authenticate(r)
    \/ \E k \in Keys : Change(k)
    \/ \E t \in Tasks : Restart(t)
    \/ Tick

Spec == Init /\ [][Next]_vars

-----------------------------------------------------------------------------
(***************************************************************************)
(* Properties.                                                             *)
(***************************************************************************)

\* Types; a principal is always the content of a row that was not revoked.
TypeOK ==
    /\ now \in 0..MaxTime
    /\ row \in [Keys -> Rows \cup {Revoked}]
    /\ ended \in [Keys -> [Rows -> 0..Never]]
    /\ cache \in [Tasks -> [Keys -> Entries \cup {Nothing}]]
    /\ pc \in [Requests -> {"idle", "looking", "verified", "admitted", "refused"}]
    /\ task \in [Requests -> Tasks]
    /\ token \in [Requests -> Tokens]
    /\ found \in [Requests -> Rows \cup {Nothing}]
    /\ lookedAt \in [Requests -> 0..MaxTime]

\* A request is admitted only with the right secret, through the cache or
\* not, and refused only if its secret is wrong or its key is revoked (for
\* good), whatever other tokens of the key are presented meanwhile.
AnswersRight ==
    \A r \in Requests :
       /\ pc[r] = "admitted" => token[r].right
       /\ pc[r] = "refused" => ~token[r].right \/ row[token[r].key] = Revoked

\* How stale an admission can be: the principal is current, or was until no
\* longer ago than the time-to-live and one verification that was under way.
\* So a revoked key is refused by every task from then on.
StaleBound ==
    [][ \A r \in Requests :
            pc[r] # "admitted" /\ pc'[r] = "admitted"
              => now <= ended[token[r].key][found'[r]] + Ttl + MaxVerify ]_vars

-----------------------------------------------------------------------------
(***************************************************************************)
(* The inductive invariant behind StaleBound.                              *)
(***************************************************************************)

\* The current content of a row has not ended, nor have those to come.
Endings ==
    \A k \in Keys, v \in Rows :
       row[k] # Revoked /\ row[k] <= v => ended[k][v] = Never

\* A verification under way read its row when that was current, or failed
\* for good.
Lookups ==
    \A r \in Requests :
       pc[r] = "verified" =>
          /\ lookedAt[r] <= now /\ now <= lookedAt[r] + MaxVerify
          /\ \/ /\ found[r] # Nothing
                /\ token[r].right
                /\ lookedAt[r] <= ended[token[r].key][found[r]]
             \/ /\ found[r] = Nothing
                /\ ~token[r].right \/ row[token[r].key] = Revoked

\* And so did the one that made an entry, at most MaxVerify before.
CachedEntries ==
    \A t \in Tasks, k \in Keys :
       cache[t][k] # Nothing =>
          /\ cache[t][k].cachedAt <= now
          /\ cache[t][k].cachedAt <= ended[k][cache[t][k].principal] + MaxVerify

CacheInv == TypeOK /\ AnswersRight /\ Endings /\ Lookups /\ CachedEntries

=============================================================================
