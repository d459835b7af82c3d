---------------------------- MODULE TenantsProofs -----------------------------
(***************************************************************************)
(* Theorems about Tenants, for any number of tenants, routed messages and  *)
(* changes.  The caches are written from copies taken earlier, so the      *)
(* proofs follow every copy of a configuration: in the table, in the       *)
(* caches, with a reader and with a request that changes it.               *)
(***************************************************************************)
EXTENDS Tenants, TLAPS

-----------------------------------------------------------------------------
(* The inductive invariant *)

\* Who works with a tenant knows its tag; a copy on its way to a cache is one
\* of a tenant that was there.
PlacesInv ==
  /\ change \in [Admins -> [tag : Tags \cup {NoTag}, to : Configs]]
  /\ \A r \in Readers : at[r] \in {"config", "query", "fill", "store"} => found[r] \in Tags
  /\ \A r \in Readers : at[r] \in {"fill", "store"} => config[r] # NotThere
  /\ \A a \in Admins : admin[a] # "idle" => change[a].tag \in Tags

Written(t) == \E a \in Admins : Changes(a, t) /\ admin[a] = "cache"
HasCopy(r, t) == found[r] = t /\ at[r] \in {"fill", "store"}

\* A tenant that was never crossed has one change at a time; once that one has
\* updated the cache, the cache and every copy that readers carry are current,
\* and once it is over the client is too.
CopiesInv ==
  \A t \in Tags \ crossed :
    /\ \A a, b \in Admins : Changes(a, t) /\ Changes(b, t) => a = b
    /\ \A a \in Admins : Changes(a, t) /\ admin[a] = "cache" => change[a].to = table[t]
    /\ ~Written(t) =>
         /\ cache[t] \in {Miss, table[t]}
         /\ \A r \in Readers : HasCopy(r, t) => config[r] = table[t]
    /\ ~Changing(t) => clients[t] \in {Miss, table[t]}

\* Configurations are numbered in the order they are written.
NumberInv ==
  \A t \in Tags : table[t] <= changes /\ \A r \in Readers : known[r][t] <= changes

\* No copy of a tenant that was never crossed is older than what a reader knew
\* when it began.
KnownInv ==
  \A r \in Readers, t \in Tags \ crossed : at[r] # "idle" =>
    /\ table[t] = NotThere \/ table[t] >= known[r][t]
    /\ cache[t] = Miss \/ cache[t] >= known[r][t]
    /\ clients[t] = Miss \/ clients[t] >= known[r][t]
    /\ \A o \in Readers : HasCopy(o, t) => config[o] >= known[r][t]

\* As long as the instance had an owner and no tenant was deleted, every tag
\* in use has a tenant.
BareInv ==
  ~bare =>
    /\ owner \in Tags /\ \A t \in Tags : table[t] # NotThere
    /\ tag.fresh => tag.tag \in Tags
    /\ \A r \in Readers : at[r] \in {"keep", "client"} => found[r] \in Tags

TenantsInv ==
  /\ TenantsTypeOK /\ PlacesInv /\ CopiesInv /\ NumberInv /\ KnownInv /\ BareInv
  /\ ServedByCurrent /\ GlobalOnlyIfBare

-----------------------------------------------------------------------------
(* Steps *)

USE TenantsAssumption DEF TenantsTypeOK, Places, Configs, NoTag, NoChange, Miss, NotThere, Nothing,
  reader, changing, bounds

\* A call begins.
LEMMA StartInv ==
  ASSUME TenantsInv, NEW r \in Readers, Start(r)
  PROVE  TenantsInv'
<1>0. /\ TenantsTypeOK /\ PlacesInv /\ CopiesInv /\ NumberInv /\ KnownInv /\ BareInv
      /\ ServedByCurrent /\ GlobalOnlyIfBare
  BY DEF TenantsInv
<1>1. TenantsTypeOK'
  <2>1. at' \in [Readers -> Places]
    <3>1. at' = [at EXCEPT ![r] = "client"] \/ at' = [at EXCEPT ![r] = "select"]
      BY DEF Start, Goes
    <3> QED BY <1>0, <3>1
  <2>2. found' \in [Readers -> Tags \cup {NoTag}]
    BY <1>0 DEF Start, Goes
  <2>3. config' \in [Readers -> Configs]
    BY <1>0 DEF Start, Goes
  <2>4. known' \in [Readers -> [Tags -> Configs]]
    BY <1>0 DEF Start, Goes
  <2>5. failures' \in 0 .. MaxFailures
    BY <1>0 DEF Start, Goes
  <2>6. UNCHANGED <<lookups, owner, table, cache, clients, tag, admin, change, changes, owners, crossed, bare>>
    BY DEF Start
  <2> QED BY <1>0, <2>1, <2>2, <2>3, <2>4, <2>5, <2>6
<1>2. PlacesInv'
  <2>1. /\ at'[r] \in {"select", "client"} /\ UNCHANGED <<admin, change>>
        /\ \A q \in Readers \ {r} : at'[q] = at[q] /\ found'[q] = found[q] /\ config'[q] = config[q]
    BY <1>0 DEF Start, Goes
  <2> QED BY <1>0, <2>1 DEF PlacesInv
<1>3. CopiesInv'
  BY <1>0 DEF PlacesInv, CopiesInv, Written, HasCopy, Holds, Changing, Changes, Start, Goes
<1>4. NumberInv'
  BY <1>0 DEF NumberInv, PlacesInv, Start, Goes
<1>5. KnownInv'
  <2>1. /\ at[r] = "idle" /\ \A q \in Readers \ {r} : at'[q] = at[q] /\ known'[q] = known[q]
        /\ \A o \in Readers, t \in Tags : HasCopy(o, t)' => HasCopy(o, t) /\ config'[o] = config[o]
        /\ UNCHANGED <<table, cache, clients, crossed>>
    BY <1>0 DEF Start, Goes, HasCopy
  <2>2. \A t \in Tags : known'[r][t] = NotThere \/ (known'[r][t] = table[t] /\ \A a \in Admins : admin[a] = "idle")
    BY <1>0 DEF Start
  <2>3. ASSUME NEW t \in Tags \ crossed
        PROVE  /\ table[t] = NotThere \/ table[t] >= known'[r][t]
               /\ cache[t] = Miss \/ cache[t] >= known'[r][t]
               /\ clients[t] = Miss \/ clients[t] >= known'[r][t]
               /\ \A o \in Readers : HasCopy(o, t) => config[o] >= known'[r][t]
    <3>1. CASE known'[r][t] = NotThere
      BY <1>0, <3>1
    <3>2. CASE known'[r][t] = table[t] /\ \A a \in Admins : admin[a] = "idle"
      BY <1>0, <3>2 DEF CopiesInv, Written, Changing, Changes
    <3> QED BY <2>2, <3>1, <3>2
  <2> QED BY <1>0, <2>1, <2>3 DEF KnownInv
<1>6. BareInv'
  BY <1>0 DEF BareInv, Bare, PlacesInv, Start, Goes
<1>7. ServedByCurrent'
  BY <1>0 DEF ServedByCurrent, KnownInv, HasCopy, BareInv, PlacesInv, Start, Goes
<1>8. GlobalOnlyIfBare'
  BY <1>0 DEF GlobalOnlyIfBare, BareInv, PlacesInv, Start, Goes
<1> QED BY <1>1, <1>2, <1>3, <1>4, <1>5, <1>6, <1>7, <1>8 DEF TenantsInv

\* It reads the tag.
LEMMA SelectTagInv ==
  ASSUME TenantsInv, NEW r \in Readers, SelectTag(r)
  PROVE  TenantsInv'
<1>0. /\ TenantsTypeOK /\ PlacesInv /\ CopiesInv /\ NumberInv /\ KnownInv /\ BareInv
      /\ ServedByCurrent /\ GlobalOnlyIfBare
  BY DEF TenantsInv
<1>1. TenantsTypeOK'
  <2>1. at' \in [Readers -> Places]
    BY <1>0 DEF SelectTag, Goes, Fails
  <2>2. found' \in [Readers -> Tags \cup {NoTag}]
    BY <1>0 DEF SelectTag, Goes, Fails
  <2>3. config' \in [Readers -> Configs]
    BY <1>0 DEF SelectTag, Goes, Fails
  <2>4. known' \in [Readers -> [Tags -> Configs]]
    BY <1>0 DEF SelectTag, Goes, Fails
  <2>5. failures' \in 0 .. MaxFailures
    BY <1>0 DEF SelectTag, Goes, Fails
  <2>6. UNCHANGED <<lookups, owner, table, cache, clients, tag, admin, change, changes, owners, crossed, bare>>
    BY DEF SelectTag
  <2> QED BY <1>0, <2>1, <2>2, <2>3, <2>4, <2>5, <2>6
<1>2. PlacesInv'
  <2>1. /\ at'[r] \in {"keep", "done"} /\ UNCHANGED <<admin, change, config>>
        /\ \A q \in Readers \ {r} : at'[q] = at[q] /\ found'[q] = found[q]
    BY <1>0 DEF SelectTag, Goes
  <2> QED BY <1>0, <2>1 DEF PlacesInv
<1>3. CopiesInv'
  BY <1>0 DEF PlacesInv, CopiesInv, Written, HasCopy, Holds, Changing, Changes, SelectTag, Goes, Fails
<1>4. NumberInv'
  BY <1>0 DEF NumberInv, PlacesInv, SelectTag, Goes, Fails
<1>5. KnownInv'
  BY <1>0 DEF KnownInv, CopiesInv, NumberInv, Written, HasCopy, Holds, Changing, Changes, PlacesInv,
     SelectTag, Goes, Fails
<1>6. BareInv'
  BY <1>0 DEF BareInv, Bare, PlacesInv, SelectTag, Goes, Fails
<1>7. ServedByCurrent'
  BY <1>0 DEF ServedByCurrent, KnownInv, HasCopy, BareInv, PlacesInv, SelectTag, Goes, Fails
<1>8. GlobalOnlyIfBare'
  BY <1>0 DEF GlobalOnlyIfBare, BareInv, PlacesInv, SelectTag, Goes, Fails
<1> QED BY <1>1, <1>2, <1>3, <1>4, <1>5, <1>6, <1>7, <1>8 DEF TenantsInv

\* It keeps the tag.
LEMMA KeepTagInv ==
  ASSUME TenantsInv, NEW r \in Readers, KeepTag(r)
  PROVE  TenantsInv'
<1>0. /\ TenantsTypeOK /\ PlacesInv /\ CopiesInv /\ NumberInv /\ KnownInv /\ BareInv
      /\ ServedByCurrent /\ GlobalOnlyIfBare
  BY DEF TenantsInv
<1>1. TenantsTypeOK'
  BY <1>0 DEF PlacesInv, KeepTag, Goes
<1>2. PlacesInv'
  BY <1>0 DEF PlacesInv, KeepTag, Goes
<1>3. CopiesInv'
  BY <1>0 DEF PlacesInv, CopiesInv, Written, HasCopy, Holds, Changing, Changes, KeepTag, Goes
<1>4. NumberInv'
  BY <1>0 DEF NumberInv, PlacesInv, KeepTag, Goes
<1>5. KnownInv'
  BY <1>0 DEF KnownInv, CopiesInv, NumberInv, Written, HasCopy, Holds, Changing, Changes, PlacesInv,
     KeepTag, Goes
<1>6. BareInv'
  BY <1>0 DEF BareInv, Bare, PlacesInv, KeepTag, Goes
<1>7. ServedByCurrent'
  BY <1>0 DEF ServedByCurrent, KnownInv, HasCopy, BareInv, PlacesInv, KeepTag, Goes
<1>8. GlobalOnlyIfBare'
  BY <1>0 DEF GlobalOnlyIfBare, BareInv, PlacesInv, KeepTag, Goes
<1> QED BY <1>1, <1>2, <1>3, <1>4, <1>5, <1>6, <1>7, <1>8 DEF TenantsInv

\* The tag is too old.
LEMMA TagExpiresInv ==
  ASSUME TenantsInv, TagExpires
  PROVE  TenantsInv'
<1>0. /\ TenantsTypeOK /\ PlacesInv /\ CopiesInv /\ NumberInv /\ KnownInv /\ BareInv
      /\ ServedByCurrent /\ GlobalOnlyIfBare
  BY DEF TenantsInv
<1>1. TenantsTypeOK'
  BY <1>0 DEF PlacesInv, TagExpires
<1>2. PlacesInv'
  BY <1>0 DEF PlacesInv, TagExpires
<1>3. CopiesInv'
  BY <1>0 DEF PlacesInv, CopiesInv, Written, HasCopy, Holds, Changing, Changes, TagExpires
<1>4. NumberInv'
  BY <1>0 DEF NumberInv, PlacesInv, TagExpires
<1>5. KnownInv'
  BY <1>0 DEF KnownInv, CopiesInv, NumberInv, Written, HasCopy, Holds, Changing, Changes, PlacesInv,
     TagExpires
<1>6. BareInv'
  BY <1>0 DEF BareInv, Bare, PlacesInv, TagExpires
<1>7. ServedByCurrent'
  BY <1>0 DEF ServedByCurrent, KnownInv, HasCopy, BareInv, PlacesInv, TagExpires
<1>8. GlobalOnlyIfBare'
  BY <1>0 DEF GlobalOnlyIfBare, BareInv, PlacesInv, TagExpires
<1> QED BY <1>1, <1>2, <1>3, <1>4, <1>5, <1>6, <1>7, <1>8 DEF TenantsInv

\* It looks for a client.
LEMMA FindClientInv ==
  ASSUME TenantsInv, NEW r \in Readers, FindClient(r)
  PROVE  TenantsInv'
<1>0. /\ TenantsTypeOK /\ PlacesInv /\ CopiesInv /\ NumberInv /\ KnownInv /\ BareInv
      /\ ServedByCurrent /\ GlobalOnlyIfBare
  BY DEF TenantsInv
<1>1. TenantsTypeOK'
  <2>1. at' \in [Readers -> Places]
    <3>1. at' = [at EXCEPT ![r] = "done"] \/ at' = [at EXCEPT ![r] = "config"]
      BY DEF FindClient, Goes
    <3> QED BY <1>0, <3>1
  <2>2. found' \in [Readers -> Tags \cup {NoTag}]
    BY <1>0 DEF FindClient, Goes
  <2>3. config' \in [Readers -> Configs]
    BY <1>0 DEF FindClient, Goes, PlacesInv
  <2>4. known' \in [Readers -> [Tags -> Configs]]
    BY <1>0 DEF FindClient, Goes
  <2>5. failures' \in 0 .. MaxFailures
    BY <1>0 DEF FindClient, Goes
  <2>6. UNCHANGED <<lookups, owner, table, cache, clients, tag, admin, change, changes, owners, crossed, bare>>
    BY DEF FindClient
  <2> QED BY <1>0, <2>1, <2>2, <2>3, <2>4, <2>5, <2>6
<1>2. PlacesInv'
  BY <1>0 DEF PlacesInv, FindClient, Goes
<1>3. CopiesInv'
  BY <1>0 DEF PlacesInv, CopiesInv, Written, HasCopy, Holds, Changing, Changes, FindClient, Goes
<1>4. NumberInv'
  BY <1>0 DEF NumberInv, PlacesInv, FindClient, Goes
<1>5. KnownInv'
  BY <1>0 DEF KnownInv, CopiesInv, NumberInv, Written, HasCopy, Holds, Changing, Changes, PlacesInv,
     FindClient, Goes
<1>6. BareInv'
  BY <1>0 DEF BareInv, Bare, PlacesInv, FindClient, Goes
<1>7. ServedByCurrent'
  BY <1>0 DEF ServedByCurrent, KnownInv, HasCopy, BareInv, PlacesInv, FindClient, Goes
<1>8. GlobalOnlyIfBare'
  BY <1>0 DEF GlobalOnlyIfBare, BareInv, PlacesInv, FindClient, Goes
<1> QED BY <1>1, <1>2, <1>3, <1>4, <1>5, <1>6, <1>7, <1>8 DEF TenantsInv

\* It looks for a cached configuration.
LEMMA GetCachedInv ==
  ASSUME TenantsInv, NEW r \in Readers, GetCached(r)
  PROVE  TenantsInv'
<1>0. /\ TenantsTypeOK /\ PlacesInv /\ CopiesInv /\ NumberInv /\ KnownInv /\ BareInv
      /\ ServedByCurrent /\ GlobalOnlyIfBare
  BY DEF TenantsInv
<1>1. TenantsTypeOK'
  <2>1. at' \in [Readers -> Places]
    <3>1. \E place \in {"store", "done", "query"} : at' = [at EXCEPT ![r] = place]
      BY DEF GetCached, Goes, After
    <3> QED BY <1>0, <3>1
  <2>2. found' \in [Readers -> Tags \cup {NoTag}]
    BY <1>0 DEF GetCached, Goes, After
  <2>3. config' \in [Readers -> Configs]
    BY <1>0 DEF GetCached, Goes, After, PlacesInv
  <2>4. known' \in [Readers -> [Tags -> Configs]]
    BY <1>0 DEF GetCached, Goes, After
  <2>5. failures' \in 0 .. MaxFailures
    BY <1>0 DEF GetCached, Goes, After
  <2>6. UNCHANGED <<lookups, owner, table, cache, clients, tag, admin, change, changes, owners, crossed, bare>>
    BY DEF GetCached
  <2> QED BY <1>0, <2>1, <2>2, <2>3, <2>4, <2>5, <2>6
<1>2. PlacesInv'
  BY <1>0 DEF PlacesInv, GetCached, Goes, After
<1>9. ASSUME NEW o \in Readers, NEW t \in Tags, HasCopy(o, t)'
      PROVE  (HasCopy(o, t) /\ config'[o] = config[o]) \/ (config'[o] = cache[t] /\ cache[t] # Miss)
  BY <1>0, <1>9 DEF GetCached, Goes, After, HasCopy
<1>3. CopiesInv'
  <2>1. UNCHANGED <<table, cache, clients, crossed, admin, change>>
    BY DEF GetCached
  <2> QED BY <1>0, <1>9, <2>1 DEF CopiesInv, Written, Changing, Changes
<1>4. NumberInv'
  BY <1>0 DEF NumberInv, PlacesInv, GetCached, Goes, After
<1>5. KnownInv'
  <2>1. \A q \in Readers : at[q] = "idle" => at'[q] = "idle"
    BY <1>0 DEF GetCached, Goes, After
  <2> QED BY <1>0, <1>9, <2>1 DEF KnownInv, GetCached
<1>6. BareInv'
  BY <1>0 DEF BareInv, Bare, PlacesInv, GetCached, Goes, After
<1>7. ServedByCurrent'
  BY <1>0 DEF ServedByCurrent, KnownInv, HasCopy, BareInv, PlacesInv, GetCached, Goes, After
<1>8. GlobalOnlyIfBare'
  BY <1>0 DEF GlobalOnlyIfBare, BareInv, PlacesInv, GetCached, Goes, After
<1> QED BY <1>1, <1>2, <1>3, <1>4, <1>5, <1>6, <1>7, <1>8 DEF TenantsInv

\* It reads the row.
LEMMA QueryTenantInv ==
  ASSUME TenantsInv, NEW r \in Readers, QueryTenant(r)
  PROVE  TenantsInv'
<1>0. /\ TenantsTypeOK /\ PlacesInv /\ CopiesInv /\ NumberInv /\ KnownInv /\ BareInv
      /\ ServedByCurrent /\ GlobalOnlyIfBare
  BY DEF TenantsInv
<1>1. TenantsTypeOK'
  <2>1. at' \in [Readers -> Places]
    <3>1. at' = [at EXCEPT ![r] = "done"] \/ at' = [at EXCEPT ![r] = "fill"]
      BY DEF QueryTenant, Goes
    <3> QED BY <1>0, <3>1
  <2>2. config' \in [Readers -> Configs]
    <3>1. found[r] \in Tags
      BY <1>0 DEF PlacesInv, QueryTenant
    <3> QED BY <1>0, <3>1 DEF QueryTenant, Queried
  <2>3. failures' \in 0 .. MaxFailures
    BY <1>0 DEF QueryTenant, Fails
  <2>4. UNCHANGED <<lookups, owner, table, cache, clients, tag, found, known, admin, change, changes, owners,
                    crossed, bare>>
    BY DEF QueryTenant
  <2> QED BY <1>0, <2>1, <2>2, <2>3, <2>4
<1>2. PlacesInv'
  BY <1>0 DEF PlacesInv, QueryTenant, Goes, Fails, Queried
<1>3. CopiesInv'
  BY <1>0 DEF PlacesInv, CopiesInv, Written, HasCopy, Holds, Changing, Changes, QueryTenant, Goes, Fails,
     Queried
<1>4. NumberInv'
  BY <1>0 DEF NumberInv, PlacesInv, QueryTenant, Goes, Fails, Queried
<1>5. KnownInv'
  <2>1. ASSUME NEW o \in Readers, NEW t \in Tags, HasCopy(o, t)'
        PROVE  (HasCopy(o, t) /\ config'[o] = config[o]) \/ (config'[o] = table[t] /\ table[t] # NotThere)
    BY <1>0, <2>1 DEF QueryTenant, Queried, Goes, HasCopy
  <2>2. \A q \in Readers : at[q] = "idle" => at'[q] = "idle"
    BY <1>0 DEF QueryTenant, Goes
  <2> QED BY <1>0, <2>1, <2>2 DEF KnownInv, QueryTenant
<1>6. BareInv'
  BY <1>0 DEF BareInv, Bare, PlacesInv, QueryTenant, Goes, Fails, Queried
<1>7. ServedByCurrent'
  BY <1>0 DEF ServedByCurrent, KnownInv, HasCopy, BareInv, PlacesInv, QueryTenant, Goes, Fails, Queried
<1>8. GlobalOnlyIfBare'
  BY <1>0 DEF GlobalOnlyIfBare, BareInv, PlacesInv, QueryTenant, Goes, Fails, Queried
<1> QED BY <1>1, <1>2, <1>3, <1>4, <1>5, <1>6, <1>7, <1>8 DEF TenantsInv

\* It fills the cache.
LEMMA FillCacheInv ==
  ASSUME TenantsInv, NEW r \in Readers, FillCache(r)
  PROVE  TenantsInv'
<1>0. /\ TenantsTypeOK /\ PlacesInv /\ CopiesInv /\ NumberInv /\ KnownInv /\ BareInv
      /\ ServedByCurrent /\ GlobalOnlyIfBare
  BY DEF TenantsInv
<1>1. TenantsTypeOK'
  BY <1>0 DEF PlacesInv, FillCache, Goes, After
<1>2. PlacesInv'
  BY <1>0 DEF PlacesInv, FillCache, Goes, After
<1>3. CopiesInv'
  BY <1>0 DEF PlacesInv, CopiesInv, Written, HasCopy, Holds, Changing, Changes, FillCache, Goes, After
<1>4. NumberInv'
  BY <1>0 DEF NumberInv, PlacesInv, FillCache, Goes, After
<1>5. KnownInv'
  BY <1>0 DEF KnownInv, CopiesInv, NumberInv, Written, HasCopy, Holds, Changing, Changes, PlacesInv,
     FillCache, Goes, After
<1>6. BareInv'
  BY <1>0 DEF BareInv, Bare, PlacesInv, FillCache, Goes, After
<1>7. ServedByCurrent'
  BY <1>0 DEF ServedByCurrent, KnownInv, HasCopy, BareInv, PlacesInv, FillCache, Goes, After
<1>8. GlobalOnlyIfBare'
  BY <1>0 DEF GlobalOnlyIfBare, BareInv, PlacesInv, FillCache, Goes, After
<1> QED BY <1>1, <1>2, <1>3, <1>4, <1>5, <1>6, <1>7, <1>8 DEF TenantsInv

\* It keeps the client it built.
LEMMA StoreClientInv ==
  ASSUME TenantsInv, NEW r \in Readers, StoreClient(r)
  PROVE  TenantsInv'
<1>0. /\ TenantsTypeOK /\ PlacesInv /\ CopiesInv /\ NumberInv /\ KnownInv /\ BareInv
      /\ ServedByCurrent /\ GlobalOnlyIfBare
  BY DEF TenantsInv
<1>1. TenantsTypeOK'
  BY <1>0 DEF PlacesInv, StoreClient, Goes
<1>2. PlacesInv'
  BY <1>0 DEF PlacesInv, StoreClient, Goes
<1>3. CopiesInv'
  BY <1>0 DEF PlacesInv, CopiesInv, Written, HasCopy, Holds, Changing, Changes, StoreClient, Goes
<1>4. NumberInv'
  BY <1>0 DEF NumberInv, PlacesInv, StoreClient, Goes
<1>5. KnownInv'
  BY <1>0 DEF KnownInv, CopiesInv, NumberInv, Written, HasCopy, Holds, Changing, Changes, PlacesInv,
     StoreClient, Goes
<1>6. BareInv'
  BY <1>0 DEF BareInv, Bare, PlacesInv, StoreClient, Goes
<1>7. ServedByCurrent'
  BY <1>0 DEF ServedByCurrent, KnownInv, HasCopy, BareInv, PlacesInv, StoreClient, Goes
<1>8. GlobalOnlyIfBare'
  BY <1>0 DEF GlobalOnlyIfBare, BareInv, PlacesInv, StoreClient, Goes
<1> QED BY <1>1, <1>2, <1>3, <1>4, <1>5, <1>6, <1>7, <1>8 DEF TenantsInv

\* A change writes the row.
LEMMA WriteInv ==
  ASSUME TenantsInv, NEW a \in Admins, NEW t \in Tags, NEW to \in {changes + 1, NotThere}, Write(a, t, to)
  PROVE  TenantsInv'
<1>0. /\ TenantsTypeOK /\ PlacesInv /\ CopiesInv /\ NumberInv /\ KnownInv /\ BareInv
      /\ ServedByCurrent /\ GlobalOnlyIfBare
  BY DEF TenantsInv
<1>1. TenantsTypeOK'
  BY <1>0 DEF PlacesInv, Write
<1>2. PlacesInv'
  BY <1>0 DEF PlacesInv, Write
<1>3. CopiesInv'
  BY <1>0 DEF PlacesInv, CopiesInv, Written, HasCopy, Holds, Changing, Changes, Write
<1>4. NumberInv'
  BY <1>0 DEF NumberInv, PlacesInv, Write
<1>5. KnownInv'
  BY <1>0 DEF KnownInv, CopiesInv, NumberInv, Written, HasCopy, Holds, Changing, Changes, PlacesInv, Write
<1>6. BareInv'
  BY <1>0 DEF BareInv, Bare, PlacesInv, Write
<1>7. ServedByCurrent'
  BY <1>0 DEF ServedByCurrent, KnownInv, HasCopy, BareInv, PlacesInv, Write
<1>8. GlobalOnlyIfBare'
  BY <1>0 DEF GlobalOnlyIfBare, BareInv, PlacesInv, Write
<1> QED BY <1>1, <1>2, <1>3, <1>4, <1>5, <1>6, <1>7, <1>8 DEF TenantsInv

\* The answer to a change is lost.
LEMMA AnswerLostInv ==
  ASSUME TenantsInv, NEW a \in Admins, AnswerLost(a)
  PROVE  TenantsInv'
<1>0. /\ TenantsTypeOK /\ PlacesInv /\ CopiesInv /\ NumberInv /\ KnownInv /\ BareInv
      /\ ServedByCurrent /\ GlobalOnlyIfBare
  BY DEF TenantsInv
<1>1. TenantsTypeOK'
  BY <1>0 DEF PlacesInv, AnswerLost, Fails
<1>2. PlacesInv'
  BY <1>0 DEF PlacesInv, AnswerLost, Fails
<1>3. CopiesInv'
  BY <1>0 DEF PlacesInv, CopiesInv, Written, HasCopy, Holds, Changing, Changes, AnswerLost, Fails
<1>4. NumberInv'
  BY <1>0 DEF NumberInv, PlacesInv, AnswerLost, Fails
<1>5. KnownInv'
  BY <1>0 DEF KnownInv, CopiesInv, NumberInv, Written, HasCopy, Holds, Changing, Changes, PlacesInv,
     AnswerLost, Fails
<1>6. BareInv'
  BY <1>0 DEF BareInv, Bare, PlacesInv, AnswerLost, Fails
<1>7. ServedByCurrent'
  BY <1>0 DEF ServedByCurrent, KnownInv, HasCopy, BareInv, PlacesInv, AnswerLost, Fails
<1>8. GlobalOnlyIfBare'
  BY <1>0 DEF GlobalOnlyIfBare, BareInv, PlacesInv, AnswerLost, Fails
<1> QED BY <1>1, <1>2, <1>3, <1>4, <1>5, <1>6, <1>7, <1>8 DEF TenantsInv

\* A change updates the cache.
LEMMA UpdateCacheInv ==
  ASSUME TenantsInv, NEW a \in Admins, UpdateCache(a)
  PROVE  TenantsInv'
<1>0. /\ TenantsTypeOK /\ PlacesInv /\ CopiesInv /\ NumberInv /\ KnownInv /\ BareInv
      /\ ServedByCurrent /\ GlobalOnlyIfBare
  BY DEF TenantsInv
<1>1. TenantsTypeOK'
  BY <1>0 DEF PlacesInv, UpdateCache, Updated, Held
<1>2. PlacesInv'
  BY <1>0 DEF PlacesInv, UpdateCache, Updated, Held
<1>3. CopiesInv'
  BY <1>0 DEF PlacesInv, CopiesInv, Written, HasCopy, Holds, Changing, Changes, UpdateCache, Updated, Held
<1>4. NumberInv'
  BY <1>0 DEF NumberInv, PlacesInv, UpdateCache, Updated, Held
<1>5. KnownInv'
  BY <1>0 DEF KnownInv, CopiesInv, NumberInv, Written, HasCopy, Holds, Changing, Changes, PlacesInv,
     UpdateCache, Updated, Held
<1>6. BareInv'
  BY <1>0 DEF BareInv, Bare, PlacesInv, UpdateCache, Updated, Held
<1>7. ServedByCurrent'
  BY <1>0 DEF ServedByCurrent, KnownInv, HasCopy, BareInv, PlacesInv, UpdateCache, Updated, Held
<1>8. GlobalOnlyIfBare'
  BY <1>0 DEF GlobalOnlyIfBare, BareInv, PlacesInv, UpdateCache, Updated, Held
<1> QED BY <1>1, <1>2, <1>3, <1>4, <1>5, <1>6, <1>7, <1>8 DEF TenantsInv

\* A change evicts the client.
LEMMA InvalidateTenantInv ==
  ASSUME TenantsInv, NEW a \in Admins, InvalidateTenant(a)
  PROVE  TenantsInv'
<1>0. /\ TenantsTypeOK /\ PlacesInv /\ CopiesInv /\ NumberInv /\ KnownInv /\ BareInv
      /\ ServedByCurrent /\ GlobalOnlyIfBare
  BY DEF TenantsInv
<1>1. TenantsTypeOK'
  BY <1>0 DEF PlacesInv, InvalidateTenant, Evicted, Held
<1>2. PlacesInv'
  BY <1>0 DEF PlacesInv, InvalidateTenant, Evicted, Held
<1>3. CopiesInv'
  BY <1>0 DEF PlacesInv, CopiesInv, Written, HasCopy, Holds, Changing, Changes, InvalidateTenant, Evicted,
     Held
<1>4. NumberInv'
  BY <1>0 DEF NumberInv, PlacesInv, InvalidateTenant, Evicted, Held
<1>5. KnownInv'
  BY <1>0 DEF KnownInv, CopiesInv, NumberInv, Written, HasCopy, Holds, Changing, Changes, PlacesInv,
     InvalidateTenant, Evicted, Held
<1>6. BareInv'
  BY <1>0 DEF BareInv, Bare, PlacesInv, InvalidateTenant, Evicted, Held
<1>7. ServedByCurrent'
  BY <1>0 DEF ServedByCurrent, KnownInv, HasCopy, BareInv, PlacesInv, InvalidateTenant, Evicted, Held
<1>8. GlobalOnlyIfBare'
  BY <1>0 DEF GlobalOnlyIfBare, BareInv, PlacesInv, InvalidateTenant, Evicted, Held
<1> QED BY <1>1, <1>2, <1>3, <1>4, <1>5, <1>6, <1>7, <1>8 DEF TenantsInv

\* The instance changes hands.
LEMMA SetOwnerInv ==
  ASSUME TenantsInv, NEW t \in Tags \cup {NoTag}, SetOwner(t)
  PROVE  TenantsInv'
<1>0. /\ TenantsTypeOK /\ PlacesInv /\ CopiesInv /\ NumberInv /\ KnownInv /\ BareInv
      /\ ServedByCurrent /\ GlobalOnlyIfBare
  BY DEF TenantsInv
<1>1. TenantsTypeOK'
  BY <1>0 DEF PlacesInv, SetOwner
<1>2. PlacesInv'
  BY <1>0 DEF PlacesInv, SetOwner
<1>3. CopiesInv'
  BY <1>0 DEF PlacesInv, CopiesInv, Written, HasCopy, Holds, Changing, Changes, SetOwner
<1>4. NumberInv'
  BY <1>0 DEF NumberInv, PlacesInv, SetOwner
<1>5. KnownInv'
  BY <1>0 DEF KnownInv, CopiesInv, NumberInv, Written, HasCopy, Holds, Changing, Changes, PlacesInv, SetOwner
<1>6. BareInv'
  BY <1>0 DEF BareInv, Bare, PlacesInv, SetOwner
<1>7. ServedByCurrent'
  BY <1>0 DEF ServedByCurrent, KnownInv, HasCopy, BareInv, PlacesInv, SetOwner
<1>8. GlobalOnlyIfBare'
  BY <1>0 DEF GlobalOnlyIfBare, BareInv, PlacesInv, SetOwner
<1> QED BY <1>1, <1>2, <1>3, <1>4, <1>5, <1>6, <1>7, <1>8 DEF TenantsInv

\* Every cache is empty or as the server loaded it, and nobody has begun.
LEMMA InitInv == Init => TenantsInv
<1> SUFFICES ASSUME Init PROVE TenantsInv
  OBVIOUS
<1>1. TenantsTypeOK
  <2>1. 0 \in Configs /\ 1 \in Configs \ {0} /\ 1 \in 1 .. MaxChanges + 1
    OBVIOUS
  <2>2. table \in [Tags -> Configs] /\ cache \in [Tags -> {Miss} \cup (Configs \ {0})]
    BY <2>1 DEF Init
  <2>3. known \in [Readers -> [Tags -> Configs]] /\ config \in [Readers -> Configs]
    BY <2>1 DEF Init
  <2>4. at \in [Readers -> Places] /\ found \in [Readers -> Tags \cup {NoTag}]
    BY DEF Init
  <2>5. /\ admin \in [Admins -> {"idle", "cache", "evict"}]
        /\ \A a \in Admins : change[a].tag \in Tags \cup {NoTag} /\ change[a].to \in Configs
    BY <2>1 DEF Init
  <2>6. lookups \subseteq Readers /\ clients \in [Tags -> {Miss} \cup (Configs \ {0})] /\ tag \in [tag : Tags \cup {NoTag}, fresh : BOOLEAN]
    BY DEF Init
  <2>7. changes \in 1 .. MaxChanges + 1 /\ owners \in 0 .. MaxOwners /\ failures \in 0 .. MaxFailures
    BY <2>1 DEF Init
  <2> QED BY <2>2, <2>3, <2>4, <2>5, <2>6, <2>7 DEF Init
<1>2. PlacesInv /\ CopiesInv /\ BareInv
  BY DEF Init, PlacesInv, CopiesInv, Written, Changing, Changes, HasCopy, BareInv
<1>3. NumberInv /\ KnownInv /\ ServedByCurrent /\ GlobalOnlyIfBare
  BY DEF Init, NumberInv, KnownInv, ServedByCurrent, GlobalOnlyIfBare
<1> QED BY <1>1, <1>2, <1>3 DEF TenantsInv

\* Every step keeps the invariant.
LEMMA StepInv ==
  ASSUME TenantsInv, Next
  PROVE  TenantsInv'
<1>1. ASSUME NEW r \in Readers, Route(r) PROVE TenantsInv'
  BY <1>1, StartInv, SelectTagInv, KeepTagInv, FindClientInv, GetCachedInv, QueryTenantInv, FillCacheInv,
     StoreClientInv DEF Route
<1>2. ASSUME NEW a \in Admins, NEW t \in Tags, PutTenant(a, t) \/ PatchTenant(a, t) \/ DeleteTenant(a, t)
      PROVE  TenantsInv'
  <2>1. \E to \in {changes + 1, NotThere} : Write(a, t, to)
    BY <1>2 DEF PutTenant, PatchTenant, DeleteTenant
  <2> QED BY <2>1, WriteInv
<1>3. ASSUME NEW a \in Admins, Change(a) PROVE TenantsInv'
  BY <1>2, <1>3, AnswerLostInv, UpdateCacheInv, InvalidateTenantInv DEF Change
<1>4. CASE TagExpires
  BY <1>4, TagExpiresInv
<1>5. ASSUME NEW t \in Tags \cup {NoTag}, SetOwner(t) PROVE TenantsInv'
  BY <1>5, SetOwnerInv
<1> QED BY <1>1, <1>3, <1>4, <1>5 DEF Next

HIDE TenantsAssumption DEF TenantsTypeOK, Places, Configs, NoTag, NoChange, Miss, NotThere, Nothing

\* A step that changes nothing keeps the invariant.
LEMMA StutterInv ==
  ASSUME TenantsInv, UNCHANGED vars
  PROVE  TenantsInv'
BY DEF TenantsInv, vars, TenantsTypeOK, PlacesInv, CopiesInv, Written, Changing, Changes, HasCopy, NumberInv,
       KnownInv, BareInv, ServedByCurrent, GlobalOnlyIfBare

-----------------------------------------------------------------------------
(* Theorems *)

\* The invariant holds however messages are routed while tenants change.
THEOREM TenantsSafe == Spec => []TenantsInv
<1>1. TenantsInv /\ [Next]_vars => TenantsInv'
  BY StepInv, StutterInv
<1> QED BY InitInv, <1>1, PTL DEF Spec

\* Every variable keeps its type, and nothing is cached for a tenant that is
\* not there (Registry, Resolver).
THEOREM TypeCorrect == Spec => []TenantsTypeOK
<1>1. TenantsInv => TenantsTypeOK
  BY DEF TenantsInv
<1> QED BY TenantsSafe, <1>1, PTL

\* Once a change is over, the caches are current or empty, unless it met
\* another one or a reader on its way (InvalidateTenant).
THEOREM StaleIfCrossed == Spec => []StaleOnlyIfCrossed
<1>1. TenantsInv => StaleOnlyIfCrossed
  BY DEF TenantsInv, CopiesInv, Written, Changing, StaleOnlyIfCrossed
<1> QED BY TenantsSafe, <1>1, PTL

\* A call is not served by a configuration older than the one of its beginning
\* (For).
THEOREM CurrentServes == Spec => []ServedByCurrent
<1>1. TenantsInv => ServedByCurrent
  BY DEF TenantsInv
<1> QED BY TenantsSafe, <1>1, PTL

\* The global downstream serves an instance that always had an owner, and
\* tenants that are never deleted, only when a query fails (For).
THEOREM GlobalIfBare == Spec => []GlobalOnlyIfBare
<1>1. TenantsInv => GlobalOnlyIfBare
  BY DEF TenantsInv
<1> QED BY TenantsSafe, <1>1, PTL

=============================================================================
