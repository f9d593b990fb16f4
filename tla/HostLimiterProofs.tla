-------------------------- MODULE HostLimiterProofs --------------------------
(***************************************************************************)
(* The cap, the spacing and the lines of HostLimiter, for any number of    *)
(* requests and hosts, and any times the assumptions allow.                *)
(*                                                                         *)
(* The invariant that carries it: while a request waits for or holds a     *)
(* pair, its host's entry has been idle for no longer than the request has *)
(* been under way, so it cannot be old enough to be collected; hence every *)
(* holder of a permit for a host holds it from the pair the entry names.   *)
(***************************************************************************)
EXTENDS HostLimiter, FiniteSetTheorems, SequenceTheorems, TLAPS

Entries == [ lim : Limiters \cup {None}, idle : 0 .. Ttl ]

Fetches ==
  [ at   : {"away", "queued", "pacing", "fetching"},
    lim  : Limiters \cup {None},
    left : 0 .. Deadline,
    nap  : 0 .. Interval ]

(* A pair, whatever its queue holds. *)
IsPair(p) ==
  /\ p = [ host |-> p.host, due |-> p.due, queue |-> p.queue ]
  /\ p.host \in Hosts \cup {None}
  /\ p.due \in -Interval .. Interval

(* The pair an entry names is its host's. *)
Keyed(h) ==
  entry[h].lim # None => entry[h].lim \in Limiters /\ HostOf(entry[h].lim) = h

(* A request under way uses the pair its host's entry names, and the entry   *)
(* has been idle for no longer than the request has been under way.          *)
Served(r) ==
  req[r].at # "away" =>
    /\ req[r].lim \in Limiters
    /\ HostOf(req[r].lim) \in Hosts
    /\ entry[HostOf(req[r].lim)].lim = req[r].lim
    /\ entry[HostOf(req[r].lim)].idle + req[r].left <= Deadline

Typed ==
  /\ entry \in [ Hosts -> Entries ]
  /\ lim = [ l \in Limiters |-> lim[l] ]
  /\ \A l \in Limiters : IsPair(lim[l])
  /\ req \in [ Requests -> Fetches ]

IInv ==
  /\ Typed
  /\ \A h \in Hosts : Keyed(h)
  /\ \A r \in Requests : Served(r)
  /\ \A l \in Limiters : Cardinality(HoldersOf(l)) <= Cap

-----------------------------------------------------------------------------

(* There is always an unused pair for a new entry. *)
LEMMA SomeUnused ==
  ASSUME Typed
  PROVE  \E l \in Limiters : Unused(l)
<1> DEFINE f == [ h \in Hosts |-> entry[h].lim ]
           F == { f[h] : h \in Hosts }
           g == [ r \in Requests |-> req[r].lim ]
           G == { g[r] : r \in Requests }
<1>1. IsFiniteSet(F) /\ Cardinality(F) <= Cardinality(Hosts)
  <2>1. f \in Surjection(Hosts, F)
    BY DEF Surjection
  <2>2. QED
    BY <2>1, FS_Surjection, LimitersAssumption
<1>2. IsFiniteSet(G) /\ Cardinality(G) <= Cardinality(Requests)
  <2>1. g \in Surjection(Requests, G)
    BY DEF Surjection
  <2>2. QED
    BY <2>1, FS_Surjection, LimitersAssumption
<1> HIDE DEF F, G
<1>3. /\ IsFiniteSet(F \cup G)
      /\ Cardinality(F \cup G) <= Cardinality(Hosts) + Cardinality(Requests)
  <2>1. /\ IsFiniteSet(F \cup G)
        /\ Cardinality(F \cup G) = Cardinality(F) + Cardinality(G) - Cardinality(F \cap G)
    BY <1>1, <1>2, FS_Union
  <2>2. IsFiniteSet(F \cap G)
    BY <1>1, FS_Subset
  <2>3. QED
    BY <1>1, <1>2, <2>1, <2>2, FS_CardinalityType, LimitersAssumption
<1>4. ~(Limiters \subseteq F \cup G)
  <2>1. ASSUME Limiters \subseteq F \cup G
        PROVE  Cardinality(Limiters) <= Cardinality(F \cup G)
    BY <1>3, <2>1, FS_Subset
  <2>2. QED
    BY <1>3, <2>1, FS_CardinalityType, LimitersAssumption
<1>5. PICK l \in Limiters : l \notin F /\ l \notin G
  BY <1>4
<1>6. Unused(l)
  BY <1>5 DEF F, G, Unused
<1>7. QED
  BY <1>6

(* Dropping holders keeps a pair within its cap. *)
LEMMA FewerHolders ==
  ASSUME NEW S, NEW T \in SUBSET Requests, S \subseteq T, Cardinality(T) <= Cap
  PROVE  Cardinality(S) <= Cap
<1>1. IsFiniteSet(T)
  BY FS_Subset, LimitersAssumption
<1>2. IsFiniteSet(S) /\ Cardinality(S) <= Cardinality(T)
  BY <1>1, FS_Subset
<1>3. QED
  BY <1>1, <1>2, FS_CardinalityType, CapAssumption

(* One more holder, where a permit was free. *)
LEMMA OneMoreHolder ==
  ASSUME NEW S, NEW T \in SUBSET Requests, NEW r \in Requests,
         S \subseteq T \cup {r}, Cardinality(T) < Cap
  PROVE  Cardinality(S) <= Cap
<1>1. IsFiniteSet(T)
  BY FS_Subset, LimitersAssumption
<1>2. IsFiniteSet(T \cup {r}) /\ Cardinality(T \cup {r}) <= Cardinality(T) + 1
  BY <1>1, FS_AddElement, FS_CardinalityType
<1>3. IsFiniteSet(S) /\ Cardinality(S) <= Cardinality(T \cup {r})
  BY <1>2, FS_Subset
<1>4. QED
  BY <1>1, <1>2, <1>3, FS_CardinalityType, CapAssumption

(* Nobody becomes a holder: the caps hold as they did. *)
LEMMA NoNewHolder ==
  ASSUME IInv,
         \A r \in Requests : Holding(r)' => Holding(r) /\ req'[r].lim = req[r].lim
  PROVE  \A l \in Limiters : Cardinality(HoldersOf(l)') <= Cap
<1>1. TAKE l \in Limiters
<1>2. HoldersOf(l)' \subseteq HoldersOf(l)
  BY DEF HoldersOf
<1>3. HoldersOf(l) \in SUBSET Requests
  BY DEF HoldersOf
<1>4. QED
  BY <1>2, <1>3, FewerHolders DEF IInv

(* The entry of a request under way is not collected. *)
LEMMA InUseIsKept ==
  ASSUME IInv, NEW r \in Requests, req[r].at # "away"
  PROVE  ~Expired(entry[HostOf(req[r].lim)])
BY TimesAssumption, TtlAssumption DEF IInv, Typed, Served, Entries, Fetches, Expired

-----------------------------------------------------------------------------

LEMMA InitInv == Init => IInv
<1> SUFFICES ASSUME Init
             PROVE  IInv
  OBVIOUS
<1>1. Typed
  BY TimesAssumption, TtlAssumption
  DEF Init, Typed, Entries, Fetches, Away, IsPair, NewPair
<1>2. \A h \in Hosts : Keyed(h)
  BY DEF Init, Keyed
<1>3. \A r \in Requests : Served(r)
  BY DEF Init, Served, Away
<1>4. \A l \in Limiters : Cardinality(HoldersOf(l)) <= Cap
  <2> TAKE l \in Limiters
  <2>1. HoldersOf(l) = {}
    BY DEF Init, HoldersOf, Holding, Away
  <2>2. QED
    BY <2>1, FS_EmptySet, CapAssumption
<1>5. QED
  BY <1>1, <1>2, <1>3, <1>4 DEF IInv

(* What Ask does: swept are the entries that survive the collection, l is    *)
(* the pair the request joins, d the time it has.                            *)
Asked(r, h, l, d, swept) ==
  /\ \A k \in Hosts : /\ swept[k] \in Entries
                      /\ swept[k].lim # None => swept[k] = entry[k]
                      /\ ~Expired(entry[k]) => swept[k] = entry[k]
  /\ req[r].at = "away"
  /\ IF swept[h].lim = None THEN Unused(l) /\ lim'[l].due = -Interval
                            ELSE l = entry[h].lim /\ lim'[l].due = lim[l].due
  /\ entry' = [ k \in Hosts |-> IF k = h THEN [ lim |-> l, idle |-> 0 ] ELSE swept[k] ]
  /\ lim' = [ m \in Limiters |-> lim'[m] ]
  /\ lim'[l].host = h /\ IsPair(lim'[l])
  /\ lim'[l].queue = Append(IF swept[h].lim = None THEN << >> ELSE lim[l].queue, r)
  /\ \A m \in Limiters \ {l} : lim'[m] = lim[m]
  /\ req' = [ q \in Requests |->
       IF q = r THEN [ at |-> "queued", lim |-> l, left |-> d, nap |-> 0 ] ELSE req[q] ]
  /\ since' = since

LEMMA AskEffect ==
  ASSUME IInv, NEW r \in Requests, NEW h \in Hosts, Ask(r, h)
  PROVE  \E l \in Limiters, d \in 1 .. Deadline : \E swept : Asked(r, h, l, d, swept)
<1> DEFINE swept == [ k \in Hosts |->
             IF calls = 0 /\ Expired(entry[k]) THEN [ lim |-> None, idle |-> Ttl ] ELSE entry[k] ]
           fresh == CHOOSE l \in Limiters : Unused(l)
           l     == IF swept[h].lim = None THEN fresh ELSE swept[h].lim
           pair  == IF swept[h].lim = None THEN NewPair(h) ELSE lim[l]
<1>1. /\ req[r].at = "away"
      /\ entry' = [ swept EXCEPT ![h] = [ lim |-> l, idle |-> 0 ] ]
      /\ lim' = [ lim EXCEPT ![l] = [ pair EXCEPT !.queue = Append(@, r) ] ]
      /\ since' = since
  BY DEF Ask, Touched
<1>2. PICK d \in 1 .. Deadline :
        req' = [ req EXCEPT ![r] = [ at |-> "queued", lim |-> l, left |-> d, nap |-> 0 ] ]
  BY DEF Ask
<1>3. fresh \in Limiters /\ Unused(fresh)
  BY SomeUnused DEF IInv
<1>4. /\ swept = [ k \in Hosts |-> swept[k] ]
      /\ \A k \in Hosts : /\ swept[k] \in Entries
                          /\ swept[k].lim # None => swept[k] = entry[k]
                          /\ ~Expired(entry[k]) => swept[k] = entry[k]
  BY TtlAssumption DEF IInv, Typed, Entries
<1> HIDE DEF swept, fresh
<1>5. /\ l \in Limiters
      /\ pair.host = h
      /\ IsPair(pair)
      /\ IF swept[h].lim = None THEN Unused(l) /\ pair.due = -Interval
                                ELSE l = entry[h].lim /\ pair.due = lim[l].due
      /\ pair.queue = IF swept[h].lim = None THEN << >> ELSE lim[l].queue
  <2>1. CASE swept[h].lim = None
    BY <1>3, <2>1, TimesAssumption DEF IsPair, NewPair
  <2>2. CASE swept[h].lim # None
    BY <1>4, <2>2 DEF IInv, Typed, Keyed, HostOf
  <2>3. QED
    BY <2>1, <2>2
<1> HIDE DEF l, pair
<1>6. /\ lim' = [ m \in Limiters |-> lim'[m] ]
      /\ lim'[l].host = h
      /\ lim'[l].due = pair.due
      /\ IsPair(lim'[l])
      /\ lim'[l].queue = Append(pair.queue, r)
      /\ \A m \in Limiters \ {l} : lim'[m] = lim[m]
  BY <1>1, <1>5 DEF IInv, Typed, IsPair
<1>7. entry' = [ k \in Hosts |-> IF k = h THEN [ lim |-> l, idle |-> 0 ] ELSE swept[k] ]
  BY <1>1, <1>4
<1>8. req' = [ q \in Requests |->
        IF q = r THEN [ at |-> "queued", lim |-> l, left |-> d, nap |-> 0 ] ELSE req[q] ]
  BY <1>2 DEF IInv, Typed
<1>9. Asked(r, h, l, d, swept)
  BY <1>1, <1>4, <1>5, <1>6, <1>7, <1>8 DEF Asked
<1>10. QED
  BY <1>5, <1>9

(* A request asks for its host's pair: the entries that are collected name  *)
(* no pair in use, and a new entry gets a pair nobody uses.                 *)
LEMMA AskInv ==
  ASSUME IInv, NEW r \in Requests, NEW h \in Hosts, Ask(r, h)
  PROVE  IInv'
<1>1. PICK l \in Limiters, d \in 1 .. Deadline : \E swept : Asked(r, h, l, d, swept)
  BY AskEffect
<1>2. PICK swept : Asked(r, h, l, d, swept)
  BY <1>1
<1>3. \A k \in Hosts : /\ swept[k] \in Entries
                       /\ swept[k].lim # None => swept[k] = entry[k]
                       /\ ~Expired(entry[k]) => swept[k] = entry[k]
  BY <1>2 DEF Asked
<1>4. /\ swept[h].lim = None => Unused(l)
      /\ swept[h].lim # None => l = entry[h].lim
  BY <1>2 DEF Asked
<1>5. /\ lim' = [ m \in Limiters |-> lim'[m] ]
      /\ lim'[l].host = h
      /\ IsPair(lim'[l])
      /\ \A m \in Limiters \ {l} : lim'[m] = lim[m]
  BY <1>2 DEF Asked
<1>6. entry' = [ k \in Hosts |-> IF k = h THEN [ lim |-> l, idle |-> 0 ] ELSE swept[k] ]
  BY <1>2 DEF Asked
<1>7. entry'[h] = [ lim |-> l, idle |-> 0 ] /\ \A k \in Hosts \ {h} : entry'[k] = swept[k]
  BY <1>6
<1>8. /\ req' = [ q \in Requests |->
           IF q = r THEN [ at |-> "queued", lim |-> l, left |-> d, nap |-> 0 ] ELSE req[q] ]
      /\ req'[r] = [ at |-> "queued", lim |-> l, left |-> d, nap |-> 0 ]
      /\ \A q \in Requests \ {r} : req'[q] = req[q]
  BY <1>2 DEF Asked
<1>9. Typed'
  <2>1. entry' \in [ Hosts -> Entries ]
    BY <1>3, <1>6, TtlAssumption DEF Entries
  <2>2. \A m \in Limiters : IsPair(lim'[m])
    BY <1>5 DEF IInv, Typed
  <2>3. req' \in [ Requests -> Fetches ]
    BY <1>8, TimesAssumption DEF IInv, Typed, Fetches
  <2>4. QED
    BY <1>5, <2>1, <2>2, <2>3 DEF Typed, IsPair
<1>10. \A k \in Hosts : Keyed(k)'
  <2> SUFFICES ASSUME NEW k \in Hosts, entry'[k].lim # None
               PROVE  entry'[k].lim \in Limiters /\ lim'[entry'[k].lim].host = k
    BY DEF Keyed, HostOf
  <2>1. CASE k = h
    BY <1>5, <1>7, <2>1
  <2>2. CASE k # h
    <3>1. entry'[k] = entry[k] /\ entry[k].lim # None
      BY <1>3, <1>7, <2>2
    <3>2. entry[k].lim \in Limiters /\ lim[entry[k].lim].host = k
      BY <3>1 DEF IInv, Keyed, HostOf
    <3>3. entry[k].lim # l
      <4>1. CASE swept[h].lim = None
        BY <1>4, <4>1 DEF Unused
      <4>2. CASE swept[h].lim # None
        BY <1>4, <2>2, <3>2, <4>2, LimitersAssumption DEF IInv, Keyed, HostOf
      <4>3. QED
        BY <4>1, <4>2
    <3>4. QED
      BY <1>5, <3>1, <3>2, <3>3
  <2>3. QED
    BY <2>1, <2>2
<1>11. \A q \in Requests : Served(q)'
  <2> SUFFICES ASSUME NEW q \in Requests, req'[q].at # "away"
               PROVE  /\ req'[q].lim \in Limiters
                      /\ lim'[req'[q].lim].host \in Hosts
                      /\ entry'[lim'[req'[q].lim].host].lim = req'[q].lim
                      /\ entry'[lim'[req'[q].lim].host].idle + req'[q].left <= Deadline
    BY DEF Served, HostOf
  <2>1. CASE q = r
    BY <1>5, <1>7, <1>8, <2>1, TimesAssumption
  <2>2. CASE q # r
    <3> DEFINE m == req[q].lim
               k == lim[m].host
    <3>1. req'[q] = req[q] /\ req[q].at # "away"
      BY <1>8, <2>2
    <3>2. /\ m \in Limiters
          /\ k \in Hosts
          /\ entry[k].lim = m
          /\ entry[k].idle + req[q].left <= Deadline
      BY <3>1 DEF IInv, Served, HostOf
    <3>3. swept[k] = entry[k]
      BY <1>3, <3>1, <3>2, InUseIsKept DEF HostOf
    <3>4. lim'[m].host = k
      <4>1. CASE m = l
        <5>1. swept[h].lim # None
          BY <1>4, <4>1 DEF Unused
        <5>2. entry[h].lim = m
          BY <1>4, <4>1, <5>1
        <5>3. k = h
          BY <3>2, <5>2, LimitersAssumption DEF IInv, Keyed, HostOf
        <5>4. QED
          BY <1>5, <4>1, <5>3
      <4>2. CASE m # l
        BY <1>5, <3>2, <4>2
      <4>3. QED
        BY <4>1, <4>2
    <3>5. entry'[k].lim = m /\ entry'[k].idle + req[q].left <= Deadline
      <4>1. CASE k = h
        <5>1. m # None
          BY <3>2, LimitersAssumption
        <5>2. l = m
          BY <1>4, <3>2, <3>3, <4>1, <5>1
        <5>3. entry[k].idle \in Nat /\ req[q].left \in Nat
          BY <3>2, TimesAssumption, TtlAssumption DEF IInv, Typed, Entries, Fetches
        <5>4. QED
          BY <1>7, <3>2, <4>1, <5>2, <5>3, TimesAssumption
      <4>2. CASE k # h
        BY <1>7, <3>2, <3>3, <4>2
      <4>3. QED
        BY <4>1, <4>2
    <3>6. QED
      BY <3>1, <3>2, <3>4, <3>5
  <2>3. QED
    BY <2>1, <2>2
<1>12. \A m \in Limiters : Cardinality(HoldersOf(m)') <= Cap
  <2>1. \A q \in Requests : Holding(q)' => Holding(q) /\ req'[q].lim = req[q].lim
    BY <1>8 DEF Holding
  <2>2. QED
    BY <2>1, NoNewHolder
<1>13. QED
  BY <1>9, <1>10, <1>11, <1>12 DEF IInv

(* A step that leaves the entries and the owners of the pairs alone, and     *)
(* starts no request, keeps entries and requests together.                   *)
LEMMA EntriesKept ==
  ASSUME IInv, entry' = entry,
         \A l \in Limiters : HostOf(l)' = HostOf(l),
         \A r \in Requests : req'[r].at # "away" =>
           req[r].at # "away" /\ req'[r].lim = req[r].lim /\ req'[r].left = req[r].left
  PROVE  (\A h \in Hosts : Keyed(h)') /\ (\A r \in Requests : Served(r)')
<1>1. \A h \in Hosts : Keyed(h)'
  BY DEF IInv, Keyed
<1>2. \A r \in Requests : Served(r)'
  BY DEF IInv, Served
<1>3. QED
  BY <1>1, <1>2

(* What next_sleep returns is one interval at most. *)
LEMMA SleepBounded ==
  ASSUME NEW due \in -Interval .. Interval
  PROVE  NextSleep(due) \in 0 .. Interval
BY TimesAssumption DEF NextSleep, Greatest

(* The head of a queue gets a permit that was free. *)
LEMMA AdmitInv ==
  ASSUME IInv, NEW r \in Requests, Admit(r)
  PROVE  IInv'
<1> DEFINE l   == req[r].lim
           nap == NextSleep(lim[l].due)
<1>1. /\ req[r].at = "queued"
      /\ PermitFree(l)
      /\ lim' = [ lim EXCEPT ![l].queue = Tail(@), ![l].due = nap ]
      /\ req' = [ req EXCEPT ![r] =
           IF nap > @.left THEN Away ELSE [ @ EXCEPT !.at = "pacing", !.nap = nap ] ]
      /\ entry' = entry
  BY DEF Admit
<1>2. l \in Limiters
  BY <1>1 DEF IInv, Served
<1>3. nap \in 0 .. Interval
  BY <1>2, SleepBounded DEF IInv, Typed, IsPair
<1> HIDE DEF nap
<1>4. /\ lim' = [ m \in Limiters |-> lim'[m] ]
      /\ \A m \in Limiters : IsPair(lim'[m]) /\ lim'[m].host = lim[m].host
  <2>1. lim[l] = [ host |-> lim[l].host, due |-> lim[l].due, queue |-> lim[l].queue ]
    BY <1>2 DEF IInv, Typed, IsPair
  <2>2. lim'[l] = [ lim[l] EXCEPT !.queue = Tail(@), !.due = nap ]
    BY <1>1, <1>2 DEF IInv, Typed
  <2>3. lim'[l] = [ host |-> lim[l].host, due |-> nap, queue |-> Tail(lim[l].queue) ]
    BY <2>1, <2>2
  <2>4. IsPair(lim'[l]) /\ lim'[l].host = lim[l].host
    BY <1>2, <1>3, <2>3, TimesAssumption DEF IInv, Typed, IsPair
  <2>5. lim' = [ m \in Limiters |-> lim'[m] ] /\ \A m \in Limiters \ {l} : lim'[m] = lim[m]
    BY <1>1 DEF IInv, Typed
  <2>6. QED
    BY <2>4, <2>5 DEF IInv, Typed
<1>5. /\ \A q \in Requests \ {r} : req'[q] = req[q]
      /\ req'[r] = IF nap > req[r].left THEN Away
                   ELSE [ req[r] EXCEPT !.at = "pacing", !.nap = nap ]
  BY <1>1 DEF IInv, Typed
<1>6. req'[r].at # "away" =>
        req'[r].lim = req[r].lim /\ req'[r].left = req[r].left
  BY <1>5 DEF IInv, Typed, Fetches, Away
<1>7. Typed'
  <2>1. req' \in [ Requests -> Fetches ]
    <3>1. Away \in Fetches
      BY TimesAssumption DEF Away, Fetches
    <3>2. [ req[r] EXCEPT !.at = "pacing", !.nap = nap ] \in Fetches
      BY <1>3 DEF IInv, Typed, Fetches
    <3>3. QED
      BY <1>1, <3>1, <3>2 DEF IInv, Typed
  <2>2. QED
    BY <1>1, <1>4, <2>1 DEF IInv, Typed, IsPair
<1>8. (\A h \in Hosts : Keyed(h)') /\ (\A q \in Requests : Served(q)')
  BY <1>1, <1>4, <1>5, <1>6, EntriesKept DEF HostOf
<1>9. ASSUME NEW m \in Limiters
      PROVE  Cardinality(HoldersOf(m)') <= Cap
  <2>1. HoldersOf(m) \in SUBSET Requests
    BY DEF HoldersOf
  <2>2. CASE m = l
    <3>1. HoldersOf(m)' \subseteq HoldersOf(m) \cup {r}
      BY <1>5 DEF HoldersOf, Holding
    <3>2. Cardinality(HoldersOf(m)) < Cap
      BY <1>1, <2>2 DEF PermitFree
    <3>3. QED
      BY <2>1, <3>1, <3>2, OneMoreHolder
  <2>3. CASE m # l
    <3>1. HoldersOf(m)' \subseteq HoldersOf(m)
      BY <1>5, <1>6, <2>3 DEF HoldersOf, Holding, Away
    <3>2. QED
      BY <2>1, <3>1, FewerHolders DEF IInv
  <2>4. QED
    BY <2>2, <2>3
<1>10. QED
  BY <1>7, <1>8, <1>9 DEF IInv

(* A fetch that goes out keeps its permit. *)
LEMMA StartInv ==
  ASSUME IInv, NEW r \in Requests, Start(r)
  PROVE  IInv'
<1>1. /\ req[r].at = "pacing"
      /\ req' = [ req EXCEPT ![r].at = "fetching" ]
      /\ entry' = entry /\ lim' = lim
  BY DEF Start
<1>2. Typed'
  <2>1. req' \in [ Requests -> Fetches ]
    BY <1>1 DEF IInv, Typed, Fetches
  <2>2. QED
    BY <1>1, <2>1 DEF IInv, Typed, IsPair
<1>3. \A q \in Requests :
        /\ req'[q].lim = req[q].lim /\ req'[q].left = req[q].left
        /\ req'[q].at # "away" => req[q].at # "away"
        /\ Holding(q)' => Holding(q)
  BY <1>1 DEF IInv, Typed, Fetches, Holding
<1>4. (\A h \in Hosts : Keyed(h)') /\ (\A q \in Requests : Served(q)')
  BY <1>1, <1>3, EntriesKept DEF HostOf
<1>5. \A m \in Limiters : Cardinality(HoldersOf(m)') <= Cap
  BY <1>3, NoNewHolder
<1>6. QED
  BY <1>2, <1>4, <1>5 DEF IInv

(* A fetch that ends, or whose future is dropped, gives its permit back. *)
LEMMA LeaveInv ==
  ASSUME IInv, NEW r \in Requests, Leave(r)
  PROVE  IInv'
<1>1. /\ req[r].at # "away"
      /\ lim' = [ lim EXCEPT ![req[r].lim].queue = RemoveFirst(@, r) ]
      /\ req' = [ req EXCEPT ![r] = Away ]
      /\ entry' = entry
  BY DEF Leave
<1>2. req[r].lim \in Limiters
  BY <1>1 DEF IInv, Served
<1>3. /\ lim' = [ m \in Limiters |-> lim'[m] ]
      /\ \A m \in Limiters : IsPair(lim'[m]) /\ lim'[m].host = lim[m].host
  <2>1. DOMAIN lim = Limiters /\ lim = [ m \in Limiters |-> lim[m] ]
    BY DEF IInv, Typed
  <2>2. ASSUME NEW m \in Limiters
        PROVE  /\ IsPair(lim[m])
               /\ m # req[r].lim => lim'[m] = lim[m]
               /\ m = req[r].lim =>
                    lim'[m] = [ lim[m] EXCEPT !.queue = RemoveFirst(lim[m].queue, r) ]
    <3>1. IsPair(lim[m])
      BY DEF IInv, Typed
    <3>2. m # req[r].lim => lim'[m] = lim[m]
      BY <1>1, <2>1
    <3>3. m = req[r].lim =>
            lim'[m] = [ lim[m] EXCEPT !.queue = RemoveFirst(lim[m].queue, r) ]
      BY <1>1, <1>2, <2>1
    <3> QED
      BY <3>1, <3>2, <3>3
  <2>3. ASSUME NEW m \in Limiters
        PROVE  IsPair(lim'[m]) /\ lim'[m].host = lim[m].host
    <3>1. CASE m # req[r].lim
      BY <2>2, <3>1
    <3>2. CASE m = req[r].lim
      <4> PICK p, s : p = lim[m] /\ s = RemoveFirst(lim[m].queue, r)
        OBVIOUS
      <4>1. IsPair(p) /\ lim'[m] = [ p EXCEPT !.queue = s ]
        BY <2>2, <3>2
      <4>2. lim'[m] = [ host |-> p.host, due |-> p.due, queue |-> s ]
        BY <4>1 DEF IsPair
      <4> QED
        BY <4>1, <4>2 DEF IsPair
    <3> QED
      BY <3>1, <3>2
  <2>4. lim' = [ m \in Limiters |-> lim'[m] ]
    BY <1>1, <2>1
  <2> QED
    BY <2>3, <2>4
<1>4. Typed'
  <2>1. req' \in [ Requests -> Fetches ]
    BY <1>1, TimesAssumption DEF IInv, Typed, Fetches, Away
  <2>2. QED
    BY <1>1, <1>3, <2>1 DEF IInv, Typed, IsPair
<1>5. \A q \in Requests : req'[q].at # "away" => req'[q] = req[q]
  BY <1>1 DEF IInv, Typed, Away
<1>6. (\A h \in Hosts : Keyed(h)') /\ (\A q \in Requests : Served(q)')
  BY <1>1, <1>3, <1>5, EntriesKept DEF HostOf
<1>7. \A m \in Limiters : Cardinality(HoldersOf(m)') <= Cap
  <2>1. \A q \in Requests : Holding(q)' => Holding(q) /\ req'[q].lim = req[q].lim
    BY <1>5 DEF Holding
  <2>2. QED
    BY <2>1, NoNewHolder
<1>8. QED
  BY <1>4, <1>6, <1>7 DEF IInv

(* Time passes: what an entry has been idle for grows as fast as what is     *)
(* left to the requests that use it shrinks.                                 *)
LEMMA TickInv ==
  ASSUME IInv, Tick
  PROVE  IInv'
<1>1. /\ \A r \in Requests : req[r].at # "away" => req[r].left > 0
      /\ entry' = [ h \in Hosts |-> [ entry[h] EXCEPT !.idle = Least(@ + 1, Ttl) ] ]
      /\ lim' = [ l \in Limiters |-> [ lim[l] EXCEPT !.due = Greatest(@ - 1, -Interval) ] ]
      /\ req' = [ r \in Requests |->
           [ req[r] EXCEPT !.left = Greatest(@ - 1, 0), !.nap = Greatest(@ - 1, 0) ] ]
  BY DEF Tick
<1>2. \A h \in Hosts : /\ entry'[h] \in Entries
                       /\ entry'[h].lim = entry[h].lim
                       /\ entry'[h].idle <= entry[h].idle + 1
  <2> TAKE h \in Hosts
  <2>1. entry[h] \in Entries
    BY DEF IInv, Typed
  <2>2. entry'[h] = [ lim |-> entry[h].lim, idle |-> Least(entry[h].idle + 1, Ttl) ]
    BY <1>1, <2>1 DEF Entries
  <2>3. /\ Least(entry[h].idle + 1, Ttl) \in 0 .. Ttl
        /\ Least(entry[h].idle + 1, Ttl) <= entry[h].idle + 1
    BY <2>1, TtlAssumption DEF Entries, Least
  <2>4. QED
    BY <2>1, <2>2, <2>3 DEF Entries
<1>3. \A l \in Limiters : IsPair(lim'[l]) /\ lim'[l].host = lim[l].host
  <2> TAKE l \in Limiters
  <2>1. /\ lim[l] = [ host |-> lim[l].host, due |-> lim[l].due, queue |-> lim[l].queue ]
        /\ lim[l].host \in Hosts \cup {None} /\ lim[l].due \in -Interval .. Interval
    BY DEF IInv, Typed, IsPair
  <2>2. lim'[l] = [ lim[l] EXCEPT !.due = Greatest(@ - 1, -Interval) ]
    BY <1>1
  <2>3. lim'[l] = [ host |-> lim[l].host, due |-> Greatest(lim[l].due - 1, -Interval),
                    queue |-> lim[l].queue ]
    BY <2>1, <2>2
  <2>4. Greatest(lim[l].due - 1, -Interval) \in -Interval .. Interval
    BY <2>1, TimesAssumption DEF Greatest
  <2>5. QED
    BY <2>1, <2>3, <2>4 DEF IsPair
<1>4. \A r \in Requests : /\ req'[r] \in Fetches
                          /\ req'[r].at = req[r].at /\ req'[r].lim = req[r].lim
                          /\ req[r].at # "away" => (req'[r].left = req[r].left - 1)
  <2> TAKE r \in Requests
  <2>1. req[r] \in Fetches
    BY DEF IInv, Typed
  <2>2. req'[r] = [ at |-> req[r].at, lim |-> req[r].lim,
                    left |-> Greatest(req[r].left - 1, 0), nap |-> Greatest(req[r].nap - 1, 0) ]
    BY <1>1, <2>1 DEF Fetches
  <2>3. /\ Greatest(req[r].left - 1, 0) \in 0 .. Deadline
        /\ Greatest(req[r].nap - 1, 0) \in 0 .. Interval
        /\ req[r].left > 0 => Greatest(req[r].left - 1, 0) = req[r].left - 1
    BY <2>1, TimesAssumption DEF Fetches, Greatest
  <2>4. QED
    BY <1>1, <2>1, <2>2, <2>3 DEF Fetches
<1>5. Typed'
  <2>1. entry' \in [ Hosts -> Entries ] /\ req' \in [ Requests -> Fetches ]
    BY <1>1, <1>2, <1>4
  <2>2. lim' = [ l \in Limiters |-> lim'[l] ]
    BY <1>1
  <2>3. QED
    BY <1>3, <2>1, <2>2 DEF Typed, IsPair
<1>6. \A h \in Hosts : Keyed(h)'
  BY <1>2, <1>3 DEF IInv, Keyed, HostOf
<1>7. \A r \in Requests : Served(r)'
  <2> SUFFICES ASSUME NEW r \in Requests, req'[r].at # "away"
               PROVE  /\ req'[r].lim \in Limiters
                      /\ lim'[req'[r].lim].host \in Hosts
                      /\ entry'[lim'[req'[r].lim].host].lim = req'[r].lim
                      /\ entry'[lim'[req'[r].lim].host].idle + req'[r].left <= Deadline
    BY DEF Served, HostOf
  <2>1. /\ req[r].lim \in Limiters
        /\ lim[req[r].lim].host \in Hosts
        /\ entry[lim[req[r].lim].host].lim = req[r].lim
        /\ entry[lim[req[r].lim].host].idle + req[r].left <= Deadline
    BY <1>4 DEF IInv, Served, HostOf
  <2>2. /\ entry[lim[req[r].lim].host].idle \in Nat
        /\ entry'[lim[req[r].lim].host].idle \in Nat
        /\ req[r].left \in Nat
    <3>1. /\ entry \in [ Hosts -> Entries ] /\ entry' \in [ Hosts -> Entries ]
          /\ req \in [ Requests -> Fetches ]
      <4>1. entry \in [ Hosts -> Entries ] /\ req \in [ Requests -> Fetches ]
        BY DEF IInv, Typed
      <4>2. entry' \in [ Hosts -> Entries ]
        BY <1>5 DEF Typed
      <4>3. QED
        BY <4>1, <4>2
    <3>2. /\ entry[lim[req[r].lim].host] \in Entries
          /\ entry'[lim[req[r].lim].host] \in Entries
      BY <2>1, <3>1
    <3>3. req[r] \in Fetches
      BY <3>1
    <3>4. \A x \in Entries : x.idle \in Nat
      BY TtlAssumption DEF Entries
    <3>5. \A x \in Fetches : x.left \in Nat
      BY TimesAssumption DEF Fetches
    <3>6. QED
      BY <3>2, <3>3, <3>4, <3>5
  <2>3. /\ req'[r].lim = req[r].lim /\ req'[r].left = req[r].left - 1
        /\ lim'[req[r].lim].host = lim[req[r].lim].host
        /\ entry'[lim[req[r].lim].host].lim = entry[lim[req[r].lim].host].lim
        /\ entry'[lim[req[r].lim].host].idle <= entry[lim[req[r].lim].host].idle + 1
    BY <1>2, <1>3, <1>4, <2>1
  <2>4. entry'[lim[req[r].lim].host].idle + req'[r].left <= Deadline
    BY <2>1, <2>2, <2>3, TimesAssumption
  <2>5. QED
    BY <2>1, <2>3, <2>4
<1>8. \A m \in Limiters : Cardinality(HoldersOf(m)') <= Cap
  <2>1. \A q \in Requests : Holding(q)' => Holding(q) /\ req'[q].lim = req[q].lim
    BY <1>4 DEF Holding
  <2>2. QED
    BY <2>1, NoNewHolder
<1>9. QED
  BY <1>5, <1>6, <1>7, <1>8 DEF IInv

LEMMA NextInv == IInv /\ [Next]_vars => IInv'
<1> SUFFICES ASSUME IInv, [Next]_vars
             PROVE  IInv'
  OBVIOUS
<1>1. CASE \E r \in Requests, h \in Hosts : Ask(r, h)
  BY <1>1, AskInv
<1>2. CASE \E r \in Requests : Admit(r)
  BY <1>2, AdmitInv
<1>3. CASE \E r \in Requests : Start(r)
  BY <1>3, StartInv
<1>4. CASE \E r \in Requests : Leave(r)
  BY <1>4, LeaveInv
<1>5. CASE Tick
  BY <1>5, TickInv
<1>6. CASE UNCHANGED vars
  BY <1>6 DEF vars, IInv, Typed, IsPair, Keyed, Served, HostOf, HoldersOf, Holding
<1>7. QED
  BY <1>1, <1>2, <1>3, <1>4, <1>5, <1>6 DEF Next

(* IInv is an invariant of the specification. *)
THEOREM Inductive == Spec => []IInv
BY InitInv, NextInv, PTL DEF Spec

(* Whoever waits for or holds a permit does so at the pair its host's entry *)
(* names, however often entries are collected (get_host_limiter).           *)
THEOREM OneLimiterAlways == Spec => []OneLimiter
<1>1. IInv => OneLimiter
  BY DEF IInv, Served, OneLimiter
<1>2. QED
  BY <1>1, Inductive, PTL

(* At most per_host_max_concurrent fetches of a host hold a permit, for any *)
(* number of hosts and requests (get_host_limiter, acquire_owned).          *)
THEOREM HostCapKept == Spec => []HostCap
<1>1. IInv => HostCap
  <2> SUFFICES ASSUME IInv, NEW h \in Hosts
               PROVE  Cardinality({ r \in Requests : Holding(r) /\ HostOf(req[r].lim) = h }) <= Cap
    BY DEF HostCap
  <2> DEFINE S == { r \in Requests : Holding(r) /\ HostOf(req[r].lim) = h }
  <2>1. \A r \in S : req[r].lim \in Limiters /\ req[r].lim = entry[h].lim
    BY DEF IInv, Served, Holding
  <2>2. CASE S = {}
    BY <2>2, FS_EmptySet, CapAssumption
  <2>3. CASE S # {}
    <3>1. entry[h].lim \in Limiters
      BY <2>1, <2>3
    <3>2. S \subseteq HoldersOf(entry[h].lim)
      BY <2>1 DEF HoldersOf
    <3>3. HoldersOf(entry[h].lim) \in SUBSET Requests
      BY DEF HoldersOf
    <3>4. QED
      BY <3>1, <3>2, <3>3, FewerHolders DEF IInv
  <2>4. QED
    BY <2>2, <2>3
<1>2. QED
  BY <1>1, Inductive, PTL

-----------------------------------------------------------------------------
(* The queues.  A request is in the queue of the semaphore it waits for, once, *)
(* and in no other: nobody is forgotten in line, and nobody who left blocks    *)
(* those behind.                                                               *)

Once(q) == \A i, j \in 1 .. Len(q) : q[i] = q[j] => i = j

In(e, q) == \E i \in 1 .. Len(q) : q[i] = e

Line(l) ==
  /\ lim[l].queue \in Seq(Requests)
  /\ Once(lim[l].queue)
  /\ \A r \in Requests : In(r, lim[l].queue) <=> req[r].at = "queued" /\ req[r].lim = l

QInv ==
  /\ IInv
  /\ \A l \in Limiters : Line(l)
  /\ calls \in 0 .. GcEvery - 1
  /\ since \in [ Hosts -> 0 .. Interval ]

(* What is left of a sequence without its k-th element. *)
LEMMA RemovedAt ==
  ASSUME NEW S, NEW q \in Seq(S), NEW k \in 1 .. Len(q)
  PROVE  /\ RemoveAt(q, k) \in Seq(S)
         /\ Len(RemoveAt(q, k)) = Len(q) - 1
         /\ \A i \in 1 .. Len(q) - 1 : RemoveAt(q, k)[i] = IF i < k THEN q[i] ELSE q[i + 1]
<1> DEFINE a == SubSeq(q, 1, k - 1)
           b == SubSeq(q, k + 1, Len(q))
<1>0. Len(q) \in Nat /\ k \in Int /\ 1 <= k /\ k <= Len(q)
  OBVIOUS
<1>1. /\ a \in Seq(S) /\ Len(a) = k - 1
      /\ \A i \in 1 .. k - 1 : a[i] = q[i]
  OBVIOUS
<1>2. /\ b \in Seq(S) /\ Len(b) = Len(q) - k
      /\ \A i \in 1 .. Len(q) - k : b[i] = q[i + k]
  OBVIOUS
<1> HIDE DEF a, b
<1>3. /\ a \o b \in Seq(S) /\ Len(a \o b) = Len(a) + Len(b)
      /\ \A i \in 1 .. Len(a) + Len(b) :
           (a \o b)[i] = IF i <= Len(a) THEN a[i] ELSE b[i - Len(a)]
  BY <1>1, <1>2, ConcatProperties
<1>4. RemoveAt(q, k) = a \o b
  BY DEF RemoveAt, a, b
<1>5. ASSUME NEW i \in 1 .. Len(q) - 1
      PROVE  (a \o b)[i] = IF i < k THEN q[i] ELSE q[i + 1]
  <2>0. i \in Int /\ k \in Int /\ i \in 1 .. Len(a) + Len(b)
    BY <1>0, <1>1, <1>2
  <2>1. CASE i < k
    <3>1. i <= Len(a) /\ a[i] = q[i]
      BY <1>0, <1>1, <2>0, <2>1
    <3> QED
      BY <1>3, <2>0, <2>1, <3>1
  <2>2. CASE ~(i < k)
    <3>1. /\ i - Len(a) \in 1 .. Len(q) - k /\ ~(i <= Len(a))
          /\ (i - Len(a)) + k = i + 1
      BY <1>0, <1>1, <2>0, <2>2
    <3>2. b[i - Len(a)] = q[i + 1]
      BY <1>2, <3>1
    <3> QED
      BY <1>3, <2>0, <2>2, <3>1, <3>2
  <2> QED
    BY <2>1, <2>2
<1>6. Len(a \o b) = Len(q) - 1
  BY <1>0, <1>1, <1>2, <1>3
<1> QED
  BY <1>3, <1>4, <1>5, <1>6

(* Removing the only occurrence of e leaves the others in place. *)
LEMMA Removed ==
  ASSUME NEW S, NEW q \in Seq(S), Once(q), NEW e
  PROVE  /\ RemoveFirst(q, e) \in Seq(S) /\ Once(RemoveFirst(q, e))
         /\ ~In(e, RemoveFirst(q, e))
         /\ \A f : f # e => (In(f, RemoveFirst(q, e)) <=> In(f, q))
<1>1. CASE ~In(e, q)
  BY <1>1 DEF In, RemoveFirst
<1>2. CASE In(e, q)
  <2>1. PICK k \in 1 .. Len(q) : q[k] = e
    BY <1>2 DEF In
  <2>2. { i \in 1 .. Len(q) : q[i] = e } = {k}
    BY <2>1 DEF Once
  <2>3. Min({k}) = k
    BY DEF Min
  <2>4. SelectInSeq(q, LAMBDA v : v = e) = k
    BY <2>2, <2>3 DEF SelectInSeq
  <2>5. RemoveFirst(q, e) = RemoveAt(q, k)
    BY <2>1, <2>4 DEF RemoveFirst
  <2> DEFINE p == RemoveAt(q, k)
  <2>6. /\ p \in Seq(S) /\ Len(p) = Len(q) - 1
        /\ \A i \in 1 .. Len(q) - 1 : p[i] = IF i < k THEN q[i] ELSE q[i + 1]
    BY RemovedAt
  <2> HIDE DEF p
  <2>7. Once(p)
    BY <2>6 DEF Once
  <2>8. ~In(e, p)
    BY <2>1, <2>6 DEF Once, In
  <2>9. ASSUME NEW f, f # e, In(f, q)
        PROVE  In(f, p)
    <3>1. PICK i \in 1 .. Len(q) : q[i] = f
      BY <2>9 DEF In
    <3>2. CASE i < k
      BY <3>1, <3>2, <2>6 DEF In
    <3>3. CASE i > k
      <4>1. i - 1 \in 1 .. Len(p) /\ p[i - 1] = f
        BY <3>1, <3>3, <2>6
      <4> QED
        BY <4>1 DEF In
    <3> QED
      BY <3>1, <3>2, <3>3, <2>1, <2>9
  <2>10. ASSUME NEW f, In(f, p)
         PROVE  In(f, q)
    BY <2>10, <2>6 DEF In
  <2> QED
    BY <2>5, <2>6, <2>7, <2>8, <2>9, <2>10 DEF p
<1> QED
  BY <1>1, <1>2

LEMMA Joined ==
  ASSUME NEW S, NEW q \in Seq(S), Once(q), NEW e \in S, ~In(e, q)
  PROVE  /\ Append(q, e) \in Seq(S) /\ Once(Append(q, e))
         /\ \A f : In(f, Append(q, e)) <=> In(f, q) \/ f = e
<1> DEFINE p == Append(q, e)
<1>1. /\ p \in Seq(S) /\ Len(p) = Len(q) + 1 /\ Len(q) \in Nat
      /\ p[Len(q) + 1] = e /\ \A i \in 1 .. Len(q) : p[i] = q[i]
  OBVIOUS
<1> HIDE DEF p
<1>2. \A i \in 1 .. Len(p) : i \in 1 .. Len(q) \/ i = Len(q) + 1
  BY <1>1
<1>3. Once(p)
  BY <1>1, <1>2 DEF Once, In
<1>4. ASSUME NEW f
      PROVE  In(f, p) <=> In(f, q) \/ f = e
  <2>1. In(f, p) => In(f, q) \/ f = e
    BY <1>1, <1>2 DEF In
  <2>2. In(f, q) => In(f, p)
    BY <1>1 DEF In
  <2>3. Len(q) + 1 \in 1 .. Len(p)
    BY <1>1
  <2>4. In(e, p)
    BY <1>1, <2>3 DEF In
  <2> QED
    BY <2>1, <2>2, <2>4
<1> QED
  BY <1>1, <1>3, <1>4 DEF p

LEMMA Served1st ==
  ASSUME NEW S, NEW q \in Seq(S), Once(q), q # << >>
  PROVE  /\ Tail(q) \in Seq(S) /\ Once(Tail(q))
         /\ \A f : In(f, Tail(q)) <=> In(f, q) /\ f # Head(q)
<1> DEFINE p == Tail(q)
<1>1. /\ p \in Seq(S) /\ Len(p) = Len(q) - 1 /\ Len(q) \in Nat /\ Len(q) >= 1
      /\ \A i \in 1 .. Len(p) : p[i] = q[i + 1]
      /\ Head(q) = q[1]
  OBVIOUS
<1> HIDE DEF p
<1>2. Once(p)
  BY <1>1 DEF Once
<1>3. ASSUME NEW f
      PROVE  In(f, p) <=> In(f, q) /\ f # Head(q)
  <2>1. ASSUME In(f, p)
        PROVE  In(f, q) /\ f # Head(q)
    <3>1. PICK i \in 1 .. Len(p) : p[i] = f
      BY <2>1 DEF In
    <3>2. i + 1 \in 1 .. Len(q) /\ 1 \in 1 .. Len(q) /\ q[i + 1] = f /\ i + 1 # 1
      BY <1>1, <3>1
    <3> QED
      BY <1>1, <3>2 DEF In, Once
  <2>2. ASSUME In(f, q), f # Head(q)
        PROVE  In(f, p)
    <3>1. PICK i \in 1 .. Len(q) : q[i] = f
      BY <2>2 DEF In
    <3>2. i - 1 \in 1 .. Len(p) /\ p[i - 1] = f
      BY <1>1, <2>2, <3>1
    <3> QED
      BY <3>2 DEF In
  <2> QED
    BY <2>1, <2>2
<1> QED
  BY <1>1, <1>2, <1>3 DEF p

LEMMA NobodyIn ==
  ASSUME NEW S
  PROVE  << >> \in Seq(S) /\ Once(<< >>) /\ \A f : ~In(f, << >>)
BY DEF Once, In

LEMMA InitLine == Init => QInv
<1> SUFFICES ASSUME Init
             PROVE  QInv
  OBVIOUS
<1>1. \A l \in Limiters : lim[l].queue = << >>
  BY DEF Init, NewPair
<1>2. \A r \in Requests : req[r].at # "queued"
  BY DEF Init, Away
<1>3. \A l \in Limiters : Line(l)
  BY <1>1, <1>2, NobodyIn DEF Line
<1>4. calls \in 0 .. GcEvery - 1 /\ since \in [ Hosts -> 0 .. Interval ]
  BY TimesAssumption DEF Init
<1> QED
  BY <1>3, <1>4, InitInv DEF QInv

LEMMA AskLine ==
  ASSUME QInv, NEW r \in Requests, NEW h \in Hosts, Ask(r, h)
  PROVE  \A l \in Limiters : Line(l)'
<1> USE DEF QInv
<1> DEFINE swept == [ k \in Hosts |->
             IF calls = 0 /\ Expired(entry[k]) THEN [ lim |-> None, idle |-> Ttl ] ELSE entry[k] ]
           fresh == CHOOSE m \in Limiters : Unused(m)
           l     == IF swept[h].lim = None THEN fresh ELSE swept[h].lim
           pair  == IF swept[h].lim = None THEN NewPair(h) ELSE lim[l]
<1>1. /\ req[r].at = "away"
      /\ lim' = [ lim EXCEPT ![l] = [ pair EXCEPT !.queue = Append(@, r) ] ]
  BY DEF Ask
<1>2. PICK d \in 1 .. Deadline :
        req' = [ req EXCEPT ![r] = [ at |-> "queued", lim |-> l, left |-> d, nap |-> 0 ] ]
  BY DEF Ask
<1>3. fresh \in Limiters /\ Unused(fresh)
  BY SomeUnused DEF IInv
<1>4. swept[h].lim # None => swept[h].lim = entry[h].lim
  BY DEF IInv, Typed, Entries
<1> HIDE DEF swept, fresh
<1>5. l \in Limiters /\ IsPair(pair)
  <2>1. CASE swept[h].lim = None
    BY <1>3, <2>1, TimesAssumption DEF IsPair, NewPair
  <2>2. CASE swept[h].lim # None
    BY <1>4, <2>2 DEF IInv, Typed, Keyed
  <2> QED
    BY <2>1, <2>2
<1>6. /\ pair.queue \in Seq(Requests) /\ Once(pair.queue)
      /\ \A q \in Requests : In(q, pair.queue) <=> req[q].at = "queued" /\ req[q].lim = l
  <2>1. CASE swept[h].lim = None
    <3>1. pair.queue = << >> /\ \A q \in Requests : req[q].lim # l
      BY <1>3, <2>1 DEF NewPair, Unused
    <3> QED
      BY <3>1, NobodyIn
  <2>2. CASE swept[h].lim # None
    BY <1>5, <2>2 DEF Line
  <2> QED
    BY <2>1, <2>2
<1> HIDE DEF l, pair
<1>7. /\ lim'[l].queue = Append(pair.queue, r)
      /\ \A m \in Limiters \ {l} : lim'[m] = lim[m]
  BY <1>1, <1>5 DEF IInv, Typed, IsPair
<1>8. /\ req'[r].at = "queued" /\ req'[r].lim = l
      /\ \A q \in Requests \ {r} : req'[q] = req[q]
  BY <1>2 DEF IInv, Typed
<1>9. ~In(r, pair.queue)
  BY <1>1, <1>6
<1>10. ASSUME NEW m \in Limiters, m = l
       PROVE  Line(m)'
  <2> DEFINE p == Append(pair.queue, r)
  <2>1. /\ p \in Seq(Requests) /\ Once(p)
        /\ \A f : In(f, p) <=> In(f, pair.queue) \/ f = r
    BY <1>6, <1>9, Joined
  <2> HIDE DEF p
  <2>2. lim'[l].queue = p
    BY <1>7 DEF p
  <2> QED
    BY <1>6, <1>8, <1>10, <2>1, <2>2 DEF Line
<1>11. ASSUME NEW m \in Limiters, m # l
       PROVE  Line(m)'
  BY <1>1, <1>7, <1>8, <1>11 DEF Line
<1> QED
  BY <1>10, <1>11

LEMMA AdmitLine ==
  ASSUME QInv, NEW r \in Requests, Admit(r)
  PROVE  \A l \in Limiters : Line(l)'
<1> USE DEF QInv
<1> DEFINE l   == req[r].lim
           nap == NextSleep(lim[l].due)
           q   == lim[l].queue
<1>1. /\ req[r].at = "queued"
      /\ Head(q) = r
      /\ lim' = [ lim EXCEPT ![l].queue = Tail(@), ![l].due = nap ]
      /\ req' = [ req EXCEPT ![r] =
           IF nap > @.left THEN Away ELSE [ @ EXCEPT !.at = "pacing", !.nap = nap ] ]
  BY DEF Admit
<1>2. l \in Limiters
  BY <1>1 DEF IInv, Served
<1> HIDE DEF nap, l
<1>3. lim'[l].queue = Tail(q) /\ \A m \in Limiters \ {l} : lim'[m] = lim[m]
  <2>1. lim'[l] = [ lim[l] EXCEPT !.queue = Tail(@), !.due = nap ]
    BY <1>1, <1>2 DEF IInv, Typed
  <2>2. lim[l] = [ host |-> lim[l].host, due |-> lim[l].due, queue |-> lim[l].queue ]
    BY <1>2 DEF IInv, Typed, IsPair
  <2>3. lim'[l] = [ host |-> lim[l].host, due |-> nap, queue |-> Tail(lim[l].queue) ]
    BY <2>1, <2>2
  <2>4. lim'[l].queue = Tail(q)
    BY <2>3
  <2> QED
    BY <1>1, <1>2, <2>4 DEF IInv, Typed
<1>4. req'[r].at # "queued" /\ \A p \in Requests \ {r} : req'[p] = req[p]
  <2>1. req'[r] = IF nap > req[r].left THEN Away
                  ELSE [ req[r] EXCEPT !.at = "pacing", !.nap = nap ]
    BY <1>1 DEF IInv, Typed
  <2>2. [ req[r] EXCEPT !.at = "pacing", !.nap = nap ].at = "pacing"
    BY DEF IInv, Typed, Fetches
  <2> QED
    BY <1>1, <2>1, <2>2 DEF Away, IInv, Typed
<1>5. /\ q \in Seq(Requests) /\ Once(q)
      /\ \A p \in Requests : In(p, q) <=> req[p].at = "queued" /\ req[p].lim = l
  BY <1>2 DEF Line
<1> HIDE DEF q
<1>6. q # << >>
  <2>1. In(r, q)
    BY <1>1, <1>5 DEF l
  <2> QED
    BY <2>1, NobodyIn
<1>7. ASSUME NEW m \in Limiters, m = l
      PROVE  Line(m)'
  <2> DEFINE t == Tail(q)
  <2>1. /\ t \in Seq(Requests) /\ Once(t)
        /\ \A f : In(f, t) <=> In(f, q) /\ f # r
    BY <1>1, <1>5, <1>6, Served1st
  <2> HIDE DEF t
  <2>2. lim'[l].queue = t
    BY <1>3 DEF t
  <2> QED
    BY <1>4, <1>5, <1>7, <2>1, <2>2 DEF Line
<1>8. ASSUME NEW m \in Limiters, m # l
      PROVE  Line(m)'
  <2>1. lim'[m] = lim[m] /\ Line(m) /\ req[r].lim # m
    BY <1>3, <1>8 DEF l
  <2>2. ~In(r, lim'[m].queue) /\ req'[r].at # "queued"
    BY <1>4, <2>1 DEF Line
  <2> QED
    BY <1>4, <2>1, <2>2 DEF Line
<1> QED
  BY <1>7, <1>8

LEMMA LeaveLine ==
  ASSUME QInv, NEW r \in Requests, Leave(r)
  PROVE  \A l \in Limiters : Line(l)'
<1> USE DEF QInv
<1> DEFINE l == req[r].lim
           q == lim[l].queue
<1>1. /\ req[r].at # "away"
      /\ lim' = [ lim EXCEPT ![l].queue = RemoveFirst(@, r) ]
      /\ req' = [ req EXCEPT ![r] = Away ]
  BY DEF Leave
<1>2. l \in Limiters
  BY <1>1 DEF IInv, Served
<1> HIDE DEF l
<1>3. lim'[l].queue = RemoveFirst(q, r) /\ \A m \in Limiters \ {l} : lim'[m] = lim[m]
  BY <1>1, <1>2 DEF IInv, Typed, IsPair
<1>4. req'[r].at = "away" /\ \A p \in Requests \ {r} : req'[p] = req[p]
  BY <1>1 DEF IInv, Typed, Away
<1>5. /\ q \in Seq(Requests) /\ Once(q)
      /\ \A p \in Requests : In(p, q) <=> req[p].at = "queued" /\ req[p].lim = l
  BY <1>2 DEF Line
<1> HIDE DEF q
<1>6. ASSUME NEW m \in Limiters, m = l
      PROVE  Line(m)'
  <2> DEFINE t == RemoveFirst(q, r)
  <2>1. /\ t \in Seq(Requests) /\ Once(t) /\ ~In(r, t)
        /\ \A f : f # r => (In(f, t) <=> In(f, q))
    BY <1>5, Removed
  <2> HIDE DEF t
  <2>2. lim'[l].queue = t
    BY <1>3 DEF t
  <2> QED
    BY <1>4, <1>5, <1>6, <2>1, <2>2 DEF Line
<1>7. ASSUME NEW m \in Limiters, m # l
      PROVE  Line(m)'
  BY <1>1, <1>3, <1>4, <1>7 DEF Line, l
<1> QED
  BY <1>6, <1>7

LEMMA NextLine == QInv /\ [Next]_vars => QInv'
<1> SUFFICES ASSUME QInv, [Next]_vars
             PROVE  QInv'
  OBVIOUS
<1> USE DEF QInv
<1>1. CASE \E r \in Requests, h \in Hosts : Ask(r, h)
  <2>1. calls' = (calls + 1) % GcEvery /\ since' = since
    BY <1>1 DEF Ask
  <2>2. calls' \in 0 .. GcEvery - 1
    BY <2>1, TimesAssumption
  <2> QED
    BY <1>1, <2>1, <2>2, AskLine, NextInv
<1>2. CASE \E r \in Requests : Admit(r)
  BY <1>2, AdmitLine, NextInv DEF Admit
<1>3. CASE \E r \in Requests : Start(r)
  <2>1. PICK r \in Requests : Start(r)
    BY <1>3
  <2>2. /\ lim' = lim /\ calls' = calls
        /\ \A q \in Requests : /\ req'[q].lim = req[q].lim
                               /\ req'[q].at = "queued" <=> req[q].at = "queued"
    BY <2>1 DEF Start, IInv, Typed, Fetches
  <2>3. since' \in [ Hosts -> 0 .. Interval ]
    <3>1. since' = [ since EXCEPT ![HostOf(req[r].lim)] = 0 ] /\ 0 \in 0 .. Interval
      BY <2>1, TimesAssumption DEF Start
    <3> QED
      BY <3>1
  <2>4. \A l \in Limiters : Line(l)'
    BY <2>2 DEF Line
  <2> QED
    BY <2>2, <2>3, <2>4, NextInv
<1>4. CASE \E r \in Requests : Leave(r)
  BY <1>4, LeaveLine, NextInv DEF Leave
<1>5. CASE Tick
  <2>1. \A q \in Requests : req'[q].lim = req[q].lim /\ req'[q].at = req[q].at
    BY <1>5 DEF Tick, IInv, Typed, Fetches
  <2>2. \A l \in Limiters : lim'[l].queue = lim[l].queue
    <3> TAKE l \in Limiters
    <3>1. lim[l] = [ host |-> lim[l].host, due |-> lim[l].due, queue |-> lim[l].queue ]
      BY DEF IInv, Typed, IsPair
    <3>2. lim'[l] = [ lim[l] EXCEPT !.due = Greatest(@ - 1, -Interval) ]
      BY <1>5 DEF Tick
    <3> QED
      BY <3>1, <3>2
  <2>3. since' \in [ Hosts -> 0 .. Interval ]
    <3>1. \A n \in 0 .. Interval : Least(n + 1, Interval) \in 0 .. Interval
      BY TimesAssumption DEF Least
    <3>2. since' = [ h \in Hosts |-> Least(since[h] + 1, Interval) ]
      BY <1>5 DEF Tick
    <3> QED
      BY <3>1, <3>2
  <2>4. \A l \in Limiters : Line(l)'
    BY <2>1, <2>2 DEF Line
  <2> QED
    BY <1>5, <2>3, <2>4, NextInv DEF Tick
<1>6. CASE UNCHANGED vars
  BY <1>6, NextInv DEF vars, Line
<1> QED
  BY <1>1, <1>2, <1>3, <1>4, <1>5, <1>6 DEF Next

(* Who waits is in line, once and at his own pair, and nobody else is. *)
THEOREM LinesTrue == Spec => []QInv
BY InitLine, NextLine, PTL DEF Spec

(* Every variable keeps its type, and no pacer is due later than one interval *)
(* from now: an abandoned reservation delays the next request by one interval *)
(* at most (next_sleep).                                                       *)
THEOREM TypeCorrect == Spec => []TypeOK
<1>1. QInv => TypeOK
  <2> SUFFICES ASSUME QInv
               PROVE  TypeOK
    OBVIOUS
  <2>1. \A l \in Limiters :
          lim[l] \in [ host : Hosts \cup {None}, due : -Interval .. Interval,
                       queue : Seq(Requests) ]
    BY DEF QInv, IInv, Typed, IsPair, Line
  <2> QED
    BY <2>1 DEF QInv, IInv, Typed, Entries, Fetches, TypeOK
<1> QED
  BY <1>1, LinesTrue, PTL

(* The types and the cap, which get_host_limiter keeps although it drops and *)
(* creates the entries that own the semaphores.                              *)
THEOREM LimiterSound == Spec => []LimiterIsSound
BY TypeCorrect, HostCapKept, PTL DEF LimiterIsSound

-----------------------------------------------------------------------------
(* The refinement of HostLines.  A step of the limiter is a step of one      *)
(* host's line, said here of LineOf and ServedAt, or none.                   *)

Joins(r, h) ==
  /\ \A k \in Hosts : ~In(r, LineOf(k)) /\ r \notin ServedAt(k)
  /\ \A k \in Hosts : LineOf(k)' = IF k = h THEN Append(LineOf(k), r) ELSE LineOf(k)
  /\ \A k \in Hosts : ServedAt(k)' = ServedAt(k)

Serves(h) ==
  /\ LineOf(h) # << >>
  /\ Cardinality(ServedAt(h)) < Cap
  /\ \A k \in Hosts : LineOf(k)' = IF k = h THEN Tail(LineOf(k)) ELSE LineOf(k)
  /\ \A k \in Hosts \ {h} : ServedAt(k)' = ServedAt(k)
  /\ \/ ServedAt(h)' = ServedAt(h) \cup {Head(LineOf(h))}
     \/ ServedAt(h)' = ServedAt(h)

Quits(r, h) ==
  /\ In(r, LineOf(h)) \/ r \in ServedAt(h)
  /\ \A k \in Hosts : LineOf(k)' = IF k = h THEN RemoveFirst(LineOf(k), r) ELSE LineOf(k)
  /\ \A k \in Hosts : ServedAt(k)' = IF k = h THEN ServedAt(k) \ {r} ELSE ServedAt(k)

Stays ==
  \A k \in Hosts : LineOf(k)' = LineOf(k) /\ ServedAt(k)' = ServedAt(k)

LineStep ==
  \/ \E r \in Requests, h \in Hosts : Joins(r, h) \/ Quits(r, h)
  \/ \E h \in Hosts : Serves(h)
  \/ Stays

(* Who is in a host's line waits for the pair the host's entry names. *)
LEMMA InLine ==
  ASSUME QInv, NEW h \in Hosts, NEW r \in Requests, In(r, LineOf(h))
  PROVE  req[r].at = "queued" /\ req[r].lim = entry[h].lim /\ entry[h].lim \in Limiters
<1>1. entry[h].lim # None
  BY NobodyIn DEF LineOf
<1>2. entry[h].lim \in Limiters
  BY <1>1 DEF QInv, IInv, Keyed
<1>3. QED
  BY <1>1, <1>2 DEF QInv, Line, LineOf

(* A collected entry leaves nobody behind: its line is empty. *)
LEMMA CollectedIsEmpty ==
  ASSUME QInv, NEW h \in Hosts, Expired(entry[h]) \/ entry[h].lim = None
  PROVE  LineOf(h) = << >>
<1>1. CASE entry[h].lim = None
  BY <1>1 DEF LineOf
<1>2. CASE entry[h].lim # None /\ Expired(entry[h])
  <2>1. entry[h].lim \in Limiters /\ HostOf(entry[h].lim) = h
    BY <1>2 DEF QInv, IInv, Keyed
  <2>2. LineOf(h) \in Seq(Requests)
    BY <1>2, <2>1 DEF QInv, Line, LineOf
  <2>3. ASSUME LineOf(h) # << >>
        PROVE  FALSE
    <3>1. Len(LineOf(h)) \in Nat /\ Len(LineOf(h)) >= 1 /\ LineOf(h)[1] \in Requests
      BY <2>2, <2>3
    <3>2. In(LineOf(h)[1], LineOf(h))
      BY <3>1 DEF In
    <3>3. PICK r \in Requests : r = LineOf(h)[1]
      BY <3>1
    <3>4. req[r].at = "queued" /\ req[r].lim = entry[h].lim
      BY <3>2, <3>3, InLine
    <3>5. ~Expired(entry[h])
      BY <2>1, <3>4, InUseIsKept DEF QInv
    <3>6. QED
      BY <1>2, <3>5
  <2>4. QED
    BY <2>3
<1>3. QED
  BY <1>1, <1>2

(* The permits of a host are those of the pair its entry names. *)
LEMMA ServedByPair ==
  ASSUME IInv, NEW r \in Requests, req[r].at # "away"
  PROVE  ServedAt(HostOf(req[r].lim)) = HoldersOf(req[r].lim)
<1> DEFINE l == req[r].lim
           h == HostOf(l)
<1>1. l \in Limiters /\ h \in Hosts /\ entry[h].lim = l
  BY DEF IInv, Served
<1>2. ASSUME NEW q \in Requests, Holding(q), HostOf(req[q].lim) = h
      PROVE  req[q].lim = l
  BY <1>1, <1>2 DEF IInv, Served, Holding
<1>3. QED
  BY <1>1, <1>2 DEF ServedAt, HoldersOf

(* Two hosts never share a pair. *)
LEMMA OwnPair ==
  ASSUME IInv, NEW r \in Requests, req[r].at # "away",
         NEW k \in Hosts, k # HostOf(req[r].lim)
  PROVE  entry[k].lim # req[r].lim
BY LimitersAssumption DEF IInv, Keyed, Served

(* Joining: collections take empty lines only, and the new entry of a host   *)
(* starts one.                                                               *)
LEMMA AskStep ==
  ASSUME QInv, NEW r \in Requests, NEW h \in Hosts, Ask(r, h)
  PROVE  Joins(r, h)
<1> USE DEF QInv
<1>1. PICK l \in Limiters, d \in 1 .. Deadline : \E swept : Asked(r, h, l, d, swept)
  BY AskEffect
<1>2. PICK swept : Asked(r, h, l, d, swept)
  BY <1>1
<1>3. /\ req[r].at = "away"
      /\ \A k \in Hosts : ~Expired(entry[k]) => swept[k] = entry[k]
      /\ \A k \in Hosts : swept[k].lim # None => swept[k] = entry[k]
      /\ IF swept[h].lim = None THEN Unused(l) ELSE l = entry[h].lim
  BY <1>2 DEF Asked
<1>4. /\ lim'[l].host = h
      /\ \A m \in Limiters \ {l} : lim'[m] = lim[m]
      /\ lim'[l].queue = Append(IF swept[h].lim = None THEN << >> ELSE lim[l].queue, r)
  BY <1>2 DEF Asked
<1>5. /\ entry'[h].lim = l
      /\ \A k \in Hosts \ {h} : entry'[k] = swept[k]
      /\ req'[r].at = "queued"
      /\ \A q \in Requests \ {r} : req'[q] = req[q]
  BY <1>2 DEF Asked
<1>6. \A k \in Hosts : ~In(r, LineOf(k)) /\ r \notin ServedAt(k)
  BY <1>3, InLine DEF ServedAt, Holding
<1>7. \A k \in Hosts : swept[k].lim = None => LineOf(k) = << >>
  BY <1>3, CollectedIsEmpty
<1>8. ASSUME NEW k \in Hosts
      PROVE  LineOf(k)' = IF k = h THEN Append(LineOf(k), r) ELSE LineOf(k)
  <2>1. CASE k = h
    <3>1. LineOf(k)' = lim'[l].queue
      BY <1>5, <2>1, LimitersAssumption DEF LineOf
    <3>2. LineOf(h) = IF swept[h].lim = None THEN << >> ELSE lim[l].queue
      BY <1>3, <1>7 DEF LineOf
    <3>3. QED
      BY <1>4, <2>1, <3>1, <3>2
  <2>2. CASE k # h /\ swept[k].lim = None
    BY <1>5, <1>7, <2>2 DEF LineOf
  <2>3. CASE k # h /\ swept[k].lim # None
    <3>1. swept[k] = entry[k] /\ entry[k].lim \in Limiters /\ HostOf(entry[k].lim) = k
      BY <1>3, <2>3 DEF IInv, Keyed
    <3>2. entry[k].lim # l
      BY <1>3, <2>3, <3>1 DEF Unused, IInv, Keyed, HostOf
    <3>3. entry'[k] = entry[k] /\ lim'[entry[k].lim] = lim[entry[k].lim]
      BY <1>4, <1>5, <2>3, <3>1, <3>2
    <3>4. QED
      BY <2>3, <3>3 DEF LineOf
  <2>4. QED
    BY <2>1, <2>2, <2>3
<1>9. ASSUME NEW k \in Hosts
      PROVE  ServedAt(k)' = ServedAt(k)
  <2>1. \A q \in Requests : Holding(q)' <=> Holding(q)
    BY <1>3, <1>5 DEF Holding
  <2>2. ASSUME NEW q \in Requests, Holding(q)
        PROVE  req'[q] = req[q] /\ lim'[req[q].lim].host = lim[req[q].lim].host
    <3>1. q # r /\ req[q].at # "away"
      BY <1>3, <2>2 DEF Holding
    <3>2. req[q].lim \in Limiters
      BY <3>1 DEF IInv, Served
    <3>3. CASE req[q].lim # l
      BY <1>4, <1>5, <3>1, <3>2, <3>3
    <3>4. CASE req[q].lim = l
      <4>1. l = entry[h].lim
        BY <1>3, <3>4 DEF Unused
      <4>2. lim[l].host = h
        BY <4>1, LimitersAssumption DEF IInv, Keyed, HostOf
      <4>3. QED
        BY <1>4, <1>5, <3>1, <3>4, <4>2
    <3>5. QED
      BY <3>3, <3>4
  <2>3. QED
    BY <2>1, <2>2 DEF ServedAt, HostOf
<1>10. QED
  BY <1>6, <1>8, <1>9 DEF Joins

(* The semaphore's queue is the host's line, and its permits the host's. *)
LEMMA AdmitStep ==
  ASSUME QInv, NEW r \in Requests, Admit(r)
  PROVE  \E h \in Hosts : Serves(h)
<1> USE DEF QInv
<1>a. req[r].at # "away"
  BY DEF Admit
<1>b. PICK l \in Limiters : l = req[r].lim
  BY <1>a DEF IInv, Served
<1>c. PICK h \in Hosts : h = HostOf(l)
  BY <1>a, <1>b DEF IInv, Served
<1> DEFINE nap == NextSleep(lim[l].due)
<1>1. /\ req[r].at = "queued"
      /\ Head(lim[l].queue) = r
      /\ Cardinality(HoldersOf(l)) < Cap
      /\ lim' = [ lim EXCEPT ![l].queue = Tail(@), ![l].due = nap ]
      /\ req' = [ req EXCEPT ![r] =
           IF nap > @.left THEN Away ELSE [ @ EXCEPT !.at = "pacing", !.nap = nap ] ]
      /\ entry' = entry
  BY <1>b DEF Admit, PermitFree
<1>2. entry[h].lim = l /\ l # None
  BY <1>a, <1>b, <1>c, LimitersAssumption DEF IInv, Served
<1>3. ServedAt(h) = HoldersOf(l)
  BY <1>a, <1>b, <1>c, ServedByPair
<1>4. \A k \in Hosts \ {h} : entry[k].lim # l
  BY <1>a, <1>b, <1>c, OwnPair
<1> HIDE DEF nap
<1>5. /\ lim'[l].queue = Tail(lim[l].queue)
      /\ \A m \in Limiters : lim'[m].host = lim[m].host
      /\ \A m \in Limiters \ {l} : lim'[m] = lim[m]
  <2>1. lim[l] = [ host |-> lim[l].host, due |-> lim[l].due, queue |-> lim[l].queue ]
    BY <1>2 DEF IInv, Typed, IsPair
  <2>2. lim'[l] = [ lim[l] EXCEPT !.queue = Tail(@), !.due = nap ]
    BY <1>1, <1>2 DEF IInv, Typed
  <2>3. lim'[l] = [ host |-> lim[l].host, due |-> nap, queue |-> Tail(lim[l].queue) ]
    BY <2>1, <2>2
  <2>4. \A m \in Limiters \ {l} : lim'[m] = lim[m]
    BY <1>1 DEF IInv, Typed
  <2>5. QED
    BY <2>3, <2>4
<1>6. /\ \A q \in Requests \ {r} : req'[q] = req[q]
      /\ \/ ~Holding(r)'
         \/ Holding(r)' /\ req'[r].lim = l
  <2>1. req'[r] = IF nap > req[r].left THEN Away
                  ELSE [ req[r] EXCEPT !.at = "pacing", !.nap = nap ]
    BY <1>1 DEF IInv, Typed
  <2>2. CASE nap > req[r].left
    BY <1>1, <2>1, <2>2 DEF Away, Holding, IInv, Typed
  <2>3. CASE ~(nap > req[r].left)
    <3>1. req'[r].at = "pacing" /\ req'[r].lim = l
      BY <1>b, <2>1, <2>3 DEF IInv, Typed, Fetches
    <3>2. QED
      BY <1>1, <3>1 DEF Holding, IInv, Typed
  <2>4. QED
    BY <2>2, <2>3
<1>7. /\ LineOf(h) = lim[l].queue /\ LineOf(h) # << >>
      /\ Head(LineOf(h)) = r
  <2>1. In(r, lim[l].queue)
    BY <1>1, <1>b DEF Line
  <2>2. QED
    BY <1>1, <1>2, <2>1, NobodyIn DEF LineOf
<1>8. \A k \in Hosts : LineOf(k)' = IF k = h THEN Tail(LineOf(k)) ELSE LineOf(k)
  <2> TAKE k \in Hosts
  <2>1. CASE k = h
    BY <1>1, <1>2, <1>5, <1>7, <2>1 DEF LineOf
  <2>2. CASE k # h /\ entry[k].lim # None
    <3>1. entry[k].lim \in Limiters \ {l}
      BY <1>4, <2>2 DEF IInv, Keyed
    <3>2. lim'[entry[k].lim] = lim[entry[k].lim]
      BY <1>5, <3>1
    <3>3. /\ LineOf(k) = lim[entry[k].lim].queue
          /\ LineOf(k)' = lim'[entry'[k].lim].queue
      BY <1>1, <2>2 DEF LineOf
    <3>4. LineOf(k)' = LineOf(k)
      BY <1>1, <3>2, <3>3
    <3>5. QED
      BY <2>2, <3>4
  <2>3. CASE k # h /\ entry[k].lim = None
    BY <1>1, <2>3 DEF LineOf
  <2>4. QED
    BY <2>1, <2>2, <2>3
<1>9. ASSUME NEW q \in Requests, q # r
      PROVE  /\ Holding(q)' <=> Holding(q)
             /\ req'[q] = req[q]
             /\ Holding(q) => HostOf(req[q].lim)' = HostOf(req[q].lim)
  BY <1>5, <1>6, <1>9 DEF Holding, HostOf, IInv, Served
<1>10. ~Holding(r) /\ lim'[l].host = h
  BY <1>1, <1>c, <1>5 DEF Holding, HostOf
<1>11. \A k \in Hosts \ {h} : ServedAt(k)' = ServedAt(k)
  BY <1>6, <1>9, <1>10 DEF ServedAt, HostOf
<1>12. \/ ServedAt(h)' = ServedAt(h) \cup {r}
       \/ ServedAt(h)' = ServedAt(h)
  <2>1. CASE ~Holding(r)'
    <3>1. ServedAt(h)' = ServedAt(h)
      BY <1>9, <1>10, <2>1 DEF ServedAt, HostOf
    <3>2. QED
      BY <3>1
  <2>2. CASE Holding(r)' /\ req'[r].lim = l
    <3>1. ServedAt(h)' = ServedAt(h) \cup {r}
      BY <1>9, <1>10, <2>2 DEF ServedAt, HostOf
    <3>2. QED
      BY <3>1
  <2>3. QED
    BY <1>6, <2>1, <2>2
<1>13. Cardinality(ServedAt(h)) < Cap
  BY <1>1, <1>3
<1>14. Serves(h)
  BY <1>7, <1>8, <1>11, <1>12, <1>13 DEF Serves
<1>15. QED
  BY <1>14

LEMMA LeaveStep ==
  ASSUME QInv, NEW r \in Requests, Leave(r)
  PROVE  \E h \in Hosts : Quits(r, h)
<1> USE DEF QInv
<1>a. req[r].at # "away"
  BY DEF Leave
<1>b. PICK l \in Limiters : l = req[r].lim
  BY <1>a DEF IInv, Served
<1>c. PICK h \in Hosts : h = HostOf(l)
  BY <1>a, <1>b DEF IInv, Served
<1>1. /\ req[r].at # "away"
      /\ lim' = [ lim EXCEPT ![l].queue = RemoveFirst(@, r) ]
      /\ req' = [ req EXCEPT ![r] = Away ]
      /\ entry' = entry
  BY <1>b DEF Leave
<1>2. entry[h].lim = l /\ l # None
  BY <1>a, <1>b, <1>c, LimitersAssumption DEF IInv, Served
<1>3. \A k \in Hosts \ {h} : entry[k].lim # l
  BY <1>a, <1>b, <1>c, OwnPair
<1>4. /\ lim'[l].queue = RemoveFirst(lim[l].queue, r)
      /\ \A m \in Limiters : lim'[m].host = lim[m].host
      /\ \A m \in Limiters \ {l} : lim'[m] = lim[m]
  BY <1>1, <1>2 DEF IInv, Typed, IsPair
<1>5. /\ \A q \in Requests \ {r} : req'[q] = req[q]
      /\ ~Holding(r)'
  BY <1>1 DEF IInv, Typed, Away, Holding
<1>6. LineOf(h) = lim[l].queue
  BY <1>2 DEF LineOf
<1>7. In(r, LineOf(h)) \/ r \in ServedAt(h)
  <2>1. CASE req[r].at = "queued"
    BY <1>b, <1>6, <2>1 DEF Line
  <2>2. CASE req[r].at # "queued"
    BY <1>1, <1>b, <1>c, <2>2 DEF ServedAt, Holding, IInv, Typed, Fetches
  <2>3. QED
    BY <2>1, <2>2
<1>8. \A k \in Hosts : LineOf(k)' = IF k = h THEN RemoveFirst(LineOf(k), r) ELSE LineOf(k)
  BY <1>1, <1>2, <1>3, <1>4, <1>6 DEF LineOf, IInv, Keyed
<1>9. ASSUME NEW q \in Requests, q # r
      PROVE  /\ Holding(q)' <=> Holding(q)
             /\ req'[q] = req[q]
             /\ Holding(q) => HostOf(req[q].lim)' = HostOf(req[q].lim)
  BY <1>4, <1>5, <1>9 DEF Holding, HostOf, IInv, Served
<1>10. \A k \in Hosts : ServedAt(k)' = ServedAt(k) \ {r}
  BY <1>5, <1>9 DEF ServedAt, HostOf
<1>11. \A k \in Hosts \ {h} : r \notin ServedAt(k)
  BY <1>b, <1>c DEF ServedAt
<1>12. \A k \in Hosts : ServedAt(k)' = IF k = h THEN ServedAt(k) \ {r} ELSE ServedAt(k)
  BY <1>10, <1>11
<1>13. Quits(r, h)
  BY <1>7, <1>8, <1>12 DEF Quits
<1>14. QED
  BY <1>13

(* What changes no queue, no permit and no entry is a stutter. *)
LEMMA Stutter ==
  ASSUME QInv,
         \A h \in Hosts : entry'[h].lim = entry[h].lim,
         \A l \in Limiters : lim'[l].queue = lim[l].queue /\ lim'[l].host = lim[l].host,
         \A r \in Requests : req'[r].lim = req[r].lim /\ (Holding(r)' <=> Holding(r))
  PROVE  Stays
<1> USE DEF QInv
<1>1. \A k \in Hosts : LineOf(k)' = LineOf(k)
  BY DEF LineOf, IInv, Keyed
<1>2. \A r \in Requests : Holding(r) => lim'[req[r].lim].host = lim[req[r].lim].host
  BY DEF IInv, Served, Holding
<1>3. \A k \in Hosts : ServedAt(k)' = ServedAt(k)
  BY <1>2 DEF ServedAt, HostOf
<1>4. QED
  BY <1>1, <1>3 DEF Stays

LEMMA NextStep == QInv /\ [Next]_vars => LineStep
<1> SUFFICES ASSUME QInv, [Next]_vars
             PROVE  LineStep
  OBVIOUS
<1>1. CASE \E r \in Requests, h \in Hosts : Ask(r, h)
  BY <1>1, AskStep DEF LineStep
<1>2. CASE \E r \in Requests : Admit(r)
  BY <1>2, AdmitStep DEF LineStep
<1>3. CASE \E r \in Requests : Start(r)
  <2>1. PICK r \in Requests : Start(r)
    BY <1>3
  <2>2. /\ entry' = entry /\ lim' = lim
        /\ \A q \in Requests : req'[q].lim = req[q].lim /\ (Holding(q)' <=> Holding(q))
    BY <2>1 DEF Start, QInv, IInv, Typed, Fetches, Holding
  <2>3. QED
    BY <2>2, Stutter DEF LineStep
<1>4. CASE \E r \in Requests : Leave(r)
  BY <1>4, LeaveStep DEF LineStep
<1>5. CASE Tick
  <2>1. \A q \in Requests : req'[q].lim = req[q].lim /\ req'[q].at = req[q].at
    BY <1>5 DEF Tick, QInv, IInv, Typed, Fetches
  <2>2. \A h \in Hosts : entry'[h].lim = entry[h].lim
    BY <1>5 DEF Tick, QInv, IInv, Typed, Entries
  <2>3. \A l \in Limiters : lim'[l].queue = lim[l].queue /\ lim'[l].host = lim[l].host
    <3> TAKE l \in Limiters
    <3>1. lim[l] = [ host |-> lim[l].host, due |-> lim[l].due, queue |-> lim[l].queue ]
      BY DEF QInv, IInv, Typed, IsPair
    <3>2. lim'[l] = [ lim[l] EXCEPT !.due = Greatest(@ - 1, -Interval) ]
      BY <1>5 DEF Tick
    <3>3. QED
      BY <3>1, <3>2
  <2>4. \A q \in Requests : Holding(q)' <=> Holding(q)
    BY <2>1 DEF Holding
  <2>5. QED
    BY <2>1, <2>2, <2>3, <2>4, Stutter DEF LineStep
<1>6. CASE UNCHANGED vars
  <2>1. Stays
    BY <1>6 DEF vars, Stays, LineOf, ServedAt, Holding, HostOf
  <2>2. QED
    BY <2>1 DEF LineStep
<1>7. QED
  BY <1>1, <1>2, <1>3, <1>4, <1>5, <1>6 DEF Next

(* The limiter keeps what HostLines promises: one line per host, nobody in it *)
(* overtaken or lost, and at most Cap served, however often its entries are   *)
(* dropped and created again (get_host_limiter).                              *)
THEOREM ImplementsLines == Spec => KeepsLines
<1> DEFINE ln == [ h \in Hosts |-> LineOf(h) ]
           sv == [ h \in Hosts |-> ServedAt(h) ]
<1>1. Init => Lines!LinesInit
  <2> SUFFICES ASSUME Init
               PROVE  ln = [ h \in Hosts |-> << >> ] /\ sv = [ h \in Hosts |-> {} ]
    BY DEF Lines!LinesInit
  <2>1. \A h \in Hosts : LineOf(h) = << >> /\ ServedAt(h) = {}
    BY DEF Init, LineOf, ServedAt, Holding, Away
  <2>2. QED
    BY <2>1
<1>2. LineStep => [Lines!LinesNext]_<< ln, sv >>
  <2>1. ASSUME NEW r \in Requests, NEW h \in Hosts, Joins(r, h)
        PROVE  Lines!Join(r, h)
    <3>1. \A k \in Hosts : ~Lines!Here(r, k)
      BY <2>1 DEF Joins, In, Lines!Here, Lines!Contains
    <3>2. ln' = [ ln EXCEPT ![h] = Append(@, r) ]
      BY <2>1 DEF Joins
    <3>3. sv' = sv
      BY <2>1 DEF Joins
    <3>4. QED
      BY <3>1, <3>2, <3>3 DEF Lines!Join
  <2>2. ASSUME NEW r \in Requests, NEW h \in Hosts, Quits(r, h)
        PROVE  Lines!Quit(r, h)
    <3>1. Lines!Here(r, h)
      BY <2>2 DEF Quits, In, Lines!Here, Lines!Contains
    <3>2. Lines!RemoveFirst(ln[h], r) = RemoveFirst(ln[h], r)
      BY DEF Lines!RemoveFirst, Lines!RemoveAt, Lines!SelectInSeq, Lines!Min,
             RemoveFirst, RemoveAt, SelectInSeq, Min
    <3>3. ln' = [ ln EXCEPT ![h] = RemoveFirst(@, r) ]
      BY <2>2 DEF Quits
    <3>4. sv' = [ sv EXCEPT ![h] = @ \ {r} ]
      BY <2>2 DEF Quits
    <3>5. QED
      BY <3>1, <3>2, <3>3, <3>4 DEF Lines!Quit
  <2>3. ASSUME NEW h \in Hosts, Serves(h)
        PROVE  Lines!Serve(h)
    <3>1. ln[h] # << >> /\ Lines!Cardinality(sv[h]) < Cap
      BY <2>3 DEF Serves, Lines!Cardinality, Cardinality
    <3>2. ln' = [ ln EXCEPT ![h] = Tail(@) ]
      BY <2>3 DEF Serves
    <3>3. \/ sv' = [ sv EXCEPT ![h] = @ \cup {Head(ln[h])} ]
          \/ sv' = sv
      BY <2>3 DEF Serves
    <3>4. QED
      BY <3>1, <3>2, <3>3 DEF Lines!Serve
  <2>4. Stays => ln' = ln /\ sv' = sv
    BY DEF Stays
  <2>5. QED
    BY <2>1, <2>2, <2>3, <2>4 DEF LineStep, Lines!LinesNext
<1>3. QED
  BY <1>1, <1>2, NextStep, LinesTrue, PTL DEF Spec, KeepsLines, Lines!LinesSpec, Lines!lvars

-----------------------------------------------------------------------------

(* The time since the last start on a host, by what its entry and its pacer *)
(* remember of it.                                                          *)
Rested(h) ==
  /\ since[h] \in 0 .. Interval
  /\ since[h] = Interval \/ since[h] >= entry[h].idle - Deadline
  /\ IF entry[h].lim = None THEN since[h] = Interval
                            ELSE since[h] >= -lim[entry[h].lim].due

(* A request that sleeps before its start: its pacer is not due earlier, and *)
(* the interval will be over when it wakes.                                  *)
Paced(r) ==
  req[r].at = "pacing" =>
    /\ lim[req[r].lim].due >= req[r].nap
    /\ since[HostOf(req[r].lim)] + req[r].nap >= Interval

SInv ==
  /\ IInv
  /\ since = [ h \in Hosts |-> since[h] ]
  /\ \A h \in Hosts : Rested(h)
  /\ \A r \in Requests : Paced(r)

(* With one permit a pair has one holder. *)
LEMMA OneHolder ==
  ASSUME Cap = 1, IInv, NEW q \in Requests, NEW r \in Requests,
         Holding(q), Holding(r), req[q].lim = req[r].lim
  PROVE  q = r
<1> DEFINE S == HoldersOf(req[r].lim)
<1>1. q \in S /\ r \in S /\ S \in SUBSET Requests
  BY DEF HoldersOf
<1>2. req[r].lim \in Limiters
  BY DEF IInv, Served, Holding
<1>3. IsFiniteSet(S) /\ Cardinality(S) <= 1
  BY <1>1, <1>2, FS_Subset, LimitersAssumption DEF IInv
<1> HIDE DEF S
<1>4. Cardinality(S) = 1
  BY <1>1, <1>3, FS_CardinalityType, FS_EmptySet
<1>5. PICK x : S = {x}
  BY <1>3, <1>4, FS_Singleton
<1>6. QED
  BY <1>1, <1>5

LEMMA InitSpaced == Init => SInv
<1> SUFFICES ASSUME Init
             PROVE  SInv
  OBVIOUS
<1>1. \A h \in Hosts : Rested(h)
  BY TimesAssumption DEF Init, Rested
<1>2. \A r \in Requests : Paced(r)
  BY DEF Init, Paced, Away
<1>3. QED
  BY <1>1, <1>2, InitInv DEF Init, SInv

(* An entry old enough to be collected remembers no start that still counts. *)
LEMMA AskSpaced ==
  ASSUME SInv, NEW r \in Requests, NEW h \in Hosts, Ask(r, h)
  PROVE  SInv'
<1>1. PICK l \in Limiters, d \in 1 .. Deadline : \E swept : Asked(r, h, l, d, swept)
  BY AskEffect DEF SInv
<1>2. PICK swept : Asked(r, h, l, d, swept)
  BY <1>1
<1>3. \A k \in Hosts : /\ swept[k] \in Entries
                       /\ swept[k].lim # None => swept[k] = entry[k]
                       /\ ~Expired(entry[k]) => swept[k] = entry[k]
  BY <1>2 DEF Asked
<1>4. /\ swept[h].lim = None => Unused(l) /\ lim'[l].due = -Interval
      /\ swept[h].lim # None => l = entry[h].lim /\ lim'[l].due = lim[l].due
      /\ \A m \in Limiters \ {l} : lim'[m] = lim[m]
  BY <1>2 DEF Asked
<1>5. entry'[h] = [ lim |-> l, idle |-> 0 ] /\ \A k \in Hosts \ {h} : entry'[k] = swept[k]
  BY <1>2 DEF Asked
<1>6. /\ req'[r].at = "queued"
      /\ \A q \in Requests \ {r} : req'[q] = req[q]
      /\ since' = since
  BY <1>2 DEF Asked
<1>7. IInv'
  BY AskInv DEF SInv
<1>8. \A k \in Hosts : Expired(entry[k]) => since[k] = Interval
  <2> TAKE k \in Hosts
  <2>1. entry[k].idle \in 0 .. Ttl
    BY DEF SInv, IInv, Typed, Entries
  <2>2. QED
    BY <2>1, TimesAssumption, TtlAssumption DEF SInv, Rested, Expired
<1>9. \A k \in Hosts : swept[k].lim = None => since[k] = Interval
  BY <1>3, <1>8 DEF SInv, Rested
<1>10. ASSUME NEW k \in Hosts
       PROVE  Rested(k)'
  <2>1. since[k] \in 0 .. Interval
    BY DEF SInv, Rested
  <2>2. CASE k = h
    <3>1. l # None
      BY LimitersAssumption
    <3>2. since[h] >= -lim'[l].due
      <4>1. CASE swept[h].lim = None
        BY <1>4, <1>9, <4>1, TimesAssumption
      <4>2. CASE swept[h].lim # None
        BY <1>3, <1>4, <4>2 DEF SInv, Rested
      <4>3. QED
        BY <4>1, <4>2
    <3>3. QED
      BY <1>5, <1>6, <2>1, <2>2, <3>1, <3>2, TimesAssumption DEF Rested
  <2>3. CASE k # h /\ swept[k].lim = None
    BY <1>5, <1>6, <1>9, <2>1, <2>3 DEF Rested
  <2>4. CASE k # h /\ swept[k].lim # None
    <3>1. entry'[k] = entry[k] /\ entry[k].lim # None
      BY <1>3, <1>5, <2>4
    <3>2. entry[k].lim \in Limiters /\ lim[entry[k].lim].host = k
      BY <3>1 DEF SInv, IInv, Keyed, HostOf
    <3>3. lim'[entry[k].lim].due = lim[entry[k].lim].due
      BY <1>4, <3>2 DEF Unused
    <3>4. /\ since[k] = Interval \/ since[k] >= entry[k].idle - Deadline
          /\ since[k] >= -lim[entry[k].lim].due
      BY <3>1 DEF SInv, Rested
    <3>5. QED
      BY <1>6, <2>1, <3>1, <3>3, <3>4 DEF Rested
  <2>5. QED
    BY <2>2, <2>3, <2>4
<1>11. ASSUME NEW q \in Requests
       PROVE  Paced(q)'
  <2> SUFFICES ASSUME req'[q].at = "pacing"
               PROVE  /\ lim'[req'[q].lim].due >= req'[q].nap
                      /\ since'[lim'[req'[q].lim].host] + req'[q].nap >= Interval
    BY DEF Paced, HostOf
  <2>1. req'[q] = req[q] /\ req[q].at = "pacing"
    BY <1>6
  <2>2. req[q].lim \in Limiters
    BY <2>1 DEF SInv, IInv, Served
  <2>3. lim'[req[q].lim].due = lim[req[q].lim].due
    BY <1>4, <2>1, <2>2 DEF Unused
  <2>4. lim'[req[q].lim].host = lim[req[q].lim].host
    <3>1. CASE req[q].lim = l
      <4>1. swept[h].lim # None
        BY <1>4, <2>1, <3>1 DEF Unused
      <4>2. entry[h].lim = l /\ lim[l].host = h
        BY <1>4, <4>1, LimitersAssumption DEF SInv, IInv, Keyed, HostOf
      <4>3. QED
        BY <1>2, <3>1, <4>2 DEF Asked
    <3>2. CASE req[q].lim # l
      BY <1>4, <2>2, <3>2
    <3>3. QED
      BY <3>1, <3>2
  <2>5. QED
    BY <1>6, <2>1, <2>3, <2>4 DEF SInv, Paced, HostOf
<1>12. QED
  BY <1>6, <1>7, <1>10, <1>11 DEF SInv

(* The pacer reserves the end of the interval since the last start.  With    *)
(* one permit nobody else sleeps at the pair.                                *)
LEMMA AdmitSpaced ==
  ASSUME Cap = 1, SInv, NEW r \in Requests, Admit(r)
  PROVE  SInv'
<1> DEFINE l   == req[r].lim
           nap == NextSleep(lim[l].due)
           h   == lim[l].host
<1>1. /\ req[r].at = "queued"
      /\ PermitFree(l)
      /\ lim' = [ lim EXCEPT ![l].queue = Tail(@), ![l].due = nap ]
      /\ req' = [ req EXCEPT ![r] =
           IF nap > @.left THEN Away ELSE [ @ EXCEPT !.at = "pacing", !.nap = nap ] ]
      /\ entry' = entry /\ since' = since
  BY DEF Admit
<1>2. l \in Limiters /\ h \in Hosts /\ entry[h].lim = l
  BY <1>1 DEF SInv, IInv, Served, HostOf
<1>3. lim[l].due \in -Interval .. Interval
  BY <1>2 DEF SInv, IInv, Typed, IsPair
<1>4. nap \in 0 .. Interval /\ (lim[l].due >= 0 => nap = Interval)
                            /\ (lim[l].due < 0 => nap = Interval + lim[l].due)
  BY <1>3, TimesAssumption DEF NextSleep, Greatest
<1> HIDE DEF nap
<1>5. lim'[l].due = nap
  <2>1. lim[l] = [ host |-> lim[l].host, due |-> lim[l].due, queue |-> lim[l].queue ]
    BY <1>2 DEF SInv, IInv, Typed, IsPair
  <2>2. lim'[l] = [ lim[l] EXCEPT !.queue = Tail(@), !.due = nap ]
    BY <1>1, <1>2 DEF SInv, IInv, Typed
  <2>3. QED
    BY <2>1, <2>2
<1>6. \A m \in Limiters \ {l} : lim'[m] = lim[m]
  BY <1>1 DEF SInv, IInv, Typed
<1>7. /\ \A q \in Requests \ {r} : req'[q] = req[q]
      /\ req'[r] = IF nap > req[r].left THEN Away
                   ELSE [ req[r] EXCEPT !.at = "pacing", !.nap = nap ]
  BY <1>1 DEF SInv, IInv, Typed
<1>8. since[h] \in 0 .. Interval /\ since[h] >= -lim[l].due
  BY <1>2, LimitersAssumption DEF SInv, Rested
<1>9. ASSUME NEW k \in Hosts
      PROVE  Rested(k)'
  <2>1. CASE entry[k].lim = l
    <3>1. k = h
      BY <1>2, <2>1, LimitersAssumption DEF SInv, IInv, Keyed, HostOf
    <3>2. since[h] = Interval \/ since[h] >= entry[h].idle - Deadline
      BY <1>2 DEF SInv, Rested
    <3>3. l # None
      BY <1>2, LimitersAssumption
    <3>4. since[h] >= -nap
      BY <1>4, <1>8, TimesAssumption
    <3>5. QED
      BY <1>1, <1>2, <1>5, <1>8, <3>1, <3>2, <3>3, <3>4 DEF Rested
  <2>2. CASE entry[k].lim # l
    <3>1. Rested(k)
      BY DEF SInv
    <3>2. CASE entry[k].lim = None
      BY <1>1, <3>1, <3>2 DEF Rested
    <3>3. CASE entry[k].lim # None
      <4>1. lim'[entry[k].lim].due = lim[entry[k].lim].due
        BY <1>6, <2>2, <3>3 DEF SInv, IInv, Keyed
      <4>2. QED
        BY <1>1, <3>1, <3>3, <4>1 DEF Rested
    <3>4. QED
      BY <3>2, <3>3
  <2>3. QED
    BY <2>1, <2>2
<1>10. ASSUME NEW q \in Requests
       PROVE  Paced(q)'
  <2> SUFFICES ASSUME req'[q].at = "pacing"
               PROVE  /\ lim'[req'[q].lim].due >= req'[q].nap
                      /\ since'[lim'[req'[q].lim].host] + req'[q].nap >= Interval
    BY DEF Paced, HostOf
  <2>1. \A m \in Limiters : lim'[m].host = lim[m].host
    <3>1. lim'[l] = [ lim[l] EXCEPT !.queue = Tail(@), !.due = nap ]
      BY <1>1, <1>2 DEF SInv, IInv, Typed
    <3>2. lim[l] = [ host |-> lim[l].host, due |-> lim[l].due, queue |-> lim[l].queue ]
      BY <1>2 DEF SInv, IInv, Typed, IsPair
    <3>3. lim'[l].host = lim[l].host
      BY <3>1, <3>2
    <3>4. QED
      BY <1>6, <3>3
  <2>2. CASE q = r
    <3>1. req'[r].lim = l /\ req'[r].nap = nap
      BY <1>7, <2>2 DEF SInv, IInv, Typed, Fetches, Away
    <3>2. since[h] + nap >= Interval
      BY <1>3, <1>4, <1>8, TimesAssumption
    <3>3. lim'[req'[q].lim].host = h /\ since' = since
      BY <1>1, <1>2, <2>1, <2>2, <3>1
    <3>4. lim'[req'[q].lim].due >= req'[q].nap
      BY <1>4, <1>5, <2>2, <3>1, TimesAssumption
    <3>5. QED
      BY <2>2, <3>1, <3>2, <3>3, <3>4
  <2>3. CASE q # r
    <3>1. req'[q] = req[q] /\ req[q].at = "pacing"
      BY <1>7, <2>3
    <3>2. req[q].lim \in Limiters
      BY <3>1 DEF SInv, IInv, Served
    <3>3. req[q].lim # l
      <4>1. HoldersOf(l) \in SUBSET Requests /\ IsFiniteSet(HoldersOf(l))
        BY FS_Subset, LimitersAssumption DEF HoldersOf
      <4>2. Cardinality(HoldersOf(l)) < 1
        BY <1>1 DEF PermitFree
      <4>3. HoldersOf(l) = {}
        BY <4>1, <4>2, FS_CardinalityType, FS_EmptySet
      <4>4. QED
        BY <3>1, <4>3 DEF HoldersOf, Holding
    <3>4. QED
      BY <1>1, <1>6, <3>1, <3>2, <3>3 DEF SInv, Paced, HostOf
  <2>4. QED
    BY <2>2, <2>3
<1>11. IInv'
  BY AdmitInv DEF SInv
<1>12. QED
  BY <1>1, <1>9, <1>10, <1>11 DEF SInv

(* A start resets the clock of its host; the only sleeper there was the one  *)
(* that starts.                                                              *)
LEMMA StartSpaced ==
  ASSUME Cap = 1, SInv, NEW r \in Requests, Start(r)
  PROVE  SInv'
<1> DEFINE l == req[r].lim
           h == lim[l].host
<1>1. /\ req[r].at = "pacing" /\ req[r].nap = 0
      /\ req' = [ req EXCEPT ![r].at = "fetching" ]
      /\ since' = [ since EXCEPT ![h] = 0 ]
      /\ entry' = entry /\ lim' = lim
  BY DEF Start, HostOf
<1>2. /\ l \in Limiters /\ h \in Hosts /\ entry[h].lim = l
      /\ entry[h].idle + req[r].left <= Deadline
  BY <1>1 DEF SInv, IInv, Served, HostOf
<1>3. lim[l].due \in Int /\ lim[l].due >= 0
  <2>1. lim[l].due \in -Interval .. Interval
    BY <1>2 DEF SInv, IInv, Typed, IsPair
  <2>2. QED
    BY <1>1, <2>1, TimesAssumption DEF SInv, Paced
<1>4. /\ since' = [ k \in Hosts |-> since'[k] ]
      /\ since'[h] = 0
      /\ \A k \in Hosts \ {h} : since'[k] = since[k]
  BY <1>1, <1>2 DEF SInv
<1>5. ASSUME NEW k \in Hosts
      PROVE  Rested(k)'
  <2>1. CASE k = h
    <3>1. entry[h].idle \in Nat /\ req[r].left \in Nat
      <4>1. entry \in [ Hosts -> Entries ] /\ req \in [ Requests -> Fetches ]
        BY DEF SInv, IInv, Typed
      <4>2. entry[h] \in Entries /\ req[r] \in Fetches
        BY <1>2, <4>1
      <4>3. \A x \in Entries : x.idle \in Nat
        BY TtlAssumption DEF Entries
      <4>4. \A x \in Fetches : x.left \in Nat
        BY TimesAssumption DEF Fetches
      <4>5. QED
        BY <4>2, <4>3, <4>4
    <3>2. 0 >= entry[h].idle - Deadline
      BY <1>2, <3>1, TimesAssumption
    <3>3. 0 >= -lim[l].due
      BY <1>3
    <3>4. /\ since'[k] = 0 /\ entry'[k] = entry[h]
          /\ entry'[k].lim # None /\ lim'[entry'[k].lim] = lim[l]
      <4>1. since'[k] = 0
        BY <1>4, <2>1
      <4>2. entry'[k] = entry[h] /\ entry'[k].lim = l
        BY <1>1, <1>2, <2>1
      <4>3. l # None
        BY <1>2, LimitersAssumption
      <4>4. QED
        BY <1>1, <4>1, <4>2, <4>3
    <3>5. 0 \in 0 .. Interval
      BY TimesAssumption
    <3>6. QED
      BY <3>2, <3>3, <3>4, <3>5 DEF Rested
  <2>2. CASE k # h
    <3>1. Rested(k) /\ since'[k] = since[k]
      BY <1>4, <2>2 DEF SInv
    <3>2. QED
      BY <1>1, <3>1 DEF Rested
  <2>3. QED
    BY <2>1, <2>2
<1>6. ASSUME NEW q \in Requests
      PROVE  Paced(q)'
  <2> SUFFICES ASSUME req'[q].at = "pacing"
               PROVE  /\ lim[req'[q].lim].due >= req'[q].nap
                      /\ since'[lim[req'[q].lim].host] + req'[q].nap >= Interval
    BY <1>1 DEF Paced, HostOf
  <2>1. q # r /\ req'[q] = req[q] /\ req[q].at = "pacing"
    BY <1>1 DEF SInv, IInv, Typed, Fetches
  <2>2. req[q].lim # l
    BY <1>1, <2>1, OneHolder DEF Holding, SInv
  <2>3. /\ lim[req[q].lim].host \in Hosts
        /\ entry[lim[req[q].lim].host].lim = req[q].lim
    BY <2>1 DEF SInv, IInv, Served, HostOf
  <2>4. lim[req[q].lim].host # h
    BY <1>2, <2>2, <2>3
  <2>5. QED
    BY <1>4, <2>1, <2>3, <2>4 DEF SInv, Paced, HostOf
<1>7. IInv'
  BY StartInv DEF SInv
<1>8. QED
  BY <1>4, <1>5, <1>6, <1>7 DEF SInv

(* An abandoned reservation stays with the pacer. *)
LEMMA LeaveSpaced ==
  ASSUME SInv, NEW r \in Requests, Leave(r)
  PROVE  SInv'
<1>1. /\ req[r].at # "away"
      /\ lim' = [ lim EXCEPT ![req[r].lim].queue = RemoveFirst(@, r) ]
      /\ req' = [ req EXCEPT ![r] = Away ]
      /\ entry' = entry /\ since' = since
  BY DEF Leave
<1>2. req[r].lim \in Limiters
  BY <1>1 DEF SInv, IInv, Served
<1>3. \A m \in Limiters : lim'[m].host = lim[m].host /\ lim'[m].due = lim[m].due
  BY <1>1, <1>2 DEF SInv, IInv, Typed, IsPair
<1>4. \A q \in Requests : req'[q].at # "away" => req'[q] = req[q]
  BY <1>1 DEF SInv, IInv, Typed, Away
<1>5. \A k \in Hosts : Rested(k)'
  BY <1>1, <1>3 DEF SInv, Rested, IInv, Keyed
<1>6. \A q \in Requests : Paced(q)'
  <2> SUFFICES ASSUME NEW q \in Requests, req'[q].at = "pacing"
               PROVE  /\ lim'[req'[q].lim].due >= req'[q].nap
                      /\ since'[lim'[req'[q].lim].host] + req'[q].nap >= Interval
    BY DEF Paced, HostOf
  <2>1. req'[q] = req[q]
    BY <1>4
  <2>2. req[q].lim \in Limiters
    BY <2>1 DEF SInv, IInv, Served
  <2>3. QED
    BY <1>1, <1>3, <2>1, <2>2 DEF SInv, Paced, HostOf
<1>7. IInv'
  BY LeaveInv DEF SInv
<1>8. QED
  BY <1>1, <1>5, <1>6, <1>7 DEF SInv

LEMMA TickSpaced ==
  ASSUME SInv, Tick
  PROVE  SInv'
<1>1. /\ \A r \in Requests : req[r].at = "pacing" => req[r].nap > 0
      /\ entry' = [ h \in Hosts |-> [ entry[h] EXCEPT !.idle = Least(@ + 1, Ttl) ] ]
      /\ lim' = [ l \in Limiters |-> [ lim[l] EXCEPT !.due = Greatest(@ - 1, -Interval) ] ]
      /\ req' = [ r \in Requests |->
           [ req[r] EXCEPT !.left = Greatest(@ - 1, 0), !.nap = Greatest(@ - 1, 0) ] ]
      /\ since' = [ h \in Hosts |-> Least(since[h] + 1, Interval) ]
  BY DEF Tick
<1>2. \A h \in Hosts : /\ entry[h].idle \in Nat
                       /\ entry'[h].lim = entry[h].lim
                       /\ entry'[h].idle \in Nat
                       /\ entry'[h].idle <= entry[h].idle + 1
  <2> TAKE h \in Hosts
  <2>1. entry[h] \in Entries
    BY DEF SInv, IInv, Typed
  <2>2. entry'[h] = [ lim |-> entry[h].lim, idle |-> Least(entry[h].idle + 1, Ttl) ]
    BY <1>1, <2>1 DEF Entries
  <2>3. QED
    BY <2>1, <2>2, TtlAssumption DEF Entries, Least
<1>3. \A l \in Limiters : /\ lim[l].due \in Int
                          /\ lim'[l].host = lim[l].host
                          /\ lim'[l].due = Greatest(lim[l].due - 1, -Interval)
  <2> TAKE l \in Limiters
  <2>1. /\ lim[l] = [ host |-> lim[l].host, due |-> lim[l].due, queue |-> lim[l].queue ]
        /\ lim[l].due \in -Interval .. Interval
    BY DEF SInv, IInv, Typed, IsPair
  <2>2. lim'[l] = [ lim[l] EXCEPT !.due = Greatest(@ - 1, -Interval) ]
    BY <1>1
  <2>3. QED
    BY <2>1, <2>2, TimesAssumption
<1>4. \A r \in Requests : /\ req[r].nap \in Nat
                          /\ req'[r].at = req[r].at /\ req'[r].lim = req[r].lim
                          /\ req[r].at = "pacing" => (req'[r].nap = req[r].nap - 1)
  <2> TAKE r \in Requests
  <2>1. req[r] \in Fetches
    BY DEF SInv, IInv, Typed
  <2>2. req'[r] = [ at |-> req[r].at, lim |-> req[r].lim,
                    left |-> Greatest(req[r].left - 1, 0), nap |-> Greatest(req[r].nap - 1, 0) ]
    BY <1>1, <2>1 DEF Fetches
  <2>3. req[r].nap \in Nat /\ req'[r].nap = Greatest(req[r].nap - 1, 0)
    BY <2>1, <2>2, TimesAssumption DEF Fetches
  <2>4. req[r].nap > 0 => req'[r].nap = req[r].nap - 1
    BY <2>3 DEF Greatest
  <2>5. QED
    BY <1>1, <2>2, <2>3, <2>4
<1>5. ASSUME NEW h \in Hosts
      PROVE  Rested(h)'
  <2>1. Rested(h) /\ since'[h] = Least(since[h] + 1, Interval)
    BY <1>1 DEF SInv
  <2>2. since'[h] \in 0 .. Interval /\ (since[h] = Interval => since'[h] = Interval)
    BY <2>1, TimesAssumption DEF Rested, Least
  <2>3. since'[h] = Interval \/ since'[h] >= entry'[h].idle - Deadline
    BY <1>2, <2>1, TimesAssumption DEF Rested, Least
  <2>4. CASE entry[h].lim = None
    BY <1>2, <2>1, <2>2, <2>3, <2>4 DEF Rested
  <2>5. CASE entry[h].lim # None
    <3> DEFINE m == entry[h].lim
    <3>1. m \in Limiters
      BY <2>5 DEF SInv, IInv, Keyed
    <3>2. lim[m].due \in Int /\ lim'[m].due = Greatest(lim[m].due - 1, -Interval)
      BY <1>3, <3>1
    <3>3. since[h] \in 0 .. Interval /\ since[h] >= -lim[m].due
      BY <2>1, <2>5 DEF Rested
    <3>4. since'[h] >= -lim'[m].due
      BY <2>1, <3>2, <3>3, TimesAssumption DEF Greatest, Least
    <3>5. QED
      BY <1>2, <2>2, <2>3, <2>5, <3>4 DEF Rested
  <2>6. QED
    BY <2>4, <2>5
<1>6. ASSUME NEW r \in Requests
      PROVE  Paced(r)'
  <2> DEFINE m == req[r].lim
             h == lim[m].host
  <2> SUFFICES ASSUME req[r].at = "pacing"
               PROVE  /\ lim'[m].due >= req'[r].nap
                      /\ since'[lim'[m].host] + req'[r].nap >= Interval
    BY <1>4 DEF Paced, HostOf
  <2>1. m \in Limiters /\ h \in Hosts
    BY DEF SInv, IInv, Served, HostOf
  <2>2. lim[m].due >= req[r].nap /\ since[h] + req[r].nap >= Interval
    BY DEF SInv, Paced, HostOf
  <2>3. req[r].nap \in Nat /\ req[r].nap > 0 /\ req'[r].nap = req[r].nap - 1
    BY <1>1, <1>4
  <2>4. lim[m].due \in Int /\ lim'[m].due = Greatest(lim[m].due - 1, -Interval)
    BY <1>3, <2>1
  <2>5. since[h] \in 0 .. Interval /\ since'[h] = Least(since[h] + 1, Interval)
    BY <1>1, <2>1 DEF SInv, Rested
  <2>6. lim'[m].due >= req'[r].nap
    BY <2>2, <2>3, <2>4, TimesAssumption DEF Greatest
  <2>7. since'[h] + req'[r].nap >= Interval
    BY <2>2, <2>3, <2>5, TimesAssumption DEF Least
  <2>8. QED
    BY <1>3, <2>1, <2>6, <2>7
<1>7. IInv'
  BY TickInv DEF SInv
<1>8. QED
  BY <1>1, <1>5, <1>6, <1>7 DEF SInv

LEMMA NextSpaced ==
  ASSUME Cap = 1, SInv, [Next]_vars
  PROVE  SInv'
<1>1. CASE \E r \in Requests, h \in Hosts : Ask(r, h)
  BY <1>1, AskSpaced
<1>2. CASE \E r \in Requests : Admit(r)
  BY <1>2, AdmitSpaced
<1>3. CASE \E r \in Requests : Start(r)
  BY <1>3, StartSpaced
<1>4. CASE \E r \in Requests : Leave(r)
  BY <1>4, LeaveSpaced
<1>5. CASE Tick
  BY <1>5, TickSpaced
<1>6. CASE UNCHANGED vars
  <2>1. IInv'
    BY NextInv DEF SInv
  <2>2. QED
    BY <1>6, <2>1 DEF vars, SInv, Rested, Paced, HostOf
<1>7. QED
  BY <1>1, <1>2, <1>3, <1>4, <1>5, <1>6 DEF Next

(* With one permit per host the pacer keeps its promise: two fetches of a    *)
(* host start at least one interval apart, whatever reservations are         *)
(* abandoned and whatever entries are collected (next_sleep).                *)
THEOREM SpacingWithOnePermit == ASSUME Cap = 1 PROVE Spec => Spacing
<1>1. SInv /\ [Next]_vars => SInv'
  BY NextSpaced
<1>2. SInv /\ [Next]_vars =>
        [ \A r \in Requests :
            (req[r].at = "pacing" /\ req'[r].at = "fetching")
              => since[HostOf(req[r].lim)] >= Interval ]_vars
  <2> SUFFICES ASSUME SInv, [Next]_vars, NEW r \in Requests,
                      req[r].at = "pacing", req'[r].at = "fetching"
               PROVE  since[HostOf(req[r].lim)] >= Interval
    OBVIOUS
  <2>1. Start(r)
    <3>1. \A q \in Requests, h \in Hosts : ~Ask(q, h)
      <4> SUFFICES ASSUME NEW q \in Requests, NEW h \in Hosts, Ask(q, h)
                   PROVE  FALSE
        OBVIOUS
      <4>1. PICK l \in Limiters, d \in 1 .. Deadline : \E swept : Asked(q, h, l, d, swept)
        BY AskEffect DEF SInv
      <4>2. QED
        BY <4>1 DEF Asked
    <3>2. ASSUME NEW q \in Requests
          PROVE  ~Admit(q) /\ ~Leave(q)
      <4>1. req[q] \in Fetches /\ \A p \in Requests \ {q} :
              (Admit(q) \/ Leave(q)) => req'[p] = req[p]
        BY DEF Admit, Leave, SInv, IInv, Typed
      <4>2. Leave(q) => req'[q] = Away
        BY DEF Leave, SInv, IInv, Typed
      <4>3. ASSUME Admit(q)
            PROVE  req'[q].at # "fetching"
        <5> DEFINE n == NextSleep(lim[req[q].lim].due)
        <5>1. req'[q] = IF n > req[q].left THEN Away
                        ELSE [ at |-> "pacing", lim |-> req[q].lim,
                               left |-> req[q].left, nap |-> n ]
          BY <4>1, <4>3 DEF Admit, SInv, IInv, Typed, Fetches
        <5> HIDE DEF n
        <5>2. QED
          BY <5>1 DEF Away
      <4>4. Leave(q) => req'[q].at # "fetching"
        BY <4>2 DEF Away
      <4>5. QED
        BY <4>1, <4>3, <4>4
    <3>3. \A q \in Requests : Start(q) => q = r
      BY DEF Start, SInv, IInv, Typed
    <3>4. Tick => req'[r].at = req[r].at
      <4>1. req[r] \in Fetches
        BY DEF SInv, IInv, Typed
      <4>2. Tick => req'[r] = [ req[r] EXCEPT !.left = Greatest(req[r].left - 1, 0),
                                              !.nap = Greatest(req[r].nap - 1, 0) ]
        BY DEF Tick
      <4>3. QED
        BY <4>1, <4>2 DEF Fetches
    <3>5. ~UNCHANGED vars
      BY DEF vars
    <3>6. QED
      BY <3>1, <3>2, <3>3, <3>4, <3>5 DEF Next
  <2>2. req[r].nap = 0
    BY <2>1 DEF Start
  <2>3. HostOf(req[r].lim) \in Hosts
    BY DEF SInv, IInv, Served
  <2>4. since[HostOf(req[r].lim)] \in Nat
    BY <2>3, TimesAssumption DEF SInv, Rested
  <2>5. QED
    BY <2>2, <2>4 DEF SInv, Paced
<1>3. QED
  BY <1>1, <1>2, InitSpaced, PTL DEF Spec, Spacing
=============================================================================
