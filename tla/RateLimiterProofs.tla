------------------------- MODULE RateLimiterProofs -------------------------
(***************************************************************************)
(* Theorems about RateLimiter, for every set of addresses, every limit,    *)
(* every length of the window and of the second, and every bound.          *)
(***************************************************************************)
EXTENDS RateLimiter, Iteration, FiniteSetTheorems

Entries == [connections : Seq(Nat), handshakes : Seq(Nat), active : Nat]
Buckets == [tokens : Nat, last_refill : Nat]

BucketOK(b) == b \in Buckets /\ b.tokens <= Capacity /\ b.last_refill <= now

NoEntry == [connections |-> <<>>, handshakes |-> <<>>, active |-> 0]

(***************************************************************************)
(* Types.  Entries are stated of Entry(ip), which an address without an    *)
(* entry has too.                                                          *)
(***************************************************************************)
TypesInv ==
  /\ now \in Nat
  /\ \A ip \in Ips : Entry(ip) \in Entries
  /\ DOMAIN per_ip \subseteq Ips
  /\ \A id \in DOMAIN message_buckets : BucketOK(message_buckets[id])
  /\ next_conn_id \in Nat
  /\ total_connections \in Int
  /\ DOMAIN conn_to_ip \subseteq Ids
  /\ \A id \in DOMAIN conn_to_ip : conn_to_ip[id] \in Ips
  /\ opened \in [Ips -> Seq(Nat)]
  /\ shaken \in [Ips -> Seq(Nat)]
  /\ passed \in [Ids -> Seq(Nat)]

LEMMA Constants ==
  /\ Enabled \in BOOLEAN /\ MessagesPerSecond \in Nat /\ HandshakesPerMinute \in Nat
  /\ ConnectionsPerMinute \in Nat /\ BurstSize \in Nat /\ MaxTotal \in Nat
  /\ Second \in Nat /\ Second # 0 /\ Window \in Nat /\ Window # 0
  /\ Capacity \in Nat
  /\ MessagesPerSecond # 0 => Capacity >= Second
<1>1. /\ Enabled \in BOOLEAN /\ MessagesPerSecond \in Nat /\ HandshakesPerMinute \in Nat
      /\ ConnectionsPerMinute \in Nat /\ BurstSize \in Nat /\ MaxTotal \in Nat
      /\ Second \in Nat /\ Second # 0 /\ Window \in Nat /\ Window # 0
  BY LimiterAssumption
<1>2. PICK burst \in Nat : /\ burst = IF BurstSize > 0 THEN BurstSize ELSE MessagesPerSecond
                           /\ MessagesPerSecond # 0 => burst >= 1
  BY <1>1
<1>3. \A a, c \in Nat : c * a \in Nat /\ (a >= 1 => c * a >= c)
  OBVIOUS
<1>4. Capacity = Second * burst
  BY <1>2 DEF Capacity
<1> QED
  BY <1>1, <1>2, <1>3, <1>4

-----------------------------------------------------------------------------
(***************************************************************************)
(* Windows.  Timestamps are recorded in order, so those that count are the *)
(* last ones.                                                              *)
(***************************************************************************)
Sorted(w) == \A i, j \in 1..Len(w) : i <= j => w[i] <= w[j]

LEMMA Threshold ==
  ASSUME NEW w \in Seq(Nat), Sorted(w), NEW c \in Int
  PROVE  \E m \in 1..(Len(w) + 1) : \A i \in 1..Len(w) : w[i] >= c <=> i >= m
<1> DEFINE T == {i \in 1..Len(w) : w[i] >= c}
<1>0. Len(w) \in Nat /\ \A i \in 1..Len(w) : w[i] \in Nat
  OBVIOUS
<1>1. CASE T = {}
  <2>1. Len(w) + 1 \in 1..(Len(w) + 1)
    BY <1>0
  <2>2. \A i \in 1..Len(w) : w[i] >= c <=> i >= Len(w) + 1
    BY <1>0, <1>1
  <2> QED
    BY <2>1, <2>2
<1>2. CASE T # {}
  <2>0. T \subseteq Nat
    BY <1>0
  <2>1. PICK m \in T : \A i \in T : m <= i
    <3> HIDE DEF T
    <3> QED
      BY <1>2, <2>0, LeastNatural
  <2>2. \A i \in 1..Len(w) : i >= m => w[i] >= c
    BY <1>0, <2>1 DEF Sorted
  <2>3. m \in 1..(Len(w) + 1)
    BY <1>0, <2>1
  <2>4. \A i \in 1..Len(w) : w[i] >= c => i >= m
    BY <2>1, <2>3
  <2> QED
    BY <2>2, <2>3, <2>4
<1> QED
  BY <1>1, <1>2

LEMMA Counted ==
  ASSUME NEW w \in Seq(Nat), Sorted(w), now \in Nat,
         NEW m \in 1..(Len(w) + 1), \A i \in 1..Len(w) : w[i] >= cutoff <=> i >= m
  PROVE  /\ count_last(w) = Len(w) - m + 1
         /\ Recent(w) = Len(w) - m + 1
         /\ clean(w) = SubSeq(w, m, Len(w))
<1>0. /\ Len(w) \in Nat /\ DOMAIN w = 1..Len(w) /\ \A i \in 1..Len(w) : w[i] \in Nat
      /\ cutoff \in Int /\ m \in Int
  BY Constants DEF cutoff
<1>1. Cardinality(m..Len(w)) = Len(w) - m + 1
  <2>1. Len(w) \in Int
    BY <1>0
  <2>2. Cardinality(m..Len(w)) = IF m > Len(w) THEN 0 ELSE Len(w) - m + 1
    BY <1>0, <2>1, FS_Interval
  <2> QED
    BY <1>0, <2>2
<1>2. {i \in DOMAIN w : \A j \in i..Len(w) : w[j] >= cutoff} = m..Len(w)
  <2>1. ASSUME NEW i \in DOMAIN w
        PROVE  (\A j \in i..Len(w) : w[j] >= cutoff) <=> i \in m..Len(w)
    <3>1. i \in 1..Len(w) /\ i \in i..Len(w) /\ \A j \in i..Len(w) : j \in 1..Len(w) /\ j >= i
      BY <1>0, <2>1
    <3> QED
      BY <1>0, <3>1
  <2> QED
    BY <1>0, <2>1
<1>3. {i \in DOMAIN w : w[i] + Window >= now} = m..Len(w)
  <2>1. ASSUME NEW i \in DOMAIN w
        PROVE  w[i] + Window >= now <=> i \in m..Len(w)
    <3>1. w[i] + Window >= now <=> w[i] >= cutoff
      BY <1>0, <2>1, Constants DEF cutoff
    <3> QED
      BY <1>0, <2>1, <3>1
  <2> QED
    BY <1>0, <2>1
<1>4. {i \in DOMAIN w : \E j \in 1..i : w[j] >= cutoff} = m..Len(w)
  <2>1. ASSUME NEW i \in DOMAIN w
        PROVE  (\E j \in 1..i : w[j] >= cutoff) <=> i \in m..Len(w)
    <3>1. i \in 1..Len(w) /\ i \in 1..i /\ \A j \in 1..i : j \in 1..Len(w) /\ j <= i
      BY <1>0, <2>1
    <3> QED
      BY <1>0, <3>1
  <2> QED
    BY <1>0, <2>1
<1>5. Len(w) - (Len(w) - m + 1) + 1 = m
  BY <1>0
<1> QED
  BY <1>1, <1>2, <1>3, <1>4, <1>5 DEF count_last, Recent, clean

(***************************************************************************)
(* Since(u, w): the window u of the code holds the log w but for what is   *)
(* too old to count.                                                       *)
(***************************************************************************)
Since(u, w) ==
  \E k \in Nat :
    /\ Len(w) = Len(u) + k
    /\ \A i \in 1..Len(u) : u[i] = w[i + k]
    /\ \A i \in 1..k : w[i] + Window < now

LEMMA SinceSorted ==
  ASSUME NEW u \in Seq(Nat), NEW w \in Seq(Nat), Sorted(w), Since(u, w)
  PROVE  Sorted(u)
<1>1. PICK k \in Nat : /\ Len(w) = Len(u) + k
                       /\ \A i \in 1..Len(u) : u[i] = w[i + k]
  BY DEF Since
<1>2. Len(u) \in Nat /\ \A i \in 1..Len(u) : i + k \in 1..Len(w)
  BY <1>1
<1>3. ASSUME NEW i \in 1..Len(u), NEW j \in 1..Len(u), i <= j
      PROVE  u[i] <= u[j]
  <2>1. i + k <= j + k
    BY <1>3
  <2> QED
    BY <1>1, <1>2, <2>1 DEF Sorted
<1> QED
  BY <1>3 DEF Sorted

\* The scan of the window and the whole log give the same number.
LEMMA CountExact ==
  ASSUME NEW u \in Seq(Nat), NEW w \in Seq(Nat), Sorted(w), now \in Nat, Since(u, w)
  PROVE  count_last(u) = Recent(w)
<1>0. cutoff \in Int /\ Len(u) \in Nat /\ Len(w) \in Nat
      /\ (\A i \in 1..Len(w) : w[i] \in Nat)
  BY Constants DEF cutoff
<1>1. PICK m \in 1..(Len(w) + 1) : \A i \in 1..Len(w) : w[i] >= cutoff <=> i >= m
  BY <1>0, Threshold
<1>2. PICK k \in Nat : /\ Len(w) = Len(u) + k
                       /\ \A i \in 1..Len(u) : u[i] = w[i + k]
                       /\ \A i \in 1..k : w[i] + Window < now
  BY DEF Since
<1>3. k < m
  <2> SUFFICES ASSUME m <= k PROVE FALSE
    BY <1>1
  <2>1. m \in 1..k /\ m \in 1..Len(w) /\ m >= m
    BY <1>0, <1>1, <1>2
  <2>2. w[m] >= cutoff /\ w[m] + Window < now
    BY <1>1, <1>2, <2>1
  <2> QED
    BY <1>0, <2>1, <2>2, Constants DEF cutoff
<1>4. m - k \in 1..(Len(u) + 1)
  BY <1>0, <1>1, <1>2, <1>3
<1>5. ASSUME NEW i \in 1..Len(u)
      PROVE  u[i] >= cutoff <=> i >= m - k
  <2>1. i + k \in 1..Len(w) /\ u[i] = w[i + k] /\ (i + k >= m <=> i >= m - k)
    BY <1>0, <1>1, <1>2
  <2> QED
    BY <1>1, <2>1
<1>6. count_last(u) = Len(u) - (m - k) + 1
  BY <1>4, <1>5, Counted, SinceSorted
<1>7. Recent(w) = Len(w) - m + 1
  BY <1>1, Counted
<1> QED
  BY <1>0, <1>1, <1>2, <1>6, <1>7

LEMMA Suffix ==
  ASSUME NEW u \in Seq(Nat), NEW m \in 1..(Len(u) + 1)
  PROVE  /\ SubSeq(u, m, Len(u)) \in Seq(Nat)
         /\ Len(SubSeq(u, m, Len(u))) = Len(u) - m + 1
         /\ \A i \in 1..(Len(u) - m + 1) : SubSeq(u, m, Len(u))[i] = u[i + m - 1]
OBVIOUS

\* clean() throws away only what is too old to count.
LEMMA CleanExact ==
  ASSUME NEW u \in Seq(Nat), NEW w \in Seq(Nat), Sorted(w), now \in Nat, Since(u, w)
  PROVE  clean(u) \in Seq(Nat) /\ Since(clean(u), w)
<1>0. cutoff \in Int /\ Len(u) \in Nat /\ Len(w) \in Nat /\ Sorted(u)
      /\ (\A i \in 1..Len(u) : u[i] \in Nat)
  BY Constants, SinceSorted DEF cutoff
<1>1. PICK m \in 1..(Len(u) + 1) : \A i \in 1..Len(u) : u[i] >= cutoff <=> i >= m
  BY <1>0, Threshold
<1>2. clean(u) = SubSeq(u, m, Len(u))
  BY <1>0, <1>1, Counted
<1>3. PICK v \in Seq(Nat) : /\ v = clean(u) /\ Len(v) = Len(u) - m + 1
                            /\ \A i \in 1..Len(v) : v[i] = u[i + m - 1]
  BY <1>1, <1>2, Suffix
<1>4. PICK k \in Nat : /\ Len(w) = Len(u) + k
                       /\ \A i \in 1..Len(u) : u[i] = w[i + k]
                       /\ \A i \in 1..k : w[i] + Window < now
  BY DEF Since
<1>5. PICK l \in Nat : l = k + (m - 1)
  BY <1>1
<1>6. Len(w) = Len(v) + l
  BY <1>0, <1>1, <1>3, <1>4, <1>5
<1>7. ASSUME NEW i \in 1..Len(v)
      PROVE  v[i] = w[i + l]
  <2>1. i + m - 1 \in 1..Len(u) /\ (i + m - 1) + k = i + l
    BY <1>0, <1>1, <1>3, <1>5
  <2> QED
    BY <1>3, <1>4, <2>1
<1>8. ASSUME NEW i \in 1..l
      PROVE  w[i] + Window < now
  <2>1. CASE i <= k
    <3>1. i \in 1..k
      BY <2>1
    <3> QED
      BY <1>4, <3>1
  <2>2. CASE i > k
    <3>1. i - k \in 1..Len(u) /\ i - k < m /\ (i - k) + k = i
      BY <1>0, <1>1, <1>4, <1>5, <2>2
    <3>2. u[i - k] = w[i] /\ u[i - k] \in Nat /\ ~(u[i - k] >= cutoff)
      BY <1>0, <1>1, <1>4, <3>1
    <3> QED
      BY <3>2, Constants DEF cutoff
  <2> QED
    BY <1>4, <1>5, <2>1, <2>2
<1> QED
  BY <1>3, <1>6, <1>7, <1>8 DEF Since

-----------------------------------------------------------------------------
(***************************************************************************)
(* Entries of addresses.                                                   *)
(***************************************************************************)
LEMMA EntryKept == UNCHANGED per_ip => \A j \in Ips : Entry(j)' = Entry(j)
BY DEF Entry

LEMMA EntryWritten ==
  ASSUME NEW ip \in Ips, NEW e, per_ip' = WithEntry(ip, e)
  PROVE  /\ Entry(ip)' = e
         /\ \A j \in Ips \ {ip} : Entry(j)' = Entry(j)
         /\ DOMAIN per_ip' = DOMAIN per_ip \cup {ip}
<1>1. DOMAIN per_ip' = DOMAIN per_ip \cup {ip}
  BY DEF WithEntry
<1>2. \A j \in DOMAIN per_ip' : per_ip'[j] = IF j = ip THEN e ELSE per_ip[j]
  BY DEF WithEntry
<1> QED
  BY <1>1, <1>2 DEF Entry

LEMMA Fields ==
  ASSUME NEW e \in Entries
  PROVE  e.connections \in Seq(Nat) /\ e.handshakes \in Seq(Nat) /\ e.active \in Nat
BY DEF Entries

LEMMA Updates ==
  ASSUME NEW e \in Entries, NEW x, NEW y
  PROVE  /\ [e EXCEPT !.connections = x] =
              [connections |-> x, handshakes |-> e.handshakes, active |-> e.active]
         /\ [e EXCEPT !.handshakes = x] =
              [connections |-> e.connections, handshakes |-> x, active |-> e.active]
         /\ [e EXCEPT !.active = x] =
              [connections |-> e.connections, handshakes |-> e.handshakes, active |-> x]
         /\ [e EXCEPT !.connections = x, !.handshakes = y] =
              [connections |-> x, handshakes |-> y, active |-> e.active]
<1>1. PICK S, T, U : e \in [connections : S, handshakes : T, active : U]
  BY DEF Entries
<1>2. /\ [e EXCEPT !.connections = x] =
           [connections |-> x, handshakes |-> e.handshakes, active |-> e.active]
      /\ [e EXCEPT !.handshakes = x] =
           [connections |-> e.connections, handshakes |-> x, active |-> e.active]
      /\ [e EXCEPT !.active = x] =
           [connections |-> e.connections, handshakes |-> e.handshakes, active |-> x]
  BY <1>1
<1>3. [e EXCEPT !.connections = x, !.handshakes = y] =
        [[e EXCEPT !.connections = x] EXCEPT !.handshakes = y]
  BY <1>1
<1>4. [[connections |-> x, handshakes |-> e.handshakes, active |-> e.active]
         EXCEPT !.handshakes = y] =
        [connections |-> x, handshakes |-> y, active |-> e.active]
  OBVIOUS
<1> QED
  BY <1>2, <1>3, <1>4

LEMMA EntryType ==
  ASSUME NEW c \in Seq(Nat), NEW h \in Seq(Nat), NEW a \in Nat
  PROVE  [connections |-> c, handshakes |-> h, active |-> a] \in Entries
BY DEF Entries

LEMMA CleanEmpty == clean(<<>>) = <<>>
<1>1. {i \in DOMAIN <<>> : \E j \in 1..i : <<>>[j] >= cutoff} = {}
  OBVIOUS
<1>2. Cardinality({}) = 0
  BY FS_EmptySet
<1>3. SubSeq(<<>>, 1, 0) = <<>>
  OBVIOUS
<1>4. Len(<<>>) = 0 /\ Len(<<>>) - 0 + 1 = 1
  OBVIOUS
<1> QED
  BY <1>1, <1>2, <1>3, <1>4 DEF clean

LEMMA CleanType ==
  ASSUME NEW u \in Seq(Nat)
  PROVE  clean(u) \in Seq(Nat)
<1>1. ASSUME NEW v \in Seq(Nat), NEW kept,
             kept = {i \in DOMAIN v : \E j \in 1..i : v[j] >= cutoff}
      PROVE  Cardinality(kept) \in Nat /\ Cardinality(kept) <= Len(v)
  <2>1. Len(v) \in Int /\ 1 \in Int /\ Len(v) >= 0
    OBVIOUS
  <2>2. /\ IsFiniteSet(1..Len(v))
        /\ Cardinality(1..Len(v)) = IF 1 > Len(v) THEN 0 ELSE Len(v) - 1 + 1
    BY <2>1, FS_Interval
  <2>3. kept \in SUBSET (1..Len(v))
    BY <1>1
  <2>4. IsFiniteSet(kept) /\ Cardinality(kept) <= Cardinality(1..Len(v))
    BY <2>2, <2>3, FS_Subset
  <2>5. Cardinality(kept) \in Nat
    BY <2>4, FS_CardinalityType
  <2> QED
    BY <2>1, <2>2, <2>4, <2>5
<1>2. ASSUME NEW v \in Seq(Nat)
      PROVE  \E m \in 1..(Len(v) + 1) : clean(v) = SubSeq(v, m, Len(v))
  <2>1. PICK kept : kept = {i \in DOMAIN v : \E j \in 1..i : v[j] >= cutoff}
    OBVIOUS
  <2>2. Cardinality(kept) \in Nat /\ Cardinality(kept) <= Len(v)
    BY <1>1, <2>1
  <2>3. Len(v) - Cardinality(kept) + 1 \in 1..(Len(v) + 1)
    BY <2>2
  <2>4. clean(v) = SubSeq(v, Len(v) - Cardinality(kept) + 1, Len(v))
    BY <2>1 DEF clean
  <2> QED
    BY <2>3, <2>4
<1>3. clean(u) \in Seq(Nat)
  BY <1>2, Suffix
<1> QED
  BY <1>3

Cleaned(e) == [e EXCEPT !.connections = clean(@), !.handshakes = clean(@)]

\* An entry that cleanup() erases has nothing left in it.
LEMMA EntryCleaned ==
  ASSUME TypesInv, cleanup
  PROVE  /\ \A ip \in Ips : Entry(ip)' = Cleaned(Entry(ip))
         /\ DOMAIN per_ip' \subseteq DOMAIN per_ip
<1> DEFINE kept == {ip \in DOMAIN per_ip : ~Unused(Cleaned(per_ip[ip]))}
<1>1. per_ip' = [ip \in kept |-> Cleaned(per_ip[ip])]
  BY DEF cleanup, Cleaned
<1>2. DOMAIN per_ip' = kept /\ \A ip \in kept : per_ip'[ip] = Cleaned(per_ip[ip])
  BY <1>1
<1>3. \A ip \in DOMAIN per_ip \ kept : Unused(Cleaned(per_ip[ip]))
  OBVIOUS
<1>4. kept \subseteq DOMAIN per_ip
  OBVIOUS
<1> HIDE DEF kept
<1>5. ASSUME NEW e \in Entries
      PROVE  /\ Cleaned(e) \in Entries
             /\ Unused(Cleaned(e)) => Cleaned(e) = NoEntry
  <2>1. e.connections \in Seq(Nat) /\ e.handshakes \in Seq(Nat) /\ e.active \in Nat
    BY DEF Entries
  <2>2. Cleaned(e) = [connections |-> clean(e.connections),
                      handshakes |-> clean(e.handshakes), active |-> e.active]
    BY Updates DEF Cleaned
  <2>3. clean(e.connections) \in Seq(Nat) /\ clean(e.handshakes) \in Seq(Nat)
    BY <2>1, CleanType
  <2> QED
    BY <2>1, <2>2, <2>3, EntryType DEF Unused, NoEntry
<1>6. Cleaned(NoEntry) = NoEntry
  <2>1. NoEntry \in Entries
    BY DEF NoEntry, Entries
  <2>2. NoEntry.connections = <<>> /\ NoEntry.handshakes = <<>> /\ NoEntry.active = 0
    BY DEF NoEntry
  <2> QED
    BY <2>1, <2>2, Updates, CleanEmpty DEF Cleaned, NoEntry
<1>7. ASSUME NEW ip \in Ips
      PROVE  Entry(ip)' = Cleaned(Entry(ip))
  <2>1. CASE ip \in kept
    BY <1>2, <1>4, <2>1 DEF Entry
  <2>2. CASE ip \in DOMAIN per_ip \ kept
    <3>1. Entry(ip) = per_ip[ip] /\ Entry(ip)' = NoEntry /\ Entry(ip) \in Entries
      BY <1>2, <2>2 DEF Entry, NoEntry, TypesInv
    <3> QED
      BY <1>3, <1>5, <2>2, <3>1
  <2>3. CASE ip \notin DOMAIN per_ip
    <3>1. Entry(ip) = NoEntry /\ Entry(ip)' = NoEntry
      BY <1>2, <1>4, <2>3 DEF Entry, NoEntry
    <3> QED
      BY <1>6, <3>1
  <2> QED
    BY <2>1, <2>2, <2>3
<1> QED
  BY <1>2, <1>4, <1>7

(***************************************************************************)
(* What a step does to one window and its log.                             *)
(***************************************************************************)
WindowMoves(limit, u, u2, w, w2) ==
  \/ u2 = u /\ w2 = w /\ now' \in {now, now + 1}
  \/ u2 = clean(u) /\ w2 = w /\ now' = now
  \/ /\ w2 = Append(w, now) /\ now' = now
     /\ u2 = IF Enabled THEN Append(u, now) ELSE u
     /\ Limited(limit) => count_last(u) < limit

IpMoves(ip) ==
  /\ WindowMoves(ConnectionsPerMinute, Entry(ip).connections, Entry(ip)'.connections,
                 opened[ip], opened'[ip])
  /\ WindowMoves(HandshakesPerMinute, Entry(ip).handshakes, Entry(ip)'.handshakes,
                 shaken[ip], shaken'[ip])
  /\ Entry(ip)' \in Entries

LEMMA Opens ==
  ASSUME TypesInv, NEW d \in Ips, on_open(d), NEW ip \in Ips
  PROVE  IpMoves(ip)
<1>0. /\ Entry(ip) \in Entries /\ Entry(d) \in Entries /\ now \in Nat
      /\ UNCHANGED <<now, shaken>>
  BY DEF TypesInv, on_open
<1>1. CASE check_connection_rate(d) /\ Enabled
  <2>1. /\ per_ip' = WithEntry(d, [Entry(d) EXCEPT !.connections = Append(@, now)])
        /\ opened' = [opened EXCEPT ![d] = Append(@, now)]
    BY <1>1 DEF on_open, record_connection, Logged
  <2>2. /\ Entry(d)' = [Entry(d) EXCEPT !.connections = Append(@, now)]
        /\ \A j \in Ips \ {d} : Entry(j)' = Entry(j)
    BY <2>1, EntryWritten
  <2>3. CASE ip # d
    <3>1. Entry(ip)' = Entry(ip) /\ opened'[ip] = opened[ip]
      BY <2>1, <2>2, <2>3 DEF TypesInv
    <3> QED
      BY <1>0, <3>1 DEF IpMoves, WindowMoves
  <2>4. CASE ip = d
    <3>1. /\ Entry(d)'.connections = Append(Entry(d).connections, now)
          /\ Entry(d)'.handshakes = Entry(d).handshakes
          /\ Entry(d)' \in Entries
      <4>1. Append(Entry(d).connections, now) \in Seq(Nat)
        BY <1>0, Fields
      <4>2. Entry(d)' = [connections |-> Append(Entry(d).connections, now),
                         handshakes |-> Entry(d).handshakes, active |-> Entry(d).active]
        BY <1>0, <2>2, Updates
      <4>3. Entry(d).handshakes \in Seq(Nat) /\ Entry(d).active \in Nat
        BY <1>0, Fields
      <4>4. Entry(d)' \in Entries
        BY <4>1, <4>2, <4>3, EntryType
      <4> QED
        BY <4>2, <4>4
    <3>2. opened'[d] = Append(opened[d], now)
      BY <2>1 DEF TypesInv
    <3> QED
      BY <1>0, <1>1, <2>4, <3>1, <3>2 DEF IpMoves, WindowMoves, check_connection_rate
  <2> QED
    BY <2>3, <2>4
<1>2. CASE check_connection_rate(d) /\ ~Enabled
  <2>1. UNCHANGED per_ip /\ opened' = [opened EXCEPT ![d] = Append(@, now)]
    BY <1>2 DEF on_open, record_connection, Logged
  <2>2. opened'[ip] = IF ip = d THEN Append(opened[d], now) ELSE opened[ip]
    BY <2>1 DEF TypesInv
  <2> QED
    BY <1>0, <1>2, <2>1, <2>2, EntryKept DEF IpMoves, WindowMoves, Limited
<1>3. CASE ~check_connection_rate(d)
  <2>1. UNCHANGED <<per_ip, opened>>
    BY <1>3 DEF on_open
  <2> QED
    BY <1>0, <2>1, EntryKept DEF IpMoves, WindowMoves
<1> QED
  BY <1>1, <1>2, <1>3

LEMMA ShakenEntry ==
  ASSUME TypesInv, NEW d \in Ips
  PROVE  /\ Shaken(d) \in Entries
         /\ Shaken(d).handshakes =
              IF Enabled THEN Append(Entry(d).handshakes, now) ELSE Entry(d).handshakes
         /\ Shaken(d).connections = Entry(d).connections
         /\ Shaken(d).active = Entry(d).active
         /\ [Shaken(d) EXCEPT !.active = @ + 1] \in Entries
<1>1. Entry(d) \in Entries /\ now \in Nat
  BY DEF TypesInv
<1>2. Append(Entry(d).handshakes, now) \in Seq(Nat)
  BY <1>1, Fields
<1>3. PICK h \in Seq(Nat) :
        h = IF Enabled THEN Append(Entry(d).handshakes, now) ELSE Entry(d).handshakes
  BY <1>1, <1>2, Fields
<1>4. [connections |-> Entry(d).connections, handshakes |-> Entry(d).handshakes,
       active |-> Entry(d).active] = Entry(d)
  BY <1>1 DEF Entries
<1>5. Shaken(d) = [connections |-> Entry(d).connections, handshakes |-> h,
                   active |-> Entry(d).active]
  BY <1>1, <1>3, <1>4, Updates DEF Shaken
<1>6. Shaken(d) \in Entries
  BY <1>1, <1>5, Fields, EntryType
<1>7. [Shaken(d) EXCEPT !.active = @ + 1] \in Entries
  <2>1. Shaken(d).active + 1 \in Nat
    BY <1>6, Fields
  <2>2. [Shaken(d) EXCEPT !.active = @ + 1] =
          [connections |-> Shaken(d).connections, handshakes |-> Shaken(d).handshakes,
           active |-> Shaken(d).active + 1]
    BY <1>6, Updates
  <2>3. Shaken(d).connections \in Seq(Nat) /\ Shaken(d).handshakes \in Seq(Nat)
    BY <1>6, Fields
  <2> QED
    BY <2>1, <2>2, <2>3, EntryType
<1> QED
  BY <1>3, <1>5, <1>6, <1>7

LEMMA Hellos ==
  ASSUME TypesInv, NEW d \in Ips, on_hello(d), NEW ip \in Ips
  PROVE  IpMoves(ip)
<1>0. /\ Entry(ip) \in Entries /\ Entry(d) \in Entries /\ now \in Nat
      /\ UNCHANGED <<now, opened>>
  BY DEF TypesInv, on_hello
<1>1. ASSUME Entry(ip)' = Entry(ip), UNCHANGED shaken
      PROVE  IpMoves(ip)
  BY <1>0, <1>1 DEF IpMoves, WindowMoves
<1>2. CASE HelloRefused(d)
  BY <1>1, <1>2, EntryKept DEF HelloRefused
<1>3. CASE HelloFails(d)
  <2>1. per_ip' = WithEntry(d, Entry(d)) \/ UNCHANGED per_ip
    BY <1>3 DEF HelloFails
  <2>2. Entry(ip)' = Entry(ip)
    BY <2>1, EntryKept, EntryWritten
  <2> QED
    BY <1>1, <1>3, <2>2 DEF HelloFails
<1>4. ASSUME check_handshake_rate(d), shaken' = Logged(shaken, d),
             NEW e, per_ip' = WithEntry(d, e) \/ (UNCHANGED per_ip /\ e = Entry(d)),
             e \in Entries, e.connections = Entry(d).connections,
             e.handshakes = IF Enabled THEN Append(Entry(d).handshakes, now)
                            ELSE Entry(d).handshakes
      PROVE  IpMoves(ip)
  <2>1. Entry(d)' = e /\ (ip # d => Entry(ip)' = Entry(ip))
    BY <1>4, EntryKept, EntryWritten
  <2>2. shaken'[ip] = IF ip = d THEN Append(shaken[d], now) ELSE shaken[ip]
    BY <1>4 DEF TypesInv, Logged
  <2>3. CASE ip # d
    BY <1>0, <2>1, <2>2, <2>3 DEF IpMoves, WindowMoves
  <2>4. CASE ip = d
    BY <1>0, <1>4, <2>1, <2>2, <2>4 DEF IpMoves, WindowMoves, check_handshake_rate
  <2> QED
    BY <2>3, <2>4
<1>5. CASE HelloRejected(d)
  <2>1. PICK e : e = Shaken(d)
    OBVIOUS
  <2>2. per_ip' = WithEntry(d, e) \/ (UNCHANGED per_ip /\ e = Entry(d))
    BY <1>5, <2>1 DEF HelloRejected, Shaken
  <2> QED
    BY <1>4, <1>5, <2>1, <2>2, ShakenEntry DEF HelloRejected
<1>6. CASE register_connection(d)
  <2>1. PICK e : e = [Shaken(d) EXCEPT !.active = @ + 1]
    OBVIOUS
  <2>2. /\ e \in Entries /\ e.connections = Shaken(d).connections
        /\ e.handshakes = Shaken(d).handshakes
    BY <2>1, ShakenEntry DEF Entries
  <2>3. per_ip' = WithEntry(d, e)
    BY <1>6, <2>1 DEF register_connection
  <2> QED
    BY <1>4, <1>6, <2>2, <2>3, ShakenEntry DEF register_connection
<1> QED
  BY <1>2, <1>3, <1>5, <1>6 DEF on_hello

LEMMA Unregisters ==
  ASSUME TypesInv, NEW id \in DOMAIN conn_to_ip, unregister_connection(id),
         NEW d, d = conn_to_ip[id]
  PROVE  /\ d \in Ips
         /\ Entry(d).active > 0 =>
              Entry(d)' = [connections |-> Entry(d).connections,
                           handshakes |-> Entry(d).handshakes,
                           active |-> Entry(d).active - 1]
         /\ Entry(d).active = 0 => Entry(d)' = Entry(d)
         /\ \A j \in Ips \ {d} : Entry(j)' = Entry(j)
         /\ DOMAIN per_ip' = DOMAIN per_ip
<1>0. d \in Ips /\ Entry(d) \in Entries /\ Entry(d).active \in Nat
  BY Fields DEF TypesInv
<1>1. CASE d \in DOMAIN per_ip /\ per_ip[d].active > 0
  <2>1. per_ip' = [per_ip EXCEPT ![d].active = @ - 1]
    BY <1>1 DEF unregister_connection
  <2>2. /\ DOMAIN per_ip' = DOMAIN per_ip
        /\ per_ip'[d] = [per_ip[d] EXCEPT !.active = per_ip[d].active - 1]
        /\ \A j \in DOMAIN per_ip \ {d} : per_ip'[j] = per_ip[j]
    BY <1>1, <2>1
  <2>3. Entry(d) = per_ip[d] /\ Entry(d)' = per_ip'[d]
        /\ \A j \in Ips \ {d} : Entry(j)' = Entry(j)
    BY <1>1, <2>2 DEF Entry
  <2>4. Entry(d)' = [connections |-> Entry(d).connections,
                     handshakes |-> Entry(d).handshakes,
                     active |-> Entry(d).active - 1]
    <3>1. PICK e \in Entries : e = Entry(d) /\ e = per_ip[d]
      BY <1>0, <2>3
    <3>2. Entry(d)' = [e EXCEPT !.active = e.active - 1]
      BY <2>2, <2>3, <3>1
    <3>3. [e EXCEPT !.active = e.active - 1] =
            [connections |-> e.connections, handshakes |-> e.handshakes,
             active |-> e.active - 1]
      BY Updates
    <3> QED
      BY <3>1, <3>2, <3>3
  <2>5. Entry(d).active > 0 /\ Entry(d).active # 0
    BY <1>0, <1>1, <2>3
  <2> QED
    BY <1>0, <2>2, <2>3, <2>4, <2>5
<1>2. CASE ~(d \in DOMAIN per_ip /\ per_ip[d].active > 0)
  <2>1. UNCHANGED per_ip
    BY <1>2 DEF unregister_connection
  <2>2. ~(Entry(d).active > 0)
    BY <1>2 DEF Entry
  <2> QED
    BY <1>0, <2>1, <2>2, EntryKept
<1> QED
  BY <1>1, <1>2

LEMMA AllMoves ==
  ASSUME TypesInv, [Next]_vars, NEW ip \in Ips
  PROVE  IpMoves(ip)
<1> USE DEF limiterVars, serverVars, historyVars
<1>0. Entry(ip) \in Entries /\ now \in Nat
  BY DEF TypesInv
<1>1. ASSUME Entry(ip)' = Entry(ip), UNCHANGED <<opened, shaken>>, now' \in {now, now + 1}
      PROVE  IpMoves(ip)
  BY <1>0, <1>1 DEF IpMoves, WindowMoves
<1>2. ASSUME NEW d \in Ips, on_open(d) \/ on_hello(d)
      PROVE  IpMoves(ip)
  BY <1>2, Opens, Hellos
<1>3. ASSUME NEW d \in Ips, on_close_waiting(d)
      PROVE  IpMoves(ip)
  BY <1>1, <1>3, EntryKept DEF on_close_waiting
<1>4. ASSUME NEW id \in Ids, on_message(id)
      PROVE  IpMoves(ip)
  BY <1>1, <1>4, EntryKept DEF on_message
<1>5. ASSUME NEW id \in Ids, unregister_connection(id)
      PROVE  IpMoves(ip)
  <2>1. id \in DOMAIN conn_to_ip /\ UNCHANGED <<now, opened, shaken>>
    BY <1>5 DEF unregister_connection
  <2>2. CASE Entry(ip)' = Entry(ip)
    BY <1>1, <2>1, <2>2
  <2>3. CASE /\ Entry(ip).active > 0
             /\ Entry(ip)' = [connections |-> Entry(ip).connections,
                              handshakes |-> Entry(ip).handshakes,
                              active |-> Entry(ip).active - 1]
    <3>1. /\ Entry(ip).connections \in Seq(Nat) /\ Entry(ip).handshakes \in Seq(Nat)
          /\ Entry(ip).active - 1 \in Nat
      BY <1>0, <2>3, Fields
    <3>2. Entry(ip)' \in Entries
      BY <2>3, <3>1, EntryType
    <3> QED
      BY <2>1, <2>3, <3>2 DEF IpMoves, WindowMoves
  <2>4. Entry(ip).active \in Nat
    BY <1>0, Fields
  <2> QED
    BY <1>5, <2>1, <2>2, <2>3, <2>4, Unregisters
<1>6. CASE cleanup
  <2>1. Entry(ip)' = Cleaned(Entry(ip)) /\ UNCHANGED <<now, opened, shaken>>
    BY <1>6, EntryCleaned DEF cleanup
  <2>2. Entry(ip)' = [connections |-> clean(Entry(ip).connections),
                      handshakes |-> clean(Entry(ip).handshakes),
                      active |-> Entry(ip).active]
    BY <1>0, <2>1, Updates DEF Cleaned
  <2>3. /\ clean(Entry(ip).connections) \in Seq(Nat) /\ clean(Entry(ip).handshakes) \in Seq(Nat)
        /\ Entry(ip).active \in Nat
    BY <1>0, Fields, CleanType
  <2>4. Entry(ip)' \in Entries
    BY <2>2, <2>3, EntryType
  <2> QED
    BY <2>1, <2>2, <2>4 DEF IpMoves, WindowMoves
<1>7. CASE tick
  BY <1>1, <1>7, EntryKept DEF tick
<1>8. CASE UNCHANGED vars
  BY <1>1, <1>8, EntryKept DEF vars
<1> QED
  BY <1>2, <1>3, <1>4, <1>5, <1>6, <1>7, <1>8 DEF Next

-----------------------------------------------------------------------------
(***************************************************************************)
(* Buckets.                                                                *)
(***************************************************************************)
LEMMA MinOfTwo == \A a, b \in Int : Min({a, b}) = IF a <= b THEN a ELSE b
<1> SUFFICES ASSUME NEW a \in Int, NEW b \in Int
             PROVE  Min({a, b}) = IF a <= b THEN a ELSE b
  OBVIOUS
<1>1. PICK m \in {a, b} : \A y \in {a, b} : m <= y
  OBVIOUS
<1>2. Min({a, b}) \in {a, b} /\ \A y \in {a, b} : Min({a, b}) <= y
  BY <1>1 DEF Min
<1> QED
  BY <1>2

LEMMA Refilled ==
  ASSUME now \in Nat, NEW b, BucketOK(b)
  PROVE  LET gained == b.tokens + (now - b.last_refill) * MessagesPerSecond
         IN /\ BucketOK(refill(b)) /\ gained \in Nat /\ gained >= b.tokens
            /\ refill(b).last_refill = now
            /\ refill(b).tokens = IF gained <= Capacity THEN gained ELSE Capacity
            /\ refill(refill(b)) = refill(b)
<1>1. /\ b.tokens \in Nat /\ b.last_refill \in Nat /\ b.tokens <= Capacity
      /\ b.last_refill <= now
  BY DEF BucketOK, Buckets
<1>2. PICK g \in Nat : g = (now - b.last_refill) * MessagesPerSecond
  BY <1>1, Constants
<1>3. PICK t \in Nat : /\ t = Min({b.tokens + g, Capacity})
                       /\ t = IF b.tokens + g <= Capacity THEN b.tokens + g ELSE Capacity
  BY <1>1, MinOfTwo, Constants
<1>4. refill(b) = [tokens |-> t, last_refill |-> now]
  BY <1>2, <1>3 DEF refill
<1>5. t <= Capacity
  BY <1>3, Constants
<1>6. BucketOK(refill(b))
  BY <1>4, <1>5 DEF BucketOK, Buckets
<1>7. refill(refill(b)) = refill(b)
  <2>1. (now - now) * MessagesPerSecond = 0
    BY Constants
  <2>2. t + 0 = t /\ Min({t + 0, Capacity}) = t
    BY <1>5, MinOfTwo, Constants
  <2>3. refill([tokens |-> t, last_refill |-> now]) =
          [tokens |-> Min({t + (now - now) * MessagesPerSecond, Capacity}), last_refill |-> now]
    BY DEF refill
  <2> QED
    BY <1>4, <2>1, <2>2, <2>3
<1> QED
  BY <1>1, <1>2, <1>3, <1>4, <1>6, <1>7

LEMMA Taken ==
  ASSUME now \in Nat, NEW b, BucketOK(b)
  PROVE  /\ BucketOK(TakeToken(b)) /\ TakeToken(b).last_refill = b.last_refill
         /\ b.tokens >= Second => TakeToken(b).tokens = b.tokens - Second
<1>1. b.tokens \in Nat /\ b.last_refill \in Nat /\ b.tokens <= Capacity /\ b.last_refill <= now
  BY DEF BucketOK, Buckets
<1>2. CASE b.tokens >= Second
  <2>1. TakeToken(b) = [b EXCEPT !.tokens = b.tokens - Second]
    BY <1>2 DEF TakeToken
  <2>2. TakeToken(b) = [tokens |-> b.tokens - Second, last_refill |-> b.last_refill]
    BY <2>1 DEF BucketOK, Buckets
  <2>3. b.tokens - Second \in Nat /\ b.tokens - Second <= Capacity
    BY <1>1, <1>2, Constants
  <2> QED
    BY <1>1, <1>2, <2>2, <2>3 DEF BucketOK, Buckets
<1>3. CASE ~(b.tokens >= Second)
  BY <1>3 DEF TakeToken
<1> QED
  BY <1>2, <1>3

LEMMA FullBucket ==
  ASSUME now \in Nat
  PROVE  BucketOK([tokens |-> Capacity, last_refill |-> now])
BY Constants DEF BucketOK, Buckets

\* What one message does to the buckets and to the log of what was let through.
LEMMA MessageMoves ==
  ASSUME TypesInv, NEW d \in Ids, on_message(d)
  PROVE  /\ d \in DOMAIN conn_to_ip
         /\ \/ message_buckets' = Checked(d) /\ UNCHANGED passed
            \/ /\ TRUE \in check_message_rate(d)
               /\ message_buckets' = record_message(d, Checked(d))
               /\ passed' = [passed EXCEPT ![d] = Append(@, now)]
BY DEF on_message, MessageRefused, MessageIgnored, MessageRecorded, Logged

\* check_message_rate compares what the refilled bucket holds with a token.
LEMMA VerdictOfBucket ==
  ASSUME Limited(MessagesPerSecond), NEW d \in DOMAIN message_buckets
  PROVE  /\ TRUE \in check_message_rate(d) <=> Checked(d)[d].tokens >= Second
         /\ FALSE \in check_message_rate(d) <=> Checked(d)[d].tokens <= Second
BY DEF check_message_rate

LEMMA CheckedBuckets ==
  ASSUME TypesInv, NEW d
  PROVE  /\ DOMAIN Checked(d) = DOMAIN message_buckets
         /\ \A j \in DOMAIN message_buckets : j # d => Checked(d)[j] = message_buckets[j]
         /\ d \in DOMAIN message_buckets =>
              /\ BucketOK(message_buckets[d]) /\ BucketOK(Checked(d)[d])
              /\ Checked(d)[d] = IF Limited(MessagesPerSecond) THEN refill(message_buckets[d])
                                 ELSE message_buckets[d]
<1>1. now \in Nat /\ \A j \in DOMAIN message_buckets : BucketOK(message_buckets[j])
  BY DEF TypesInv
<1>2. d \in DOMAIN message_buckets => BucketOK(refill(message_buckets[d]))
  BY <1>1, Refilled
<1>3. /\ DOMAIN Checked(d) = DOMAIN message_buckets
      /\ \A j \in DOMAIN message_buckets : Checked(d)[j] =
           IF j = d /\ Limited(MessagesPerSecond) THEN refill(message_buckets[d])
           ELSE message_buckets[j]
  BY DEF Checked
<1> QED
  BY <1>1, <1>2, <1>3

LEMMA RecordedBuckets ==
  ASSUME TypesInv, NEW d
  PROVE  LET buckets == record_message(d, Checked(d))
         IN /\ ~Enabled => buckets = Checked(d)
            /\ Enabled =>
                 /\ DOMAIN buckets = DOMAIN message_buckets \cup {d}
                 /\ \A j \in DOMAIN message_buckets : j # d => buckets[j] = message_buckets[j]
                 /\ buckets[d] =
                      TakeToken(IF d \in DOMAIN message_buckets
                                  THEN refill(message_buckets[d])
                                  ELSE [tokens |-> Capacity, last_refill |-> now])
                 /\ BucketOK(buckets[d])
<1> DEFINE full == [tokens |-> Capacity, last_refill |-> now]
           old == IF d \in DOMAIN Checked(d) THEN refill(Checked(d)[d]) ELSE full
           buckets == record_message(d, Checked(d))
<1>0. now \in Nat
  BY DEF TypesInv
<1>1. /\ ~Enabled => buckets = Checked(d)
      /\ Enabled => buckets = [j \in DOMAIN Checked(d) \cup {d} |->
                                 IF j = d THEN TakeToken(old) ELSE Checked(d)[j]]
  BY DEF record_message
<1>2. old = IF d \in DOMAIN message_buckets THEN refill(message_buckets[d]) ELSE full
  BY <1>0, CheckedBuckets, Refilled
<1>3. BucketOK(old)
  BY <1>0, <1>2, CheckedBuckets, Refilled, FullBucket
<1>4. BucketOK(TakeToken(old))
  BY <1>0, <1>3, Taken
<1> HIDE DEF buckets, old
<1>5. Enabled => /\ DOMAIN buckets = DOMAIN message_buckets \cup {d}
                 /\ \A j \in DOMAIN message_buckets : j # d => buckets[j] = message_buckets[j]
                 /\ buckets[d] = TakeToken(old)
  BY <1>1, CheckedBuckets
<1> QED
  BY <1>1, <1>2, <1>4, <1>5 DEF buckets

-----------------------------------------------------------------------------
(***************************************************************************)
(* Types are kept.                                                         *)
(***************************************************************************)
LEMMA TimeStep ==
  ASSUME TypesInv, [Next]_vars
  PROVE  now' \in Nat /\ now <= now'
<1>1. now \in Nat
  BY DEF TypesInv
<1>2. now' = now \/ now' = now + 1
  BY DEF Next, on_open, on_hello, on_close_waiting, on_message, unregister_connection,
         cleanup, tick, vars
<1> QED
  BY <1>1, <1>2

LEMMA DomainStep ==
  ASSUME TypesInv, [Next]_vars
  PROVE  DOMAIN per_ip' \subseteq Ips
<1> USE DEF limiterVars, serverVars, historyVars
<1>0. DOMAIN per_ip \subseteq Ips
  BY DEF TypesInv
<1>1. CASE UNCHANGED per_ip
  BY <1>0, <1>1
<1>2. ASSUME NEW ip \in Ips, NEW e, per_ip' = WithEntry(ip, e)
      PROVE  DOMAIN per_ip' \subseteq Ips
  BY <1>0, <1>2, EntryWritten
<1>3. ASSUME NEW ip \in Ips, on_open(ip)
      PROVE  DOMAIN per_ip' \subseteq Ips
  BY <1>1, <1>2, <1>3 DEF on_open, record_connection
<1>4. ASSUME NEW ip \in Ips, on_hello(ip)
      PROVE  DOMAIN per_ip' \subseteq Ips
  BY <1>1, <1>2, <1>4 DEF on_hello, HelloRefused, HelloFails, HelloRejected, register_connection
<1>5. ASSUME NEW id \in Ids, unregister_connection(id)
      PROVE  DOMAIN per_ip' \subseteq Ips
  <2>1. id \in DOMAIN conn_to_ip
    BY <1>5 DEF unregister_connection
  <2> QED
    BY <1>0, <1>5, <2>1, Unregisters
<1>6. CASE cleanup
  BY <1>0, <1>6, EntryCleaned
<1> QED
  BY <1>1, <1>3, <1>4, <1>5, <1>6 DEF Next, on_close_waiting, on_message, tick, vars

LEMMA BucketTypesStep ==
  ASSUME TypesInv, [Next]_vars
  PROVE  (\A id \in DOMAIN message_buckets : BucketOK(message_buckets[id]))'
<1> USE DEF limiterVars, serverVars, historyVars
<1>0. now \in Nat /\ now' \in Nat /\ now <= now'
      /\ \A id \in DOMAIN message_buckets : BucketOK(message_buckets[id])
  BY TimeStep DEF TypesInv
<1>1. ASSUME NEW b, BucketOK(b)
      PROVE  BucketOK(b)'
  BY <1>0, <1>1 DEF BucketOK, Buckets
<1>2. CASE \A id \in DOMAIN message_buckets' :
             id \in DOMAIN message_buckets /\ message_buckets'[id] = message_buckets[id]
  <2>1. ASSUME NEW id \in DOMAIN message_buckets'
        PROVE  BucketOK(message_buckets[id])'
    <3>1. PICK b : b = message_buckets'[id] /\ b = message_buckets[id]
      BY <1>2
    <3>2. BucketOK(b)'
      BY <1>0, <1>1, <1>2, <3>1
    <3> QED
      BY <3>1, <3>2 DEF BucketOK
  <2> QED
    BY <2>1
<1>3. ASSUME NEW d \in Ids, on_message(d)
      PROVE  (\A id \in DOMAIN message_buckets : BucketOK(message_buckets[id]))'
  <2>1. \A id \in DOMAIN Checked(d) : BucketOK(Checked(d)[id])
    BY <1>0, CheckedBuckets
  <2>2. \A id \in DOMAIN record_message(d, Checked(d)) :
          BucketOK(record_message(d, Checked(d))[id])
    BY <1>0, <2>1, RecordedBuckets
  <2>3. message_buckets' = Checked(d) \/ message_buckets' = record_message(d, Checked(d))
    BY <1>3, MessageMoves
  <2>4. ASSUME NEW id \in DOMAIN message_buckets'
        PROVE  BucketOK(message_buckets[id])'
    <3>1. PICK b : b = message_buckets'[id]
      OBVIOUS
    <3>2. BucketOK(b)
      BY <2>1, <2>2, <2>3, <3>1
    <3>3. BucketOK(b)'
      BY <1>1, <3>2
    <3> QED
      BY <3>1, <3>3 DEF BucketOK
  <2> QED
    BY <2>4
<1>4. ASSUME NEW d \in Ids, unregister_connection(d)
      PROVE  (\A id \in DOMAIN message_buckets : BucketOK(message_buckets[id]))'
  <2>1. message_buckets' = [j \in DOMAIN message_buckets \ {d} |-> message_buckets[j]]
    BY <1>4 DEF unregister_connection
  <2> QED
    BY <1>2, <2>1
<1>5. CASE UNCHANGED message_buckets
  BY <1>2, <1>5
<1> QED
  BY <1>3, <1>4, <1>5 DEF Next, on_open, on_hello, on_close_waiting, cleanup, tick, vars

Registered ==
  /\ next_conn_id \in Nat
  /\ total_connections \in Int
  /\ DOMAIN conn_to_ip \subseteq Ids
  /\ \A id \in DOMAIN conn_to_ip : conn_to_ip[id] \in Ips
  /\ passed \in [Ids -> Seq(Nat)]

\* The ways in which connections come and go.
LEMMA RegisteredSteps ==
  ASSUME [Next]_vars
  PROVE  \/ \E ip \in Ips : on_hello(ip) /\ register_connection(ip)
         \/ \E id \in Ids : unregister_connection(id)
         \/ \E id \in Ids : on_message(id)
         \/ UNCHANGED <<next_conn_id, total_connections, conn_to_ip, passed, message_buckets>>
BY DEF Next, on_open, on_hello, HelloRefused, HelloFails, HelloRejected, on_close_waiting,
       cleanup, tick, vars, limiterVars, historyVars

LEMMA Registers ==
  ASSUME Registered, NEW ip \in Ips, register_connection(ip)
  PROVE  /\ next_conn_id \notin DOMAIN conn_to_ip
         /\ DOMAIN conn_to_ip' = DOMAIN conn_to_ip \cup {next_conn_id}
         /\ conn_to_ip'[next_conn_id] = ip
         /\ \A id \in DOMAIN conn_to_ip : conn_to_ip'[id] = conn_to_ip[id]
         /\ Ids' = Ids \cup {next_conn_id}
         /\ passed'[next_conn_id] = <<>>
         /\ \A id \in Ids : passed'[id] = passed[id]
         /\ Registered'
<1>1. /\ next_conn_id \in Nat /\ DOMAIN conn_to_ip \subseteq 0..(next_conn_id - 1)
      /\ next_conn_id' = next_conn_id + 1
      /\ total_connections' = total_connections + 1
  BY DEF Registered, Ids, register_connection
<1>2. next_conn_id \notin DOMAIN conn_to_ip
  BY <1>1
<1>3. Ids' = 0..next_conn_id /\ Ids' = Ids \cup {next_conn_id} /\ next_conn_id \notin Ids
  BY <1>1 DEF Ids
<1>4. /\ DOMAIN conn_to_ip' = DOMAIN conn_to_ip \cup {next_conn_id}
      /\ conn_to_ip'[next_conn_id] = ip
      /\ \A id \in DOMAIN conn_to_ip : conn_to_ip'[id] = conn_to_ip[id]
  BY <1>2 DEF register_connection
<1>5. passed' = [id \in Ids' |-> IF id = next_conn_id THEN <<>> ELSE passed[id]]
  BY <1>3 DEF register_connection
<1>6. /\ passed' \in [Ids' -> Seq(Nat)] /\ passed'[next_conn_id] = <<>>
      /\ \A id \in Ids : passed'[id] = passed[id]
  <2>1. <<>> \in Seq(Nat)
    OBVIOUS
  <2> QED
    BY <1>3, <1>5, <2>1 DEF Registered
<1>7. Registered'
  BY <1>1, <1>3, <1>4, <1>6 DEF Registered
<1> QED
  BY <1>2, <1>3, <1>4, <1>6, <1>7

LEMMA Leaves ==
  ASSUME Registered, NEW d \in Ids, unregister_connection(d)
  PROVE  /\ d \in DOMAIN conn_to_ip
         /\ DOMAIN conn_to_ip' = DOMAIN conn_to_ip \ {d}
         /\ \A id \in DOMAIN conn_to_ip' : conn_to_ip'[id] = conn_to_ip[id]
         /\ DOMAIN message_buckets' = DOMAIN message_buckets \ {d}
         /\ \A id \in DOMAIN message_buckets' : message_buckets'[id] = message_buckets[id]
         /\ total_connections' = total_connections - 1
         /\ UNCHANGED <<next_conn_id, passed>> /\ Ids' = Ids
         /\ Registered'
<1>1. /\ d \in DOMAIN conn_to_ip
      /\ conn_to_ip' = [j \in DOMAIN conn_to_ip \ {d} |-> conn_to_ip[j]]
      /\ message_buckets' = [j \in DOMAIN message_buckets \ {d} |-> message_buckets[j]]
      /\ total_connections' = total_connections - 1
      /\ UNCHANGED <<next_conn_id, passed>>
  BY DEF unregister_connection, historyVars
<1>2. Ids' = Ids
  BY <1>1 DEF Ids
<1> QED
  BY <1>1, <1>2 DEF Registered

LEMMA MessageRegistered ==
  ASSUME Registered, now \in Nat, NEW d \in Ids, on_message(d)
  PROVE  Registered' /\ UNCHANGED <<next_conn_id, total_connections, conn_to_ip>>
<1>1. /\ UNCHANGED <<next_conn_id, total_connections, conn_to_ip>>
      /\ UNCHANGED passed \/ passed' = [passed EXCEPT ![d] = Append(@, now)]
  BY DEF on_message, MessageRefused, MessageIgnored, MessageRecorded, Logged
<1>2. Ids' = Ids
  BY <1>1 DEF Ids
<1>3. passed[d] \in Seq(Nat)
  BY DEF Registered
<1>4. Append(passed[d], now) \in Seq(Nat)
  BY <1>3
<1>5. passed' \in [Ids -> Seq(Nat)]
  BY <1>1, <1>4 DEF Registered
<1> QED
  BY <1>1, <1>2, <1>5 DEF Registered

LEMMA RegisteredStep ==
  ASSUME TypesInv, [Next]_vars
  PROVE  Registered'
<1>1. Registered /\ now \in Nat
  BY DEF Registered, TypesInv
<1>2. CASE UNCHANGED <<next_conn_id, total_connections, conn_to_ip, passed>>
  BY <1>1, <1>2 DEF Registered, Ids
<1> QED
  BY <1>1, <1>2, RegisteredSteps, Registers, Leaves, MessageRegistered

LEMMA LogsStep ==
  ASSUME TypesInv, [Next]_vars
  PROVE  opened' \in [Ips -> Seq(Nat)] /\ shaken' \in [Ips -> Seq(Nat)]
<1>0. opened \in [Ips -> Seq(Nat)] /\ shaken \in [Ips -> Seq(Nat)] /\ now \in Nat
  BY DEF TypesInv
<1>1. ASSUME NEW log \in [Ips -> Seq(Nat)], NEW ip \in Ips
      PROVE  Logged(log, ip) \in [Ips -> Seq(Nat)]
  <2>1. Append(log[ip], now) \in Seq(Nat)
    BY <1>0
  <2> QED
    BY <2>1 DEF Logged
<1>2. \/ UNCHANGED opened
      \/ \E ip \in Ips : opened' = Logged(opened, ip)
  BY DEF Next, on_open, record_connection, on_hello, on_close_waiting, on_message,
         unregister_connection, cleanup, tick, vars, historyVars
<1>3. \/ UNCHANGED shaken
      \/ \E ip \in Ips : shaken' = Logged(shaken, ip)
  BY DEF Next, on_open, on_hello, HelloRefused, HelloFails, HelloRejected,
         register_connection, on_close_waiting, on_message, unregister_connection,
         cleanup, tick, vars, historyVars
<1> QED
  BY <1>0, <1>1, <1>2, <1>3

LEMMA TypesStep ==
  ASSUME TypesInv, [Next]_vars
  PROVE  TypesInv'
<1>1. \A ip \in Ips : Entry(ip)' \in Entries
  BY AllMoves DEF IpMoves
<1> QED
  BY <1>1, TimeStep, DomainStep, BucketTypesStep, RegisteredStep, LogsStep
  DEF TypesInv, Registered

LEMMA TypesInit == Init => TypesInv
<1> SUFFICES ASSUME Init PROVE TypesInv
  OBVIOUS
<1>1. \A ip \in Ips : Entry(ip) \in Entries
  <2>1. <<>> \in Seq(Nat) /\ DOMAIN <<>> = {}
    OBVIOUS
  <2> QED
    BY <2>1 DEF Init, Entry, Entries
<1>2. Ids = {}
  BY DEF Init, Ids
<1>3. /\ DOMAIN per_ip = {} /\ DOMAIN message_buckets = {} /\ DOMAIN conn_to_ip = {}
      /\ passed \in [{} -> Seq(Nat)] /\ opened \in [Ips -> Seq(Nat)]
      /\ shaken \in [Ips -> Seq(Nat)]
  BY DEF Init
<1> QED
  BY <1>1, <1>2, <1>3 DEF Init, TypesInv

-----------------------------------------------------------------------------
(***************************************************************************)
(* The windows.  w is the log of all that was recorded, u the window the   *)
(* code keeps of it.  That no minute holds too much is not inductive by    *)
(* itself: the log must be in order, of the past, and the window must      *)
(* still hold all of it that counts.                                       *)
(***************************************************************************)
WindowOK(limit, u, w) ==
  /\ Sorted(w)
  /\ \A i \in 1..Len(w) : w[i] <= now
  /\ Enabled => Since(u, w)
  /\ AtMost(limit, w)

LEMMA Appended ==
  ASSUME NEW w \in Seq(Nat), NEW x \in Nat
  PROVE  /\ Append(w, x) \in Seq(Nat)
         /\ Len(Append(w, x)) = Len(w) + 1
         /\ Append(w, x)[Len(w) + 1] = x
         /\ \A i \in 1..Len(w) : Append(w, x)[i] = w[i]
<1>1. Append(w, x) \in Seq(Nat) /\ Len(Append(w, x)) = Len(w) + 1 /\ Len(w) \in Nat
  OBVIOUS
<1>2. /\ Len(w) + 1 \in 1..(Len(w) + 1)
      /\ \A i \in 1..Len(w) : i \in 1..(Len(w) + 1) /\ i # Len(w) + 1
  BY <1>1
<1>3. Append(w, x)[Len(w) + 1] = x
  BY <1>1, <1>2
<1>4. \A i \in 1..Len(w) : Append(w, x)[i] = w[i]
  BY <1>1, <1>2
<1> QED
  BY <1>1, <1>3, <1>4

LEMMA SinceTick ==
  ASSUME NEW u \in Seq(Nat), NEW w \in Seq(Nat), Since(u, w),
         now \in Nat, now' \in Nat, now <= now'
  PROVE  Since(u, w)'
<1>1. PICK k \in Nat : /\ Len(w) = Len(u) + k
                       /\ \A i \in 1..Len(u) : u[i] = w[i + k]
                       /\ \A i \in 1..k : w[i] + Window < now
  BY DEF Since
<1>2. ASSUME NEW i \in 1..k
      PROVE  w[i] + Window < now'
  <2>1. i \in 1..Len(w)
    BY <1>1
  <2>2. w[i] \in Nat /\ w[i] + Window < now
    BY <1>1, <2>1
  <2> QED
    BY <2>2, Constants
<1> QED
  BY <1>1, <1>2 DEF Since

LEMMA SinceAppend ==
  ASSUME NEW u \in Seq(Nat), NEW w \in Seq(Nat), Since(u, w), now \in Nat
  PROVE  Since(Append(u, now), Append(w, now))
<1>1. PICK k \in Nat : /\ Len(w) = Len(u) + k
                       /\ \A i \in 1..Len(u) : u[i] = w[i + k]
                       /\ \A i \in 1..k : w[i] + Window < now
  BY DEF Since
<1>2. PICK u2 \in Seq(Nat) : /\ u2 = Append(u, now) /\ Len(u2) = Len(u) + 1
                             /\ u2[Len(u) + 1] = now /\ \A i \in 1..Len(u) : u2[i] = u[i]
  BY Appended
<1>3. PICK w2 \in Seq(Nat) : /\ w2 = Append(w, now) /\ Len(w2) = Len(w) + 1
                             /\ w2[Len(w) + 1] = now /\ \A i \in 1..Len(w) : w2[i] = w[i]
  BY Appended
<1>4. Len(u) \in Nat /\ Len(w) \in Nat
  OBVIOUS
<1>5. Len(w2) = Len(u2) + k
  BY <1>1, <1>2, <1>3, <1>4
<1>6. ASSUME NEW i \in 1..Len(u2)
      PROVE  u2[i] = w2[i + k]
  <2>1. CASE i = Len(u) + 1
    <3>1. i + k = Len(w) + 1
      BY <1>1, <1>4, <2>1
    <3> QED
      BY <1>2, <1>3, <2>1, <3>1
  <2>2. CASE i # Len(u) + 1
    <3>1. i \in 1..Len(u)
      BY <1>2, <1>4, <1>6, <2>2
    <3>2. i + k \in 1..Len(w)
      BY <1>1, <1>4, <3>1
    <3> QED
      BY <1>1, <1>2, <1>3, <3>1, <3>2
  <2> QED
    BY <2>1, <2>2
<1>7. \A i \in 1..k : w2[i] + Window < now
  <2>1. \A i \in 1..k : i \in 1..Len(w)
    BY <1>1, <1>4
  <2> QED
    BY <1>1, <1>3, <2>1
<1> QED
  BY <1>2, <1>3, <1>5, <1>6, <1>7 DEF Since

\* One more may be recorded when fewer than the limit are recent.
LEMMA AtMostAppend ==
  ASSUME NEW limit \in Nat, NEW w \in Seq(Nat), Sorted(w), now \in Nat,
         AtMost(limit, w), Limited(limit) => Recent(w) < limit
  PROVE  AtMost(limit, Append(w, now))
<1> SUFFICES ASSUME Limited(limit) PROVE AtMost(limit, Append(w, now))
  BY DEF AtMost
<1>0. cutoff \in Int /\ Len(w) \in Nat /\ limit # 0 /\ \A i \in 1..Len(w) : w[i] \in Nat
  BY Constants DEF cutoff, Limited
<1>1. PICK m \in 1..(Len(w) + 1) : \A i \in 1..Len(w) : w[i] >= cutoff <=> i >= m
  BY <1>0, Threshold
<1>2. Recent(w) = Len(w) - m + 1
  BY <1>1, Counted
<1>3. PICK w2 \in Seq(Nat) : /\ w2 = Append(w, now) /\ Len(w2) = Len(w) + 1
                             /\ w2[Len(w) + 1] = now /\ \A i \in 1..Len(w) : w2[i] = w[i]
  BY Appended
<1>4. ASSUME NEW i \in 1..Len(w2), i + limit \in 1..Len(w2)
      PROVE  w2[i + limit] - w2[i] > Window
  <2>1. i \in 1..Len(w) /\ w2[i] = w[i]
    BY <1>0, <1>3, <1>4
  <2>2. CASE i + limit = Len(w) + 1
    <3>1. i < m
      BY <1>0, <1>1, <1>2, <2>2
    <3>2. ~(w[i] >= cutoff) /\ w[i] \in Nat
      BY <1>0, <1>1, <2>1, <3>1
    <3>3. w2[i + limit] = now
      BY <1>3, <2>2
    <3> QED
      BY <2>1, <3>2, <3>3, Constants DEF cutoff
  <2>3. CASE i + limit # Len(w) + 1
    <3>1. i + limit \in 1..Len(w)
      <4>1. \A n \in Nat : \A k \in 1..(n + 1) : k # n + 1 => k \in 1..n
        OBVIOUS
      <4>2. i + limit \in 1..(Len(w) + 1)
        BY <1>3, <1>4
      <4> QED
        BY <1>0, <2>3, <4>1, <4>2
    <3>2. DOMAIN w = 1..Len(w)
      OBVIOUS
    <3> QED
      BY <1>3, <2>1, <3>1, <3>2 DEF AtMost
  <2> QED
    BY <2>2, <2>3
<1>5. DOMAIN w2 = 1..Len(w2)
  OBVIOUS
<1> QED
  BY <1>3, <1>4, <1>5 DEF AtMost

LEMMA SortedAppend ==
  ASSUME NEW w \in Seq(Nat), Sorted(w), now \in Nat, \A i \in 1..Len(w) : w[i] <= now
  PROVE  /\ Append(w, now) \in Seq(Nat) /\ Sorted(Append(w, now))
         /\ \A i \in 1..Len(Append(w, now)) : Append(w, now)[i] <= now
<1>1. PICK w2 \in Seq(Nat) : /\ w2 = Append(w, now) /\ Len(w2) = Len(w) + 1
                             /\ w2[Len(w) + 1] = now /\ \A i \in 1..Len(w) : w2[i] = w[i]
  BY Appended
<1>2. \A i \in 1..Len(w2) : i = Len(w) + 1 \/ i \in 1..Len(w)
  BY <1>1
<1>3. \A i \in 1..Len(w2) : w2[i] <= now
  BY <1>1, <1>2
<1>4. ASSUME NEW i \in 1..Len(w2), NEW j \in 1..Len(w2), i <= j
      PROVE  w2[i] <= w2[j]
  <2>1. CASE j = Len(w) + 1
    BY <1>1, <1>3, <2>1
  <2>2. CASE j # Len(w) + 1
    <3>1. i \in 1..Len(w) /\ j \in 1..Len(w)
      BY <1>1, <1>4, <2>2
    <3> QED
      BY <1>1, <1>4, <3>1 DEF Sorted
  <2> QED
    BY <2>1, <2>2
<1>5. Sorted(w2)
  BY <1>4 DEF Sorted
<1> QED
  BY <1>1, <1>3, <1>5

LEMMA WindowStep ==
  ASSUME NEW limit \in Nat, NEW u \in Seq(Nat), NEW w \in Seq(Nat), NEW u2, NEW w2,
         now \in Nat, WindowOK(limit, u, w), WindowMoves(limit, u, u2, w, w2)
  PROVE  WindowOK(limit, u2, w2)'
<1>1. CASE u2 = u /\ w2 = w /\ now' \in {now, now + 1}
  <2>1. now' \in Nat /\ now <= now'
    BY <1>1
  <2>2. \A i \in 1..Len(w) : w[i] <= now'
    <3>1. \A i \in 1..Len(w) : w[i] \in Nat
      OBVIOUS
    <3> QED
      BY <2>1, <3>1 DEF WindowOK
  <2>3. Enabled => Since(u, w)'
    BY <2>1, SinceTick DEF WindowOK
  <2> QED
    BY <1>1, <2>2, <2>3 DEF WindowOK, Sorted, AtMost, Since
<1>2. ASSUME now' = now, WindowOK(limit, u2, w2)
      PROVE  WindowOK(limit, u2, w2)'
  BY <1>2 DEF WindowOK, Sorted, AtMost, Since
<1>3. CASE u2 = clean(u) /\ w2 = w /\ now' = now
  BY <1>2, <1>3, CleanExact DEF WindowOK
<1>4. CASE /\ w2 = Append(w, now) /\ now' = now
           /\ u2 = IF Enabled THEN Append(u, now) ELSE u
           /\ Limited(limit) => count_last(u) < limit
  <2>1. Limited(limit) => Recent(w) < limit
    BY <1>4, CountExact DEF WindowOK, Limited
  <2>2. AtMost(limit, w2)
    BY <1>4, <2>1, AtMostAppend DEF WindowOK
  <2>3. Sorted(w2) /\ \A i \in 1..Len(w2) : w2[i] <= now
    BY <1>4, SortedAppend DEF WindowOK
  <2>4. Enabled => Since(u2, w2)
    BY <1>4, SinceAppend DEF WindowOK
  <2>5. WindowOK(limit, u2, w2)
    BY <2>2, <2>3, <2>4 DEF WindowOK
  <2> QED
    BY <1>2, <1>4, <2>5
<1> QED
  BY <1>1, <1>3, <1>4 DEF WindowMoves

WindowsInv ==
  \A ip \in Ips :
    /\ WindowOK(ConnectionsPerMinute, Entry(ip).connections, opened[ip])
    /\ WindowOK(HandshakesPerMinute, Entry(ip).handshakes, shaken[ip])

LEMMA WindowsInit == Init => WindowsInv
<1> SUFFICES ASSUME Init, NEW ip \in Ips
             PROVE  /\ WindowOK(ConnectionsPerMinute, Entry(ip).connections, opened[ip])
                    /\ WindowOK(HandshakesPerMinute, Entry(ip).handshakes, shaken[ip])
  BY DEF WindowsInv
<1>1. /\ Entry(ip).connections = <<>> /\ Entry(ip).handshakes = <<>>
      /\ opened[ip] = <<>> /\ shaken[ip] = <<>> /\ now = 0
  <2>1. DOMAIN <<>> = {}
    OBVIOUS
  <2> QED
    BY <2>1 DEF Init, Entry
<1>2. ASSUME NEW limit
      PROVE  WindowOK(limit, <<>>, <<>>)
  <2>1. Len(<<>>) = 0 /\ DOMAIN <<>> = {} /\ 0 \in Nat /\ 0 = 0 + 0 /\ 1..0 = {}
    OBVIOUS
  <2>2. Since(<<>>, <<>>)
    BY <2>1 DEF Since
  <2> QED
    BY <2>1, <2>2 DEF WindowOK, Sorted, AtMost
<1> QED
  BY <1>1, <1>2

LEMMA WindowsStep ==
  ASSUME TypesInv, WindowsInv, [Next]_vars
  PROVE  WindowsInv'
<1> SUFFICES ASSUME NEW ip \in Ips
             PROVE  /\ WindowOK(ConnectionsPerMinute, Entry(ip).connections, opened[ip])'
                    /\ WindowOK(HandshakesPerMinute, Entry(ip).handshakes, shaken[ip])'
  BY DEF WindowsInv
<1>1. /\ now \in Nat /\ Entry(ip) \in Entries
      /\ opened[ip] \in Seq(Nat) /\ shaken[ip] \in Seq(Nat)
  BY DEF TypesInv
<1>2. Entry(ip).connections \in Seq(Nat) /\ Entry(ip).handshakes \in Seq(Nat)
  BY <1>1, Fields
<1>3. IpMoves(ip)
  BY AllMoves
<1>4. WindowOK(ConnectionsPerMinute, Entry(ip).connections, opened[ip])'
  <2>1. PICK u, w : u = Entry(ip).connections /\ w = opened[ip]
    OBVIOUS
  <2>2. PICK u2, w2 : u2 = Entry(ip)'.connections /\ w2 = opened'[ip]
    OBVIOUS
  <2>3. WindowMoves(ConnectionsPerMinute, u, u2, w, w2)
    BY <1>3, <2>1, <2>2 DEF IpMoves
  <2>4. WindowOK(ConnectionsPerMinute, u2, w2)'
    BY <1>1, <1>2, <2>1, <2>3, WindowStep, Constants DEF WindowsInv
  <2> QED
    BY <2>2, <2>4
<1>5. WindowOK(HandshakesPerMinute, Entry(ip).handshakes, shaken[ip])'
  <2>1. PICK u, w : u = Entry(ip).handshakes /\ w = shaken[ip]
    OBVIOUS
  <2>2. PICK u2, w2 : u2 = Entry(ip)'.handshakes /\ w2 = shaken'[ip]
    OBVIOUS
  <2>3. WindowMoves(HandshakesPerMinute, u, u2, w, w2)
    BY <1>3, <2>1, <2>2 DEF IpMoves
  <2>4. WindowOK(HandshakesPerMinute, u2, w2)'
    BY <1>1, <1>2, <2>1, <2>3, WindowStep, Constants DEF WindowsInv
  <2> QED
    BY <2>2, <2>4
<1> QED
  BY <1>4, <1>5

LEMMA WindowsCorrect == Spec => [](TypesInv /\ WindowsInv)
<1>1. Init => TypesInv /\ WindowsInv
  BY TypesInit, WindowsInit
<1>2. TypesInv /\ WindowsInv /\ [Next]_vars => (TypesInv /\ WindowsInv)'
  BY TypesStep, WindowsStep
<1> QED
  BY <1>1, <1>2, PTL DEF Spec

(***************************************************************************)
(* No closed minute holds more connections or handshakes of an address     *)
(* than check_connection_rate and check_handshake_rate allow, whatever     *)
(* cleanup() has thrown away.                                              *)
(***************************************************************************)
THEOREM WindowRespectedHolds == Spec => []WindowRespected
<1>1. WindowsInv => WindowRespected
  BY DEF WindowsInv, WindowOK, WindowRespected
<1> QED
  BY <1>1, WindowsCorrect, PTL

(***************************************************************************)
(* The verdict count_last gives on the window of an address is the one the *)
(* whole history of the address gives: cleanup() never changes it.         *)
(***************************************************************************)
THEOREM VerdictsExactHolds == Spec => []VerdictsExact
<1>1. ASSUME TypesInv, WindowsInv, NEW ip \in Ips
      PROVE  /\ Enabled => count_last(Entry(ip).connections) = Recent(opened[ip])
             /\ Enabled => count_last(Entry(ip).handshakes) = Recent(shaken[ip])
  <2>1. /\ now \in Nat /\ Entry(ip) \in Entries
        /\ opened[ip] \in Seq(Nat) /\ shaken[ip] \in Seq(Nat)
    BY <1>1 DEF TypesInv
  <2>2. Entry(ip).connections \in Seq(Nat) /\ Entry(ip).handshakes \in Seq(Nat)
    BY <2>1, Fields
  <2> QED
    BY <1>1, <2>1, <2>2, CountExact DEF WindowsInv, WindowOK
<1>2. TypesInv /\ WindowsInv => VerdictsExact
  BY <1>1 DEF VerdictsExact, check_connection_rate, check_handshake_rate, Limited
<1> QED
  BY <1>2, WindowsCorrect, PTL

-----------------------------------------------------------------------------
(***************************************************************************)
(* The counters.                                                           *)
(***************************************************************************)
Of(ip) == {id \in DOMAIN conn_to_ip : conn_to_ip[id] = ip}

LEMMA FiniteRegistered ==
  ASSUME Registered, NEW ip
  PROVE  /\ IsFiniteSet(DOMAIN conn_to_ip) /\ Cardinality(DOMAIN conn_to_ip) \in Nat
         /\ IsFiniteSet(Of(ip)) /\ Cardinality(Of(ip)) \in Nat
<1>1. next_conn_id - 1 \in Int /\ 0 \in Int /\ DOMAIN conn_to_ip \subseteq 0..(next_conn_id - 1)
  BY DEF Registered, Ids
<1>2. IsFiniteSet(0..(next_conn_id - 1))
  BY <1>1, FS_Interval
<1>3. IsFiniteSet(DOMAIN conn_to_ip)
  BY <1>1, <1>2, FS_Subset
<1>4. Of(ip) \subseteq DOMAIN conn_to_ip
  BY DEF Of
<1>5. IsFiniteSet(Of(ip))
  BY <1>3, <1>4, FS_Subset
<1> QED
  BY <1>3, <1>5, FS_CardinalityType

\* Only registering and unregistering change the count of an address.
LEMMA ActiveKept ==
  ASSUME TypesInv, [Next]_vars, NEW ip \in Ips,
         \A d \in Ips : ~(on_hello(d) /\ register_connection(d)),
         \A id \in Ids : ~unregister_connection(id)
  PROVE  Entry(ip)'.active = Entry(ip).active
<1> USE DEF limiterVars, serverVars, historyVars
<1>0. \A j \in Ips : Entry(j) \in Entries
  BY DEF TypesInv
<1>1. CASE UNCHANGED per_ip
  BY <1>1, EntryKept
<1>2. ASSUME NEW d \in Ips, NEW e, e.active = Entry(d).active, per_ip' = WithEntry(d, e)
      PROVE  Entry(ip)'.active = Entry(ip).active
  BY <1>2, EntryWritten
<1>3. ASSUME NEW d \in Ips, on_open(d)
      PROVE  Entry(ip)'.active = Entry(ip).active
  <2>1. PICK e : e = [Entry(d) EXCEPT !.connections = Append(@, now)]
    OBVIOUS
  <2>2. e.active = Entry(d).active
    <3>1. PICK x : x = Append(Entry(d).connections, now)
      OBVIOUS
    <3>2. e = [Entry(d) EXCEPT !.connections = x] /\ Entry(d) \in Entries
      BY <1>0, <2>1, <3>1
    <3>3. e = [connections |-> x, handshakes |-> Entry(d).handshakes,
               active |-> Entry(d).active]
      BY <3>2, Updates
    <3> QED
      BY <3>3
  <2>3. UNCHANGED per_ip \/ per_ip' = WithEntry(d, e)
    BY <1>3, <2>1 DEF on_open, record_connection
  <2> QED
    BY <1>1, <1>2, <2>2, <2>3
<1>4. ASSUME NEW d \in Ips, on_hello(d)
      PROVE  Entry(ip)'.active = Entry(ip).active
  <2>1. \/ UNCHANGED per_ip
        \/ per_ip' = WithEntry(d, Entry(d))
        \/ per_ip' = WithEntry(d, Shaken(d))
    BY <1>4 DEF on_hello, HelloRefused, HelloFails, HelloRejected
  <2>2. Shaken(d).active = Entry(d).active
    BY ShakenEntry
  <2> QED
    BY <1>1, <1>2, <2>1, <2>2
<1>5. CASE cleanup
  <2>1. Entry(ip)' = Cleaned(Entry(ip))
    BY <1>5, EntryCleaned
  <2>2. Cleaned(Entry(ip)).active = Entry(ip).active
    <3>1. PICK e \in Entries : e = Entry(ip)
      BY <1>0
    <3>2. Cleaned(e) = [connections |-> clean(e.connections),
                        handshakes |-> clean(e.handshakes), active |-> e.active]
      BY Updates DEF Cleaned
    <3> QED
      BY <3>1, <3>2
  <2> QED
    BY <2>1, <2>2
<1> QED
  BY <1>1, <1>3, <1>4, <1>5 DEF Next, on_close_waiting, on_message, tick, vars

CountersInv ==
  /\ total_connections = Cardinality(DOMAIN conn_to_ip)
  /\ \A ip \in Ips : Entry(ip).active = Cardinality(Of(ip))
  /\ DOMAIN message_buckets \subseteq DOMAIN conn_to_ip

LEMMA RegisterCounted ==
  ASSUME TypesInv, CountersInv, NEW d \in Ips, on_hello(d), register_connection(d)
  PROVE  CountersInv'
<1>1. PICK n : n = next_conn_id
  OBVIOUS
<1>2. Registered
  BY DEF TypesInv, Registered
<1>3. /\ n \notin DOMAIN conn_to_ip /\ DOMAIN conn_to_ip' = DOMAIN conn_to_ip \cup {n}
      /\ conn_to_ip'[n] = d /\ \A id \in DOMAIN conn_to_ip : conn_to_ip'[id] = conn_to_ip[id]
  BY <1>1, <1>2, Registers
<1>4. UNCHANGED message_buckets /\ total_connections' = total_connections + 1
  BY DEF on_hello, register_connection
<1>5. total_connections' = Cardinality(DOMAIN conn_to_ip')
  BY <1>2, <1>3, <1>4, FiniteRegistered, FS_AddElement DEF CountersInv
<1>6. Of(d)' = Of(d) \cup {n} /\ n \notin Of(d) /\ \A ip \in Ips : ip # d => Of(ip)' = Of(ip)
  BY <1>3 DEF Of
<1>7. Cardinality(Of(d)') = Cardinality(Of(d)) + 1
  BY <1>2, <1>6, FiniteRegistered, FS_AddElement
<1>8. Entry(d)'.active = Entry(d).active + 1 /\ \A j \in Ips \ {d} : Entry(j)' = Entry(j)
  <2>1. PICK e : e = [Shaken(d) EXCEPT !.active = @ + 1]
    OBVIOUS
  <2>2. per_ip' = WithEntry(d, e)
    BY <2>1 DEF register_connection
  <2>3. Entry(d)' = e /\ \A j \in Ips \ {d} : Entry(j)' = Entry(j)
    BY <2>2, EntryWritten
  <2>4. Shaken(d) \in Entries /\ Shaken(d).active = Entry(d).active
    BY ShakenEntry
  <2>5. e.active = Shaken(d).active + 1
    BY <2>1, <2>4, Updates
  <2> QED
    BY <2>3, <2>4, <2>5
<1>9. \A ip \in Ips : Entry(ip)'.active = Cardinality(Of(ip)')
  BY <1>6, <1>7, <1>8 DEF CountersInv
<1> QED
  BY <1>3, <1>4, <1>5, <1>9 DEF CountersInv

\* The count of an address with a registered connection is not 0.
LEMMA UnregisterCounted ==
  ASSUME TypesInv, CountersInv, NEW id \in Ids, unregister_connection(id)
  PROVE  CountersInv'
<1>1. Registered
  BY DEF TypesInv, Registered
<1>2. /\ id \in DOMAIN conn_to_ip /\ DOMAIN conn_to_ip' = DOMAIN conn_to_ip \ {id}
      /\ \A j \in DOMAIN conn_to_ip' : conn_to_ip'[j] = conn_to_ip[j]
      /\ DOMAIN message_buckets' = DOMAIN message_buckets \ {id}
      /\ total_connections' = total_connections - 1
  BY <1>1, Leaves
<1>3. PICK d \in Ips : d = conn_to_ip[id]
  BY <1>1, <1>2 DEF Registered
<1>4. total_connections' = Cardinality(DOMAIN conn_to_ip')
  BY <1>1, <1>2, FiniteRegistered, FS_RemoveElement DEF CountersInv
<1>5. Of(d)' = Of(d) \ {id} /\ id \in Of(d) /\ \A ip \in Ips : ip # d => Of(ip)' = Of(ip)
  BY <1>2, <1>3 DEF Of
<1>6. Cardinality(Of(d)') = Cardinality(Of(d)) - 1
  BY <1>1, <1>5, FiniteRegistered, FS_RemoveElement
<1>7. Cardinality(Of(d)) > 0
  <2>1. IsFiniteSet(Of(d)) /\ Cardinality(Of(d)) \in Nat /\ Of(d) # {}
    BY <1>1, <1>5, FiniteRegistered
  <2>2. Cardinality(Of(d)) # 0
    BY <2>1, FS_EmptySet
  <2> QED
    BY <2>1, <2>2
<1>8. Entry(d)'.active = Entry(d).active - 1 /\ \A j \in Ips \ {d} : Entry(j)' = Entry(j)
  <2>1. Entry(d).active > 0
    BY <1>3, <1>7 DEF CountersInv
  <2>2. /\ Entry(d)' = [connections |-> Entry(d).connections,
                        handshakes |-> Entry(d).handshakes,
                        active |-> Entry(d).active - 1]
        /\ \A j \in Ips \ {d} : Entry(j)' = Entry(j)
    BY <1>2, <1>3, <2>1, Unregisters
  <2> QED
    BY <2>2
<1>9. \A ip \in Ips : Entry(ip)'.active = Cardinality(Of(ip)')
  BY <1>5, <1>6, <1>8 DEF CountersInv
<1> QED
  BY <1>2, <1>4, <1>9 DEF CountersInv

LEMMA CountersStep ==
  ASSUME TypesInv, CountersInv, [Next]_vars
  PROVE  CountersInv'
<1>1. CASE \E d \in Ips : on_hello(d) /\ register_connection(d)
  BY <1>1, RegisterCounted
<1>2. CASE \E id \in Ids : unregister_connection(id)
  BY <1>2, UnregisterCounted
<1>3. CASE /\ \A d \in Ips : ~(on_hello(d) /\ register_connection(d))
           /\ \A id \in Ids : ~unregister_connection(id)
  <2>1. \A ip \in Ips : Entry(ip)'.active = Entry(ip).active
    BY <1>3, ActiveKept
  <2>2. /\ UNCHANGED <<total_connections, conn_to_ip>>
        /\ DOMAIN message_buckets' \subseteq DOMAIN conn_to_ip
    <3>1. CASE \E id \in Ids : on_message(id)
      <4>1. PICK id \in Ids : on_message(id)
        BY <3>1
      <4>2. UNCHANGED <<total_connections, conn_to_ip>>
        BY <4>1 DEF on_message
      <4>3. DOMAIN message_buckets' \subseteq DOMAIN message_buckets \cup {id}
        BY <4>1, MessageMoves, CheckedBuckets, RecordedBuckets
      <4>4. id \in DOMAIN conn_to_ip
        BY <4>1, MessageMoves
      <4> QED
        BY <4>2, <4>3, <4>4 DEF CountersInv
    <3>2. CASE UNCHANGED <<total_connections, conn_to_ip, message_buckets>>
      BY <3>2 DEF CountersInv
    <3> QED
      BY <1>3, <3>1, <3>2, RegisteredSteps
  <2> QED
    BY <2>1, <2>2 DEF CountersInv, Of
<1> QED
  BY <1>1, <1>2, <1>3

LEMMA CountersInit == Init => CountersInv
<1> SUFFICES ASSUME Init PROVE CountersInv
  OBVIOUS
<1>1. DOMAIN conn_to_ip = {} /\ DOMAIN message_buckets = {} /\ DOMAIN per_ip = {}
  BY DEF Init
<1>2. \A ip \in Ips : Of(ip) = {} /\ Entry(ip).active = 0
  BY <1>1 DEF Of, Entry
<1> QED
  BY <1>1, <1>2, FS_EmptySet DEF Init, CountersInv

(***************************************************************************)
(* total_connections_, the count of every address and the buckets agree    *)
(* with the registered connections after every sequence of                 *)
(* register_connection, unregister_connection and cleanup().               *)
(***************************************************************************)
THEOREM CountersAgreeHolds == Spec => []CountersAgree
<1>1. Init => TypesInv /\ CountersInv
  BY TypesInit, CountersInit
<1>2. TypesInv /\ CountersInv /\ [Next]_vars => (TypesInv /\ CountersInv)'
  BY TypesStep, CountersStep
<1>3. CountersInv => CountersAgree
  BY DEF CountersInv, CountersAgree, Of
<1> QED
  BY <1>1, <1>2, <1>3, PTL DEF Spec

-----------------------------------------------------------------------------
(***************************************************************************)
(* The buckets.  Term(t, log, i) is what a full bucket holds at t when all *)
(* messages since the i-th one are taken from it and all that the rate has *)
(* given since then is added.  Exact(b, log): the bucket holds the least   *)
(* of these terms, or the capacity.  RateRespected follows from the upper  *)
(* bounds alone, but VerdictFitsBucket needs that one of them is reached, and    *)
(* neither is inductive without the time of the last refill.               *)
(***************************************************************************)
Term(t, log, i) ==
  Capacity - (Len(log) - i + 1) * Second + (t - log[i]) * MessagesPerSecond

Exact(b, log) ==
  /\ b \in Buckets
  /\ b.tokens <= Capacity
  /\ \A i \in 1..Len(log) : b.tokens <= Term(b.last_refill, log, i)
  /\ \/ b.tokens = Capacity
     \/ \E i \in 1..Len(log) : b.tokens = Term(b.last_refill, log, i)

Respected(log) ==
  \A i, j \in 1..Len(log) : i <= j =>
    (j - i + 1) * Second <= Capacity + (log[j] - log[i]) * MessagesPerSecond

LEMMA Distributes == \A a, b, c \in Int : (a + b) * c = a * c + b * c /\ a * c \in Int
OBVIOUS

LEMMA TermMoves ==
  ASSUME NEW log \in Seq(Nat), NEW i \in 1..Len(log), NEW t \in Nat, NEW t2 \in Nat
  PROVE  /\ Term(t, log, i) \in Int
         /\ Term(t2, log, i) = Term(t, log, i) + (t2 - t) * MessagesPerSecond
<1>1. PICK x \in Int : x = log[i]
  OBVIOUS
<1>2. PICK p \in Int : p = (Len(log) - i + 1) * Second
  BY Constants
<1>3. /\ t - x \in Int /\ t2 - t \in Int /\ MessagesPerSecond \in Int
      /\ (t2 - t) + (t - x) = t2 - x
  BY <1>1, Constants
<1>4. (t2 - x) * MessagesPerSecond =
        (t2 - t) * MessagesPerSecond + (t - x) * MessagesPerSecond
  BY <1>3, Distributes
<1>5. PICK q \in Int, r \in Int : /\ q = (t - x) * MessagesPerSecond
                                  /\ r = (t2 - t) * MessagesPerSecond
  BY <1>3, Distributes
<1>6. Term(t, log, i) = Capacity - p + q /\ Term(t2, log, i) = Capacity - p + (r + q)
  BY <1>1, <1>2, <1>4, <1>5 DEF Term
<1> QED
  BY <1>2, <1>5, <1>6, Constants

LEMMA TermAppend ==
  ASSUME NEW log \in Seq(Nat), NEW t \in Nat
  PROVE  /\ \A i \in 1..Len(log) : Term(t, Append(log, t), i) = Term(t, log, i) - Second
         /\ Term(t, Append(log, t), Len(log) + 1) = Capacity - Second
<1>1. PICK log2 \in Seq(Nat) :
        /\ log2 = Append(log, t) /\ Len(log2) = Len(log) + 1 /\ log2[Len(log) + 1] = t
        /\ \A i \in 1..Len(log) : log2[i] = log[i]
  BY Appended
<1>2. Len(log) \in Nat /\ Second \in Int /\ Capacity \in Int
  BY Constants
<1>3. ASSUME NEW i \in 1..Len(log)
      PROVE  Term(t, log2, i) = Term(t, log, i) - Second
  <2>1. PICK k \in Int : k = Len(log) - i + 1 /\ k + 1 = Len(log2) - i + 1
    BY <1>1, <1>2
  <2>2. (k + 1) * Second = k * Second + Second
    BY <1>2, <2>1
  <2>3. PICK p \in Int, q \in Int : /\ p = k * Second
                                    /\ q = (t - log[i]) * MessagesPerSecond
    <3>1. log[i] \in Nat
      OBVIOUS
    <3>2. k * Second \in Int
      BY <1>2, <2>1, Distributes
    <3>3. t - log[i] \in Int /\ MessagesPerSecond \in Int
      BY <3>1, Constants
    <3>4. (t - log[i]) * MessagesPerSecond \in Int
      BY <3>3, Distributes
    <3> QED
      BY <3>2, <3>4
  <2>4. Term(t, log, i) = Capacity - p + q /\ Term(t, log2, i) = Capacity - (p + Second) + q
    BY <1>1, <2>1, <2>2, <2>3 DEF Term
  <2> QED
    BY <1>2, <2>3, <2>4
<1>4. Term(t, log2, Len(log) + 1) = Capacity - Second
  <2>1. Len(log2) - (Len(log) + 1) + 1 = 1 /\ t - log2[Len(log) + 1] = 0
    BY <1>1, <1>2
  <2>2. 1 * Second = Second /\ 0 * MessagesPerSecond = 0
    BY Constants
  <2>3. Term(t, log2, Len(log) + 1) = Capacity - Second + 0
    BY <2>1, <2>2 DEF Term
  <2> QED
    BY <1>2, <2>3
<1> QED
  BY <1>1, <1>3, <1>4

\* Refilling in steps loses and gains nothing.
LEMMA ExactRefill ==
  ASSUME now \in Nat, NEW b, BucketOK(b), NEW log \in Seq(Nat), Exact(b, log)
  PROVE  Exact(refill(b), log)
<1>1. b.tokens \in Nat /\ b.last_refill \in Nat
  BY DEF BucketOK, Buckets
<1>2. PICK g \in Int : g = (now - b.last_refill) * MessagesPerSecond
  BY <1>1, Constants
<1>3. PICK c \in Buckets : c = refill(b)
  BY Refilled DEF BucketOK
<1>4. /\ c.last_refill = now /\ b.tokens + g >= b.tokens
      /\ c.tokens = IF b.tokens + g <= Capacity THEN b.tokens + g ELSE Capacity
  BY <1>2, <1>3, Refilled
<1>5. \A i \in 1..Len(log) : /\ Term(b.last_refill, log, i) \in Int
                             /\ Term(now, log, i) = Term(b.last_refill, log, i) + g
  BY <1>1, <1>2, TermMoves
<1>6. c.tokens <= Capacity
  BY <1>1, <1>2, <1>4, Constants
<1>7. ASSUME NEW i \in 1..Len(log)
      PROVE  c.tokens <= Term(now, log, i)
  <2>1. PICK x \in Int : x = Term(b.last_refill, log, i) /\ Term(now, log, i) = x + g
    BY <1>5
  <2>2. b.tokens <= x
    BY <2>1 DEF Exact
  <2>3. c.tokens <= b.tokens + g
    <3>1. b.tokens + g \in Int /\ Capacity \in Int
      BY <1>1, Constants
    <3> QED
      BY <1>4, <3>1
  <2>4. c.tokens \in Nat
    BY DEF Buckets
  <2> QED
    BY <1>1, <1>2, <2>1, <2>2, <2>3, <2>4
<1>8. c.tokens = Capacity \/ \E i \in 1..Len(log) : c.tokens = Term(now, log, i)
  <2>1. CASE b.tokens = Capacity
    BY <1>1, <1>2, <1>4, <2>1, Constants
  <2>2. CASE \E i \in 1..Len(log) : b.tokens = Term(b.last_refill, log, i)
    BY <1>4, <1>5, <2>2
  <2> QED
    BY <2>1, <2>2 DEF Exact
<1> QED
  BY <1>3, <1>4, <1>6, <1>7, <1>8 DEF Exact

\* Taking a token for a message that is logged.
LEMMA ExactTaken ==
  ASSUME now \in Nat, NEW b, BucketOK(b), b.last_refill = now, b.tokens >= Second,
         NEW log \in Seq(Nat), Exact(b, log)
  PROVE  Exact(TakeToken(b), Append(log, now))
<1>1. b.tokens \in Nat /\ Second \in Nat /\ Capacity \in Nat
  BY Constants DEF BucketOK, Buckets
<1>2. PICK c \in Buckets : c = TakeToken(b)
  BY Taken DEF BucketOK
<1>3. c.last_refill = now /\ c.tokens = b.tokens - Second
  BY <1>2, Taken
<1>4. PICK log2 \in Seq(Nat) : log2 = Append(log, now) /\ Len(log2) = Len(log) + 1
  BY Appended
<1>5. /\ \A i \in 1..Len(log) : Term(now, log2, i) = Term(now, log, i) - Second
      /\ \A i \in 1..Len(log) : Term(now, log, i) \in Int
      /\ Term(now, log2, Len(log) + 1) = Capacity - Second
  BY <1>4, TermAppend, TermMoves
<1>6. /\ Len(log) \in Nat
      /\ \A i \in 1..Len(log2) : i \in 1..Len(log) \/ i = Len(log) + 1
      /\ \A i \in 1..Len(log) : i \in 1..Len(log2)
      /\ Len(log) + 1 \in 1..Len(log2)
  BY <1>4
<1>7. b.tokens <= Capacity /\ \A i \in 1..Len(log) : b.tokens <= Term(now, log, i)
  BY DEF Exact
<1>8. \A i \in 1..Len(log2) : c.tokens <= Term(now, log2, i)
  <2>1. \A i \in 1..Len(log) : c.tokens <= Term(now, log2, i)
    BY <1>1, <1>3, <1>5, <1>7
  <2>2. c.tokens <= Term(now, log2, Len(log) + 1)
    BY <1>1, <1>3, <1>5, <1>7
  <2> QED
    BY <1>6, <2>1, <2>2
<1>9. \E i \in 1..Len(log2) : c.tokens = Term(now, log2, i)
  <2>1. CASE b.tokens = Capacity
    BY <1>3, <1>5, <1>6, <2>1
  <2>2. CASE \E i \in 1..Len(log) : b.tokens = Term(now, log, i)
    BY <1>3, <1>5, <1>6, <2>2
  <2> QED
    BY <2>1, <2>2 DEF Exact
<1>10. c.tokens <= Capacity
  BY <1>1, <1>3, <1>7
<1> QED
  BY <1>2, <1>3, <1>4, <1>8, <1>9, <1>10 DEF Exact

LEMMA ExactFull ==
  ASSUME now \in Nat
  PROVE  Exact([tokens |-> Capacity, last_refill |-> now], <<>>)
<1>1. 1..Len(<<>>) = {}
  OBVIOUS
<1> QED
  BY <1>1, Constants DEF Exact, Buckets

\* A message that finds a token keeps the rate.
LEMMA RespectedAppend ==
  ASSUME now \in Nat, NEW log \in Seq(Nat), Respected(log),
         NEW b, Exact(b, log), b.last_refill = now, b.tokens >= Second
  PROVE  Respected(Append(log, now))
<1>1. PICK log2 \in Seq(Nat) :
        /\ log2 = Append(log, now) /\ Len(log2) = Len(log) + 1 /\ log2[Len(log) + 1] = now
        /\ \A i \in 1..Len(log) : log2[i] = log[i]
  BY Appended
<1>2. Len(log) \in Nat /\ b.tokens \in Nat /\ Second \in Nat /\ Capacity \in Nat
  BY Constants DEF Exact, Buckets
<1>3. \A i \in 1..Len(log2) : i \in 1..Len(log) \/ i = Len(log) + 1
  BY <1>1, <1>2
<1>4. ASSUME NEW i \in 1..Len(log)
      PROVE  ((Len(log) + 1) - i + 1) * Second <= Capacity + (now - log[i]) * MessagesPerSecond
  <2>0. Len(log) - i + 1 \in Int /\ (Len(log) - i + 1) + 1 = (Len(log) + 1) - i + 1
    BY <1>2
  <2>1. PICK k \in Int : k = Len(log) - i + 1 /\ k + 1 = (Len(log) + 1) - i + 1
    BY <2>0
  <2>2. (k + 1) * Second = k * Second + Second
    BY <1>2, <2>1
  <2>3. PICK p \in Int, q \in Int : /\ p = k * Second
                                    /\ q = (now - log[i]) * MessagesPerSecond
    <3>1. log[i] \in Nat
      OBVIOUS
    <3>2. k * Second \in Int
      BY <1>2, <2>1, Distributes
    <3>3. now - log[i] \in Int /\ MessagesPerSecond \in Int
      BY <3>1, Constants
    <3>4. (now - log[i]) * MessagesPerSecond \in Int
      BY <3>3, Distributes
    <3> QED
      BY <3>2, <3>4
  <2>4. Term(now, log, i) = Capacity - p + q
    BY <2>1, <2>3 DEF Term
  <2>5. b.tokens <= Term(now, log, i)
    BY DEF Exact
  <2>6. (k + 1) * Second = p + Second
    BY <2>2, <2>3
  <2>7. p + Second <= Capacity + q
    BY <1>2, <2>4, <2>5
  <2> QED
    BY <2>1, <2>3, <2>6, <2>7
<1>5. 1 * Second <= Capacity + (now - now) * MessagesPerSecond
  <2>1. 1 * Second = Second /\ (now - now) * MessagesPerSecond = 0
    BY Constants
  <2>2. Second <= Capacity
    BY <1>2 DEF Exact
  <2> QED
    BY <1>2, <2>1, <2>2
<1>6. ASSUME NEW i \in 1..Len(log2), NEW j \in 1..Len(log2), i <= j
      PROVE  (j - i + 1) * Second <= Capacity + (log2[j] - log2[i]) * MessagesPerSecond
  <2>1. CASE j \in 1..Len(log)
    <3>1. i \in 1..Len(log)
      BY <1>2, <1>6, <2>1
    <3> QED
      BY <1>1, <1>6, <2>1, <3>1 DEF Respected
  <2>2. CASE j = Len(log) + 1 /\ i \in 1..Len(log)
    BY <1>1, <1>4, <2>2
  <2>3. CASE j = Len(log) + 1 /\ i = Len(log) + 1
    <3>1. j - i + 1 = 1
      BY <1>2, <2>3
    <3> QED
      BY <1>1, <1>5, <2>3, <3>1
  <2> QED
    BY <1>3, <2>1, <2>2, <2>3
<1> QED
  BY <1>1, <1>6 DEF Respected

\* Min of the community modules is the least element.
LEMMA ContentExact ==
  ASSUME now \in Nat, NEW log \in Seq(Nat), NEW b, Exact(b, log), b.last_refill = now
  PROVE  Content(log) = b.tokens
<1> DEFINE S == {Capacity} \cup {Term(now, log, i) : i \in 1..Len(log)}
<1>1. b.tokens \in Nat /\ Capacity \in Nat /\ DOMAIN log = 1..Len(log)
  BY Constants DEF Exact, Buckets
<1>2. Content(log) = Min(S)
  BY <1>1 DEF Content, Term
<1>3. b.tokens \in S /\ \A y \in S : b.tokens <= y
  BY DEF Exact
<1>4. \A y \in S : y \in Int
  BY <1>1, TermMoves
<1> HIDE DEF S
<1>5. \A x \in S : (\A y \in S : x <= y) => x = b.tokens
  <2>1. \A x \in Int : x <= b.tokens /\ b.tokens <= x => x = b.tokens
    BY <1>1
  <2> QED
    BY <1>3, <1>4, <2>1
<1>6. Min(S) = b.tokens
  BY <1>3, <1>5 DEF Min
<1> QED
  BY <1>2, <1>6

(***************************************************************************)
(* A registered connection without a bucket has sent nothing yet.  A       *)
(* connection that is gone has no bucket, but its log stays.               *)
(***************************************************************************)
BucketOf(id) ==
  /\ id \in DOMAIN message_buckets => Exact(message_buckets[id], passed[id])
  /\ id \notin DOMAIN message_buckets => passed[id] = <<>>

BucketsInv ==
  Limited(MessagesPerSecond) =>
    /\ \A id \in Ids : Respected(passed[id])
    /\ \A id \in DOMAIN conn_to_ip : BucketOf(id)

\* One message: the check refills the bucket, the record takes a token from it.
LEMMA MessageBucket ==
  ASSUME TypesInv, Limited(MessagesPerSecond), NEW d \in Ids, on_message(d),
         Respected(passed[d]), BucketOf(d)
  PROVE  Respected(passed[d])' /\ BucketOf(d)'
<1>0. /\ now \in Nat /\ Enabled /\ MessagesPerSecond # 0
      /\ \A id \in DOMAIN message_buckets : BucketOK(message_buckets[id])
  BY DEF TypesInv, Limited
<1>1. PICK log \in Seq(Nat) : log = passed[d]
  BY DEF TypesInv
<1>2. PICK b : /\ b = IF d \in DOMAIN message_buckets THEN refill(message_buckets[d])
                      ELSE [tokens |-> Capacity, last_refill |-> now]
  OBVIOUS
<1>3. /\ BucketOK(b) /\ b.last_refill = now /\ Exact(b, log)
      /\ d \notin DOMAIN message_buckets => b.tokens = Capacity
  <2>1. CASE d \in DOMAIN message_buckets
    <3>1. PICK a : a = message_buckets[d] /\ BucketOK(a) /\ Exact(a, log)
      BY <1>0, <1>1, <2>1 DEF BucketOf
    <3> QED
      BY <1>0, <1>2, <2>1, <3>1, Refilled, ExactRefill
  <2>2. CASE d \notin DOMAIN message_buckets
    <3>1. log = <<>>
      BY <1>1, <2>2 DEF BucketOf
    <3> QED
      BY <1>0, <1>2, <2>2, <3>1, FullBucket, ExactFull
  <2> QED
    BY <2>1, <2>2
<1>4. CASE message_buckets' = Checked(d) /\ UNCHANGED passed
  <2>1. DOMAIN message_buckets' = DOMAIN message_buckets /\ passed'[d] = log
    BY <1>1, <1>4, CheckedBuckets
  <2>2. d \in DOMAIN message_buckets => message_buckets'[d] = b
    BY <1>2, <1>4, CheckedBuckets
  <2>3. BucketOf(d)'
    BY <1>1, <1>3, <2>1, <2>2 DEF BucketOf
  <2> QED
    BY <1>4, <2>3
<1>5. CASE /\ TRUE \in check_message_rate(d)
           /\ message_buckets' = record_message(d, Checked(d))
           /\ passed' = [passed EXCEPT ![d] = Append(@, now)]
  <2>1. b.tokens >= Second
    <3>1. CASE d \in DOMAIN message_buckets
      <4>1. Checked(d)[d] = b
        BY <1>2, <3>1, CheckedBuckets
      <4> QED
        BY <1>5, <3>1, <4>1, VerdictOfBucket
    <3>2. CASE d \notin DOMAIN message_buckets
      BY <1>0, <1>3, <3>2, Constants
    <3> QED
      BY <3>1, <3>2
  <2>2. PICK c, log2 : c = TakeToken(b) /\ log2 = Append(log, now)
    OBVIOUS
  <2>3. Exact(c, log2) /\ Respected(log2)
    BY <1>0, <1>1, <1>3, <2>1, <2>2, ExactTaken, RespectedAppend
  <2>4. d \in DOMAIN message_buckets' /\ message_buckets'[d] = c
    BY <1>0, <1>2, <1>5, <2>2, RecordedBuckets
  <2>5. passed'[d] = log2
    BY <1>1, <1>5, <2>2 DEF TypesInv
  <2> QED
    BY <2>3, <2>4, <2>5 DEF BucketOf
<1> QED
  BY <1>4, <1>5, MessageMoves

\* It leaves the other connections alone.
LEMMA OtherBuckets ==
  ASSUME TypesInv, NEW d \in Ids, on_message(d), NEW id \in Ids, id # d
  PROVE  /\ id \in DOMAIN message_buckets' <=> id \in DOMAIN message_buckets
         /\ id \in DOMAIN message_buckets => message_buckets'[id] = message_buckets[id]
         /\ passed'[id] = passed[id]
<1>1. \/ message_buckets' = Checked(d)
      \/ message_buckets' = record_message(d, Checked(d))
  BY MessageMoves
<1>2. passed'[id] = passed[id]
  BY MessageMoves DEF TypesInv
<1>3. CASE message_buckets' = Checked(d)
  BY <1>2, <1>3, CheckedBuckets
<1>4. CASE message_buckets' = record_message(d, Checked(d)) /\ Enabled
  BY <1>2, <1>4, RecordedBuckets
<1>5. CASE message_buckets' = record_message(d, Checked(d)) /\ ~Enabled
  BY <1>2, <1>3, <1>5, RecordedBuckets
<1> QED
  BY <1>1, <1>3, <1>4, <1>5

LEMMA BucketsStep ==
  ASSUME TypesInv, CountersInv, BucketsInv, [Next]_vars
  PROVE  BucketsInv'
<1> SUFFICES ASSUME Limited(MessagesPerSecond)
             PROVE  /\ (\A id \in Ids : Respected(passed[id]))'
                    /\ (\A id \in DOMAIN conn_to_ip : BucketOf(id))'
  BY DEF BucketsInv, Limited
<1>0. /\ \A id \in Ids : Respected(passed[id])
      /\ \A id \in DOMAIN conn_to_ip : BucketOf(id)
      /\ Registered /\ DOMAIN conn_to_ip \subseteq Ids
      /\ DOMAIN message_buckets \subseteq DOMAIN conn_to_ip
  BY DEF BucketsInv, TypesInv, Registered, CountersInv
<1>1. CASE UNCHANGED <<next_conn_id, conn_to_ip, passed, message_buckets>>
  BY <1>0, <1>1 DEF Ids, BucketOf
<1>2. ASSUME NEW ip \in Ips, on_hello(ip), register_connection(ip)
      PROVE  /\ (\A id \in Ids : Respected(passed[id]))'
             /\ (\A id \in DOMAIN conn_to_ip : BucketOf(id))'
  <2>1. PICK n : n = next_conn_id
    OBVIOUS
  <2>2. /\ n \notin DOMAIN conn_to_ip /\ DOMAIN conn_to_ip' = DOMAIN conn_to_ip \cup {n}
        /\ Ids' = Ids \cup {n} /\ passed'[n] = <<>>
        /\ \A id \in Ids : passed'[id] = passed[id]
    BY <1>0, <1>2, <2>1, Registers
  <2>3. UNCHANGED message_buckets
    BY <1>2 DEF on_hello
  <2>4. Respected(<<>>)
    <3>1. 1..Len(<<>>) = {}
      OBVIOUS
    <3> QED
      BY <3>1 DEF Respected
  <2>5. \A id \in Ids' : Respected(passed'[id])
    BY <1>0, <2>2, <2>4
  <2>6. \A id \in DOMAIN conn_to_ip : BucketOf(id)'
    BY <1>0, <2>2, <2>3 DEF BucketOf
  <2>7. BucketOf(n)'
    BY <1>0, <2>2, <2>3 DEF BucketOf
  <2> QED
    BY <2>2, <2>5, <2>6, <2>7
<1>3. ASSUME NEW d \in Ids, unregister_connection(d)
      PROVE  /\ (\A id \in Ids : Respected(passed[id]))'
             /\ (\A id \in DOMAIN conn_to_ip : BucketOf(id))'
  <2>1. /\ DOMAIN conn_to_ip' = DOMAIN conn_to_ip \ {d}
        /\ DOMAIN message_buckets' = DOMAIN message_buckets \ {d}
        /\ \A id \in DOMAIN message_buckets' : message_buckets'[id] = message_buckets[id]
        /\ UNCHANGED passed /\ Ids' = Ids
    BY <1>0, <1>3, Leaves
  <2> QED
    BY <1>0, <2>1 DEF BucketOf
<1>4. ASSUME NEW d \in Ids, on_message(d)
      PROVE  /\ (\A id \in Ids : Respected(passed[id]))'
             /\ (\A id \in DOMAIN conn_to_ip : BucketOf(id))'
  <2>1. d \in DOMAIN conn_to_ip /\ UNCHANGED <<next_conn_id, conn_to_ip>>
    BY <1>4 DEF on_message
  <2>2. Ids' = Ids
    BY <2>1 DEF Ids
  <2>3. Respected(passed[d])' /\ BucketOf(d)'
    BY <1>0, <1>4, <2>1, MessageBucket
  <2>4. ASSUME NEW id \in Ids, id # d
        PROVE  /\ Respected(passed[id])'
               /\ id \in DOMAIN conn_to_ip => BucketOf(id)'
    <3>1. /\ id \in DOMAIN message_buckets' <=> id \in DOMAIN message_buckets
          /\ id \in DOMAIN message_buckets => message_buckets'[id] = message_buckets[id]
          /\ passed'[id] = passed[id]
      BY <1>4, <2>4, OtherBuckets
    <3> QED
      BY <1>0, <3>1 DEF BucketOf
  <2> QED
    BY <1>0, <2>1, <2>2, <2>3, <2>4
<1> QED
  BY <1>1, <1>2, <1>3, <1>4, RegisteredSteps

LEMMA BucketsCorrect == Spec => [](TypesInv /\ CountersInv /\ BucketsInv)
<1>1. Init => BucketsInv
  <2> SUFFICES ASSUME Init PROVE BucketsInv
    OBVIOUS
  <2>1. Ids = {} /\ DOMAIN conn_to_ip = {}
    BY DEF Init, Ids
  <2> QED
    BY <2>1 DEF BucketsInv
<1>2. TypesInv /\ CountersInv /\ BucketsInv /\ [Next]_vars
        => (TypesInv /\ CountersInv /\ BucketsInv)'
  BY TypesStep, CountersStep, BucketsStep
<1> QED
  BY <1>1, <1>2, TypesInit, CountersInit, PTL DEF Spec

(***************************************************************************)
(* In no interval are more messages of a connection let through than the   *)
(* burst and what the rate adds during the interval: check_message_rate    *)
(* and record_message, which refill twice and at every packet.             *)
(***************************************************************************)
THEOREM RateRespectedHolds == Spec => []RateRespected
<1>1. TypesInv /\ BucketsInv => RateRespected
  <2> SUFFICES ASSUME TypesInv, BucketsInv, Limited(MessagesPerSecond), NEW id \in Ids,
                      NEW i \in DOMAIN passed[id], NEW j \in DOMAIN passed[id], i <= j
               PROVE  (j - i + 1) * Second
                        <= Capacity + (passed[id][j] - passed[id][i]) * MessagesPerSecond
    BY DEF RateRespected
  <2>1. passed[id] \in Seq(Nat) /\ Respected(passed[id])
    BY DEF TypesInv, BucketsInv
  <2>2. DOMAIN passed[id] = 1..Len(passed[id])
    BY <2>1
  <2> QED
    BY <2>1, <2>2 DEF Respected
<1> QED
  BY <1>1, BucketsCorrect, PTL

(***************************************************************************)
(* check_message_rate lets a message of a registered connection through    *)
(* only when a bucket that is filled all the time holds a token, and       *)
(* refuses one only when that bucket holds no more than one; where it      *)
(* holds exactly one, the rounding of the doubles decides.                 *)
(***************************************************************************)
THEOREM VerdictFitsBucketHolds == Spec => []VerdictFitsBucket
<1>1. TypesInv /\ BucketsInv => VerdictFitsBucket
  <2> SUFFICES ASSUME TypesInv, BucketsInv, Limited(MessagesPerSecond),
                      NEW id \in DOMAIN conn_to_ip
               PROVE  /\ check_message_rate(id) # {}
                      /\ TRUE \in check_message_rate(id) => Content(passed[id]) >= Second
                      /\ FALSE \in check_message_rate(id) => Content(passed[id]) <= Second
    BY DEF VerdictFitsBucket
  <2>1. /\ now \in Nat /\ passed[id] \in Seq(Nat) /\ BucketOf(id) /\ MessagesPerSecond # 0
    BY DEF TypesInv, BucketsInv, Limited
  <2>2. CASE id \in DOMAIN message_buckets
    <3>1. PICK a : a = message_buckets[id] /\ BucketOK(a) /\ Exact(a, passed[id])
      BY <2>1, <2>2 DEF BucketOf, TypesInv
    <3>2. PICK b : b = refill(a)
      OBVIOUS
    <3>3. b.last_refill = now /\ Exact(b, passed[id])
      BY <2>1, <3>1, <3>2, Refilled, ExactRefill
    <3>4. Content(passed[id]) = b.tokens
      BY <2>1, <3>3, ContentExact
    <3>5. Checked(id)[id] = b
      BY <2>2, <3>1, <3>2, CheckedBuckets
    <3>6. /\ TRUE \in check_message_rate(id) <=> b.tokens >= Second
          /\ FALSE \in check_message_rate(id) <=> b.tokens <= Second
      BY <2>2, <3>5, VerdictOfBucket
    <3>7. b.tokens >= Second \/ b.tokens <= Second
      BY <3>3, Constants DEF Exact, Buckets
    <3> QED
      BY <3>4, <3>6, <3>7
  <2>3. CASE id \notin DOMAIN message_buckets
    <3>1. PICK b : b = [tokens |-> Capacity, last_refill |-> now]
      OBVIOUS
    <3>2. Exact(b, passed[id]) /\ b.last_refill = now /\ b.tokens = Capacity
      BY <2>1, <2>3, <3>1, ExactFull DEF BucketOf
    <3>3. Content(passed[id]) = Capacity
      BY <2>1, <3>2, ContentExact
    <3>4. check_message_rate(id) = {TRUE}
      BY <2>3 DEF check_message_rate
    <3> QED
      BY <2>1, <3>3, <3>4, Constants
  <2> QED
    BY <2>2, <2>3
<1> QED
  BY <1>1, BucketsCorrect, PTL
=============================================================================
