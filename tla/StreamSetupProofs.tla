---------------------------- MODULE StreamSetupProofs ---------------------------
(***************************************************************************)
(* Proofs about StreamSetup and the arithmetic of StreamMath, for any      *)
(* routes, hashes, devices, links and cards.                               *)
(***************************************************************************)
EXTENDS StreamSetup, SequenceTheorems, WellFoundedInduction, TLAPS

Role == {"source", "repair", "control"}

\* The endpoints that may be left to bind, in the order they are bound.
Remaining(fec) ==
  IF fec THEN {Roles, <<"repair", "control">>, <<"control">>, <<>>}
         ELSE {<<"source", "control">>, <<"control">>, <<>>}

-----------------------------------------------------------------------------
(* Lemmas about the operators                                              *)

\* A set of numbers has a least one.
LEMMA LeastExists ==
  ASSUME NEW S \in SUBSET Nat, S # {}
  PROVE  \E k \in S : \A j \in S : k <= j
<1> DEFINE R == OpToRel(<, Nat)
<1>1. IsWellFoundedOn(R, Nat)
  BY NatLessThanWellFounded
<1>2. PICK k \in S : \A j \in S : <<j, k>> \notin R
  <2> HIDE DEF R
  <2> QED BY <1>1, WFMin
<1>3. ASSUME NEW j \in S PROVE k <= j
  <2>1. j \in Nat /\ k \in Nat
    OBVIOUS
  <2>2. ~(j < k)
    BY <1>2, <2>1 DEF OpToRel
  <2> QED BY <2>1, <2>2
<1> QED BY <1>3

LEMMA ToSetAppend ==
  ASSUME NEW S, NEW q \in Seq(S), NEW x \in S
  PROVE  /\ Append(q, x) \in Seq(S)
         /\ ToSet(Append(q, x)) = ToSet(q) \cup {x}
         /\ IsInjective(q) /\ x \notin ToSet(q) => IsInjective(Append(q, x))
<1> DEFINE n == Len(q)
           a == Append(q, x)
<1>1. n \in Nat /\ DOMAIN q = 1..n
  BY LenProperties
<1>2. a \in Seq(S) /\ DOMAIN a = 1..n + 1 /\ a[n + 1] = x /\ \A i \in 1..n : a[i] = q[i]
  <2>1. a \in Seq(S) /\ Len(a) = n + 1 /\ a[n + 1] = x /\ \A i \in 1..n : a[i] = q[i]
    BY AppendProperties
  <2> QED BY <2>1, LenProperties
<1> HIDE DEF a, n
<1>3. 1..n + 1 = (1..n) \cup {n + 1}
  BY <1>1
<1>4. ToSet(a) = ToSet(q) \cup {x}
  BY <1>1, <1>2, <1>3 DEF ToSet
<1>5. ASSUME IsInjective(q), x \notin ToSet(q) PROVE IsInjective(a)
  <2>1. \A i \in 1..n : a[i] # x
    BY <1>1, <1>2, <1>5 DEF ToSet
  <2>2. \A i, j \in 1..n : a[i] = a[j] => i = j
    BY <1>1, <1>2, <1>5 DEF IsInjective
  <2> QED BY <1>1, <1>2, <1>3, <2>1, <2>2 DEF IsInjective
<1> QED BY <1>2, <1>4, <1>5 DEF a

Pairs == Nat \X Nat

LEMMA EnsureIs ==
  ASSUME NEW known \in Seq(Pairs), NEW s, Tuple(s) \in Pairs, IsInjective(known)
  PROVE  /\ Ensure(known, s) \in Seq(Pairs) /\ IsInjective(Ensure(known, s))
         /\ ToSet(Ensure(known, s)) = ToSet(known) \cup {Tuple(s)}
BY ToSetAppend DEF Ensure

\* The id of a tuple that is known, and that no other known tuple has, means
\* that tuple.
LEMMA MeaningIs ==
  ASSUME NEW known \in Seq(Pairs), NEW t \in ToSet(known),
         \A u \in ToSet(known) : u # t => EncodingId(u[1], u[2]) # EncodingId(t[1], t[2])
  PROVE  Meaning(known, EncodingId(t[1], t[2])) = t
<1> DEFINE named == {i \in DOMAIN known : EncodingId(known[i][1], known[i][2]) = EncodingId(t[1], t[2])}
           first == CHOOSE i \in named : \A j \in named : i <= j
<1>1. \A i \in DOMAIN known : known[i] \in ToSet(known)
  BY DEF ToSet
<1>2. PICK i \in DOMAIN known : known[i] = t
  BY DEF ToSet
<1>3. i \in named
  BY <1>2
<1>4. named \in SUBSET Nat
  <2>1. DOMAIN known = 1..Len(known) /\ Len(known) \in Nat
    BY LenProperties
  <2> QED BY <2>1
<1>5. \A j \in named : known[j] = t
  BY <1>1
<1>6. first \in named
  <2> HIDE DEF named
  <2>1. \E j \in named : \A k \in named : j <= k
    BY <1>3, <1>4, LeastExists
  <2> QED BY <2>1
<1>7. Meaning(known, EncodingId(t[1], t[2])) = known[first]
  BY <1>3 DEF Meaning
<1> HIDE DEF first
<1> QED BY <1>5, <1>6, <1>7

LEMMA RolesAre ==
  ASSUME NEW fec \in BOOLEAN
  PROVE  /\ Endpoints(fec) \in Remaining(fec) /\ Endpoints(fec) # <<>>
         /\ ToSet(Endpoints(fec)) \subseteq Role /\ ToSet(<<>>) = {}
BY DEF Endpoints, Remaining, Roles, ToSet, Role

LEMMA SuffixIs ==
  ASSUME NEW fec \in BOOLEAN, NEW left \in Remaining(fec), left # <<>>
  PROVE  /\ Head(left) \in ToSet(left) /\ ToSet(left) \subseteq ToSet(Endpoints(fec))
         /\ Tail(left) \in Remaining(fec)
         /\ ToSet(Tail(left)) = ToSet(left) \ {Head(left)}
         /\ Len(left) = 1 <=> Tail(left) = <<>>
<1>1. CASE left = <<"source", "repair", "control">>
  BY <1>1 DEF Endpoints, Remaining, Roles, ToSet
<1>2. CASE left = <<"repair", "control">>
  BY <1>2 DEF Endpoints, Remaining, Roles, ToSet
<1>3. CASE left = <<"source", "control">>
  BY <1>3 DEF Endpoints, Remaining, Roles, ToSet
<1>4. CASE left = <<"control">>
  BY <1>4 DEF Endpoints, Remaining, Roles, ToSet
<1> QED BY <1>1, <1>2, <1>3, <1>4 DEF Remaining, Roles

\* The format picked is one there is, and drops no bits that another format
\* would have kept, beyond the 24 that are enough.
LEMMA PickIs ==
  ASSUME NEW wanted \in Formats, NEW supported \in SUBSET Formats,
         PickFormat(wanted, supported) # NoFormat
  PROVE  /\ PickFormat(wanted, supported) \in supported
         /\ \A f \in supported :
              Resolution(PickFormat(wanted, supported)) >=
                AtMost(AtMost(Resolution(f), Resolution(wanted)), 24)
<1> DEFINE usable == {i \in 1..5 : FallbackFormats[i] \in supported}
           first  == CHOOSE i \in usable : \A j \in usable : i <= j
<1>1. \A f \in Formats : Resolution(f) \in {16, 24, 32}
  BY DEF Formats, Resolution
<1>2. CASE wanted \in supported
  BY <1>1, <1>2 DEF PickFormat, AtMost
<1>3. CASE wanted \notin supported
  <2>1. usable # {} /\ PickFormat(wanted, supported) = FallbackFormats[first]
    BY <1>3 DEF PickFormat
  <2>2. first \in usable /\ \A j \in usable : first <= j
    <3>1. usable \in SUBSET Nat
      OBVIOUS
    <3> HIDE DEF usable
    <3>2. \E i \in usable : \A j \in usable : i <= j
      BY <2>1, <3>1, LeastExists
    <3> QED BY <3>2
  <2> HIDE DEF first
  <2>3. PickFormat(wanted, supported) \in supported
    BY <2>1, <2>2
  <2>4. first # 5 => Resolution(FallbackFormats[first]) >= 24
    <3>1. first \in {1, 2, 3, 4, 5}
      BY <2>2
    <3> QED BY <3>1 DEF FallbackFormats, Resolution
  <2>5. CASE first # 5
    BY <1>1, <2>1, <2>3, <2>4, <2>5 DEF AtMost
  <2>6. CASE first = 5
    <3>1. \A i \in 1..4 : FallbackFormats[i] \notin supported
      BY <2>2, <2>6
    <3>2. \A f \in supported : f = "S16Le"
      BY <3>1 DEF FallbackFormats, Formats
    <3>3. Resolution("S16Le") = 16
      BY DEF Resolution
    <3> QED BY <1>1, <2>1, <2>3, <3>2, <3>3 DEF AtMost
  <2> QED BY <2>5, <2>6
<1> QED BY <1>2, <1>3

\* Below the end of the port range nothing saturates and nothing wraps.
LEMMA PortIs ==
  ASSUME NEW base \in Nat, base + 3002 < U16,
         NEW h \in Nat, NEW x \in Role
  PROVE  PortOf(RoutePort(base, h), x) = base + 3 + (h % 1000) * 3 + RoleOffset(x)
<1>0. PICK i \in Nat : i = h % 1000 /\ i <= 999
  OBVIOUS
<1>1. RoutePort(base, h) = base + 3 + i * 3
  BY <1>0 DEF RoutePort, AtMost, U16
<1>2. PICK a \in Nat : a = RoleOffset(x) /\ a <= 2
  BY DEF RoleOffset, Role
<1>3. PICK n \in Nat : n = base + 3 + i * 3 + a
  OBVIOUS
<1>4. n <= 65535
  BY <1>0, <1>2, <1>3 DEF U16
<1>5. n % 65536 = n
  BY <1>4
<1> QED BY <1>0, <1>1, <1>2, <1>3, <1>5 DEF PortOf, U16

\* As long as the base leaves room for a thousand windows below the end of the
\* port range, two routes meet on a port only if their hashes pick the same
\* window, and then only at the same role (routing.rs 216-252).
THEOREM WindowsApart ==
  ASSUME NEW base \in Nat, base + 3002 < U16,
         NEW h \in Nat, NEW g \in Nat,
         NEW x \in Role, NEW y \in Role
  PROVE  PortOf(RoutePort(base, h), x) = PortOf(RoutePort(base, g), y)
           => h % 1000 = g % 1000 /\ x = y
<1>0. SUFFICES ASSUME PortOf(RoutePort(base, h), x) = PortOf(RoutePort(base, g), y)
               PROVE  h % 1000 = g % 1000 /\ x = y
  OBVIOUS
<1>1. PICK i \in Nat : i = h % 1000 /\ i <= 999
  OBVIOUS
<1>2. PICK j \in Nat : j = g % 1000 /\ j <= 999
  OBVIOUS
<1>3. PICK a \in Nat : a = RoleOffset(x) /\ a <= 2
  BY DEF RoleOffset, Role
<1>4. PICK b \in Nat : b = RoleOffset(y) /\ b <= 2
  BY DEF RoleOffset, Role
<1>5. base + 3 + i * 3 + a = base + 3 + j * 3 + b
  <2>1. PICK p \in Nat : p = PortOf(RoutePort(base, h), x) /\ p = base + 3 + i * 3 + a
    BY <1>1, <1>3, PortIs
  <2>2. PICK q \in Nat : q = PortOf(RoutePort(base, g), y) /\ q = base + 3 + j * 3 + b
    BY <1>2, <1>4, PortIs
  <2>3. p = q
    BY <1>0, <2>1, <2>2
  <2> QED BY <2>1, <2>2, <2>3
<1>6. i = j /\ a = b
  BY <1>1, <1>2, <1>3, <1>4, <1>5
<1>7. x = y
  BY <1>3, <1>4, <1>6 DEF RoleOffset, Role
<1> QED BY <1>1, <1>2, <1>6, <1>7

\* An encoding's id is one roc takes for a custom encoding, whatever the rate
\* and however many channels (transport/mod.rs 162-177).
THEOREM IdsInRange ==
  ASSUME NEW rate \in Nat, NEW channels \in Nat
  PROVE  EncodingId(rate, channels) \in 100..126
<1>1. RateIndex(rate) \in 0..4
  BY DEF RateIndex
<1>2. AtLeast(AtMost(channels, 32), 1) \in 1..32
  BY DEF AtLeast, AtMost
<1> QED BY <1>1, <1>2 DEF EncodingId

\* Halvings of a power of two are powers of two.
LEMMA Halvings ==
  ASSUME NEW n \in 0..MaxHalvings, NEW k \in 0..n
  PROVE  2^n \in Nat \ {0} /\ 2^k \in Nat \ {0} /\ 2^(n - k) \in Nat \ {0} /\ 2^n = 2^(n - k) * 2^k
<1> DEFINE e == [i \in 0..20 |-> 2^i]
<1>1. /\ e[0] = 1 /\ e[1] = 2 /\ e[2] = 4 /\ e[3] = 8 /\ e[4] = 16 /\ e[5] = 32 /\ e[6] = 64
      /\ e[7] = 128 /\ e[8] = 256 /\ e[9] = 512 /\ e[10] = 1024 /\ e[11] = 2048 /\ e[12] = 4096
      /\ e[13] = 8192 /\ e[14] = 16384 /\ e[15] = 32768 /\ e[16] = 65536
      /\ e[17] = 131072 /\ e[18] = 262144 /\ e[19] = 524288 /\ e[20] = 1048576
  OBVIOUS
<1>2. e[n] = 2^n /\ e[k] = 2^k /\ e[n - k] = 2^(n - k)
  BY DEF MaxHalvings
<1> HIDE DEF e
<1>3. \A i \in 0..20 : e[i] \in Nat \ {0} /\ (i # 20 => e[i + 1] = 2 * e[i])
  BY <1>1
<1>4. \A j \in 0..n : e[n] = e[n - j] * e[j]
  <2> DEFINE S == {j \in 0..n : e[n] # e[n - j] * e[j]}
  <2> SUFFICES ASSUME S # {} PROVE FALSE
    OBVIOUS
  <2>1. S \in SUBSET Nat
    OBVIOUS
  <2>2. PICK j \in S : \A i \in S : j <= i
    <3> HIDE DEF S
    <3> QED BY <2>1, LeastExists
  <2>3. j \in 0..n /\ n \in 0..20 /\ e[n] # e[n - j] * e[j]
    BY DEF MaxHalvings
  <2>4. j # 0
    <3>1. e[0] = 1 /\ e[n] \in Nat /\ n - 0 = n
      BY <1>1, <1>3, <2>3
    <3> QED BY <2>3, <3>1
  <2>5. e[n] = e[n - (j - 1)] * e[j - 1]
    <3>1. j - 1 \in 0..n /\ j - 1 < j
      BY <2>3, <2>4
    <3> QED BY <2>2, <2>3, <3>1
  <2>6. e[j] = 2 * e[j - 1] /\ e[n - (j - 1)] = 2 * e[n - j]
    <3>1. (j - 1) \in 0..20 /\ j - 1 # 20 /\ (j - 1) + 1 = j
      BY <2>3, <2>4
    <3>2. (n - j) \in 0..20 /\ n - j # 20 /\ (n - j) + 1 = n - (j - 1)
      BY <2>3, <2>4
    <3> QED BY <1>3, <3>1, <3>2
  <2>7. e[j - 1] \in Nat /\ e[n - j] \in Nat
    <3>1. (j - 1) \in 0..20 /\ (n - j) \in 0..20
      BY <2>3, <2>4
    <3> QED BY <1>3, <3>1
  <2>8. e[n] = e[n - j] * e[j]
    <3>1. \A a, b \in Nat : (2 * a) * b = a * (2 * b)
      OBVIOUS
    <3> QED BY <2>5, <2>6, <2>7, <3>1
  <2> QED BY <2>3, <2>8
<1>5. n \in 0..20 /\ k \in 0..20 /\ n - k \in 0..20
  BY DEF MaxHalvings
<1> QED BY <1>2, <1>3, <1>4, <1>5

\* Periods are powers of two, as sender.rs says of them: the packets of a
\* period are all of one length, and that fits the cap if more than one frame
\* goes into them (sender.rs 158-191).
LEMMA FramesAre ==
  ASSUME NEW n \in 0..MaxHalvings, NEW channels \in Nat, NEW cap \in Nat
  PROVE  LET frames == FramesPerPacket(2^n, channels, cap)
         IN  /\ frames \in Nat \ {0} /\ frames <= 2^n /\ (2^n) % frames = 0
             /\ frames = 1 \/ frames * AtLeast(channels, 1) * WireBytes <= cap
<1> DEFINE halved(k) == AtLeast(2^n, 1) \div 2^k
           small(k)  == halved(k) = 1 \/ halved(k) * AtLeast(channels, 1) * WireBytes <= cap
           S == {k \in 0..MaxHalvings : small(k)}
           found == CHOOSE k \in 0..MaxHalvings : small(k) /\ \A j \in 0..k - 1 : ~small(j)
<1>1. \A k \in 0..n : halved(k) = 2^(n - k)
  <2> SUFFICES ASSUME NEW k \in 0..n PROVE halved(k) = 2^(n - k)
    OBVIOUS
  <2>1. PICK a \in Nat \ {0}, b \in Nat \ {0}, c \in Nat \ {0} :
          a = 2^n /\ b = 2^k /\ c = 2^(n - k) /\ a = c * b
    BY Halvings
  <2>2. AtLeast(a, 1) = a
    BY DEF AtLeast
  <2>3. (c * b) \div b = c
    OBVIOUS
  <2> QED BY <2>1, <2>2, <2>3
<1>2. n \in S
  <2>1. halved(n) = 1
    <3>1. n \in 0..n /\ n - n = 0 /\ 2^0 = 1
      OBVIOUS
    <3> HIDE DEF halved
    <3>2. halved(n) = 2^(n - n)
      BY <1>1, <3>1
    <3> QED BY <3>1, <3>2
  <2> QED BY <2>1
<1>3. /\ found \in 0..MaxHalvings /\ small(found)
      /\ \A j \in 0..found - 1 : ~small(j)
  <2>1. PICK k \in S : \A j \in S : k <= j
    <3>1. S \in SUBSET Nat
      OBVIOUS
    <3> HIDE DEF S
    <3> QED BY <1>2, <3>1, LeastExists
  <2>2. \A j \in 0..k - 1 : ~small(j)
    <3> HIDE DEF small
    <3>1. k \in 0..20
      BY DEF MaxHalvings
    <3>2. \A j \in 0..k - 1 : j \in 0..MaxHalvings /\ ~(k <= j)
      BY <3>1 DEF MaxHalvings
    <3> QED BY <2>1, <3>2
  <2> HIDE DEF small
  <2> QED BY <2>1, <2>2
<1>4. FramesPerPacket(2^n, channels, cap) = halved(found)
  BY DEF FramesPerPacket
<1> HIDE DEF found
<1>5. found \in 0..n
  <2> HIDE DEF small
  <2> QED BY <1>2, <1>3
<1>6. PICK a \in Nat \ {0}, b \in Nat \ {0}, c \in Nat \ {0} :
        a = 2^n /\ b = 2^found /\ c = 2^(n - found) /\ a = c * b
  BY <1>5, Halvings
<1>7. halved(found) = c
  BY <1>1, <1>5, <1>6
<1>8. c <= c * b /\ (c * b) % c = 0
  OBVIOUS
<1>9. c = 1 \/ c * AtLeast(channels, 1) * WireBytes <= cap
  BY <1>3, <1>7
<1> QED BY <1>4, <1>6, <1>7, <1>8, <1>9

LEMMA PlaybackDepthIs ==
  ASSUME NEW buffer \in Nat \ {0}, NEW period \in Nat, NEW wish \in Nat,
         NEW write, write = AtLeast(period, 1)
  PROVE  PlaybackDepth(buffer, period, wish) =
           LET depth == AtLeast(AtMost(wish, AtLeast(buffer \div write, 2)), 2)
           IN  [depth |-> depth, start |-> AtMost(depth * write, buffer),
                availMin |-> AtLeast(buffer - (depth - 1) * write, 1)]
BY SMT DEF PlaybackDepth

\* Whatever the device's buffer, the period and the depth asked for: the device
\* gets to start, and whenever less is queued than it takes to start, there is
\* room enough to wake the thread (pcm.rs 160-186).
THEOREM PlaybackWakes ==
  ASSUME NEW buffer \in Nat \ {0}, NEW period \in Nat, NEW wish \in Nat,
         NEW k \in Nat
  PROVE  LET q == PlaybackDepth(buffer, period, wish)
         IN  /\ q.start \in 1..buffer
             /\ q.availMin \in 1..buffer
             /\ k * period < q.start => buffer - k * period >= q.availMin
<1>0. PICK write \in Nat \ {0} : write = AtLeast(period, 1) /\ (period # 0 => write = period)
  BY DEF AtLeast
<1> DEFINE room  == buffer \div write
           depth == AtLeast(AtMost(wish, AtLeast(room, 2)), 2)
           start == AtMost(depth * write, buffer)
           need  == AtLeast(buffer - (depth - 1) * write, 1)
<1>1. room \in Nat
  BY <1>0
<1>2. depth \in Nat /\ depth >= 2
  <2> HIDE DEF room
  <2> QED BY <1>1 DEF AtLeast, AtMost
<1>3. PlaybackDepth(buffer, period, wish) = [depth |-> depth, start |-> start, availMin |-> need]
  BY <1>0, PlaybackDepthIs
<1> HIDE DEF depth
<1>4. depth * write \in Nat /\ (depth - 1) * write \in Nat /\ k * period \in Nat
  BY <1>0, <1>2
<1>5. depth * write >= 1 /\ (depth - 1) * write >= 1
  <2>1. \A a, b \in Nat \ {0} : a * b >= 1
    OBVIOUS
  <2>2. depth \in Nat \ {0} /\ depth - 1 \in Nat \ {0}
    BY <1>2
  <2> QED BY <1>0, <2>1, <2>2
<1>6. start \in 1..buffer /\ start <= depth * write
  BY <1>4, <1>5 DEF AtMost
<1>7. need \in 1..buffer
  BY <1>4, <1>5 DEF AtLeast
<1>8. ASSUME k * period < start PROVE buffer - k * period >= need
  <2>1. CASE period = 0
    <3>1. k * period = 0
      BY <2>1
    <3> QED BY <1>7, <3>1
  <2>2. CASE period # 0
    <3>0. write = period /\ k * write \in Nat /\ k * write < start
      BY <1>0, <1>4, <1>8, <2>2
    <3>1. k * write < depth * write
      BY <1>4, <1>6, <3>0
    <3>2. k <= depth - 1
      <4>1. \A a, b \in Nat, c \in Nat \ {0} : a * c < b * c => a <= b - 1
        OBVIOUS
      <4> QED BY <1>0, <1>2, <3>1, <4>1
    <3>3. k * write <= (depth - 1) * write
      <4>1. \A a, b, c \in Nat : a <= b => a * c <= b * c
        OBVIOUS
      <4> QED BY <1>0, <1>2, <3>2, <4>1
    <3> QED BY <1>4, <1>6, <3>0, <3>3 DEF AtLeast
  <2> QED BY <2>1, <2>2
<1> QED BY <1>3, <1>6, <1>7, <1>8

-----------------------------------------------------------------------------
(* The signal                                                              *)

\* The quotient and the remainder of a number that is written as one.
LEMMA DivMod ==
  ASSUME NEW n \in Nat \ {0}, NEW a \in Nat, NEW b \in 0..n - 1
  PROVE  (a * n + b) \div n = a /\ (a * n + b) % n = b
<1> DEFINE x == a * n + b
           q == x \div n
<1>1. x \in Int /\ q \in Int /\ x % n \in 0..n - 1 /\ x = n * q + (x % n)
  OBVIOUS
<1>2. q = a
  <2> HIDE DEF q
  <2>1. CASE q < a
    <3>1. n * q + n <= n * a
      <4>1. n * (q + 1) <= n * a
        BY <1>1, <2>1
      <4> QED BY <1>1, <4>1
    <3> QED BY <1>1, <3>1
  <2>2. CASE q > a
    <3>1. n * a + n <= n * q
      <4>1. n * (a + 1) <= n * q
        BY <1>1, <2>2
      <4> QED BY <1>1, <4>1
    <3> QED BY <1>1, <3>1
  <2> QED BY <1>1, <2>1, <2>2
<1> QED BY <1>1, <1>2

\* Powers with the exponents the packing computes.
LEMMA Powers ==
  /\ 256^(1 - 1) = 1 /\ 256^(2 - 1) = 256 /\ 256^(3 - 1) = 65536 /\ 256^(4 - 1) = 16777216
  /\ 2^(16 - 1) = 32768 /\ 2^16 = 65536 /\ 2^(24 - 1) = 8388608 /\ 2^24 = 16777216
  /\ 2^(8 - 1) = 128 /\ 2^8 = 256
<1>1. 256^(1 - 1) = 256^0 /\ 256^(2 - 1) = 256^1 /\ 256^(3 - 1) = 256^2 /\ 256^(4 - 1) = 256^3
  OBVIOUS
<1>2. 2^(16 - 1) = 2^15 /\ 2^(24 - 1) = 2^23 /\ 2^(8 - 1) = 2^7
  OBVIOUS
<1>3. 256^0 = 1 /\ 256^1 = 256 /\ 256^2 = 65536 /\ 256^3 = 16777216
  OBVIOUS
<1>4. 2^15 = 32768 /\ 2^16 = 65536 /\ 2^23 = 8388608 /\ 2^24 = 16777216 /\ 2^7 = 128 /\ 2^8 = 256
  OBVIOUS
<1> QED BY <1>1, <1>2, <1>3, <1>4, SMT

\* The k-th byte of a number, from the lowest on.
Byte(v, k) == (v \div 256^(k - 1)) % 256

\* The highest byte of a number in the range of its width is its sign.
LEMMA HighByte ==
  ASSUME NEW v \in Int, NEW q \in -128..127, v < 0 <=> q < 0
  PROVE  q % 256 = IF v < 0 THEN q + 256 ELSE q
BY SMT

\* The bytes of a number in the range of its width are the number again.
LEMMA TwoBytes ==
  ASSUME NEW v \in Int, -32768 <= v, v <= 32767
  PROVE  Signed(Byte(v, 1) + 256 * Byte(v, 2), 16) = v
<1> DEFINE q    == v \div 256
           raw  == (v % 256) + 256 * (q % 256)
<1>1. q \in -128..127 /\ (v < 0 <=> q < 0) /\ v = (v % 256) + 256 * q
  BY SMT
<1>2. Byte(v, 1) = v % 256 /\ Byte(v, 2) = q % 256
  <2>1. Byte(v, 1) = (v \div 1) % 256
    BY Powers, SMT DEF Byte
  <2>2. v \div 1 = v
    BY SMT
  <2> QED BY <2>1, <2>2, Powers, SMT DEF Byte
<1> HIDE DEF q
<1>3. raw \in Int /\ raw = IF v < 0 THEN v + 65536 ELSE v
  BY <1>1, HighByte, SMT
<1> HIDE DEF raw
<1>4. Signed(raw, 16) = IF raw >= 32768 THEN raw - 65536 ELSE raw
  BY Powers, SMT DEF Signed
<1>5. Signed(raw, 16) = v
  BY <1>3, <1>4, SMT
<1> QED BY <1>2, <1>5 DEF raw

LEMMA ThreeBytes ==
  ASSUME NEW v \in Int, -8388608 <= v, v <= 8388607
  PROVE  Signed(Byte(v, 1) + 256 * Byte(v, 2) + 65536 * Byte(v, 3), 24) = v
<1> DEFINE p   == v \div 256
           q   == v \div 65536
           raw == (v % 256) + 256 * (p % 256) + 65536 * (q % 256)
<1>1. q \in -128..127 /\ (v < 0 <=> q < 0)
  BY SMT
<1>2. v = (v % 256) + 256 * p /\ p = (p % 256) + 256 * q
  <2>1. q = p \div 256
    BY SMT
  <2>2. v = (v % 256) + 256 * p /\ p \in Int
    BY SMT
  <2> HIDE DEF p, q
  <2>3. p = (p % 256) + 256 * (p \div 256)
    BY <2>2, SMT
  <2> QED BY <2>1, <2>2, <2>3
<1>3. Byte(v, 1) = v % 256 /\ Byte(v, 2) = p % 256 /\ Byte(v, 3) = q % 256
  <2>1. Byte(v, 1) = (v \div 1) % 256
    BY Powers, SMT DEF Byte
  <2>2. v \div 1 = v
    BY SMT
  <2> QED BY <2>1, <2>2, Powers, SMT DEF Byte
<1>4. p \in Int /\ p % 256 \in Int /\ v % 256 \in Int
  BY SMT
<1> HIDE DEF p, q
<1>5. raw \in Int /\ raw = IF v < 0 THEN v + 16777216 ELSE v
  BY <1>1, <1>2, <1>4, HighByte, SMT
<1> HIDE DEF raw
<1>6. Signed(raw, 24) = IF raw >= 8388608 THEN raw - 16777216 ELSE raw
  BY Powers, SMT DEF Signed
<1>7. Signed(raw, 24) = v
  BY <1>5, <1>6, SMT
<1> QED BY <1>3, <1>7 DEF raw

LEMMA FourBytes ==
  ASSUME NEW v \in Int, -2147483648 <= v, v <= 2147483647
  PROVE  Byte(v, 1) + 256 * Byte(v, 2) + 65536 * Byte(v, 3) + 16777216 * Signed(Byte(v, 4), 8) = v
<1> DEFINE p   == v \div 256
           q   == v \div 65536
           h   == v \div 16777216
           top == h % 256
           low == (v % 256) + 256 * (p % 256) + 65536 * (q % 256)
<1>1. h \in -128..127 /\ (v < 0 <=> h < 0)
  BY SMT
<1>2. v = (v % 256) + 256 * p /\ p = (p % 256) + 256 * q /\ q = (q % 256) + 256 * h
  <2>1. q = p \div 256 /\ h = q \div 256
    BY SMT
  <2>2. v = (v % 256) + 256 * p /\ p \in Int /\ q \in Int
    BY SMT
  <2> HIDE DEF p, q, h
  <2>3. p = (p % 256) + 256 * (p \div 256) /\ q = (q % 256) + 256 * (q \div 256)
    BY <2>2, SMT
  <2> QED BY <2>1, <2>2, <2>3
<1>3. Byte(v, 1) = v % 256 /\ Byte(v, 2) = p % 256 /\ Byte(v, 3) = q % 256 /\ Byte(v, 4) = top
  <2>1. Byte(v, 1) = (v \div 1) % 256
    BY Powers, SMT DEF Byte
  <2>2. v \div 1 = v
    BY SMT
  <2> QED BY <2>1, <2>2, Powers, SMT DEF Byte
<1>4. p \in Int /\ q \in Int
  BY SMT
<1> HIDE DEF p, q, h
<1>5. low + 16777216 * h = v
  BY <1>1, <1>2, <1>4, SMT
<1>6. top = IF v < 0 THEN h + 256 ELSE h
  BY <1>1, HighByte, SMT
<1> HIDE DEF top, low
<1>7. Signed(top, 8) = IF top >= 128 THEN top - 256 ELSE top
  BY Powers, SMT DEF Signed
<1>8. Signed(top, 8) = h
  BY <1>1, <1>6, <1>7, SMT
<1>9. low + 16777216 * Signed(top, 8) = v
  BY <1>5, <1>8
<1> QED BY <1>3, <1>9 DEF low

LEMMA PackIs ==
  ASSUME NEW f \in Formats, NEW v \in Int
  PROVE  /\ Pack(f, v) = [k \in 1..BytesPerSample(f) |-> Byte(v, k)]
         /\ f = "S16Le" => BytesPerSample(f) = 2
         /\ f = "S24Le3" => BytesPerSample(f) = 3
         /\ f \in {"S24Le", "S32Le"} => BytesPerSample(f) = 4
<1>1. Pack(f, v) = [k \in 1..BytesPerSample(f) |-> Byte(v, k)]
  BY DEF Pack, Byte
<1>2. /\ f = "S16Le" => BytesPerSample(f) = 2
      /\ f = "S24Le3" => BytesPerSample(f) = 3
      /\ f \in {"S24Le", "S32Le"} => BytesPerSample(f) = 4
  BY DEF BytesPerSample
<1> QED BY <1>1, <1>2

\* The greatest sample a format can hold; the least is one further from zero.
Top(f) == CASE f = "S16Le" -> 32767 [] f = "S32Le" -> 2147483647 [] OTHER -> 8388607

\* What one end writes into a device's buffer, the other reads: every sample of
\* a format, in every layout of it, and whatever a device leaves in the padding
\* (format.rs 91-130).
THEOREM SamplesSurvive ==
  ASSUME NEW f \in Formats \ {"F32Le"}, NEW v \in Int, -Top(f) - 1 <= v, v <= Top(f)
  PROVE  /\ Unpack(f, Pack(f, v)) = v
         /\ f = "S24Le" => \A pad \in Int : Unpack(f, [Pack(f, v) EXCEPT ![4] = pad]) = v
<1> DEFINE b == Pack(f, v)
           n == BytesPerSample(f)
<1>1. f \in Formats
  OBVIOUS
<1>2. b = [k \in 1..n |-> Byte(v, k)]
  BY <1>1, PackIs
<1>3. CASE f = "S16Le"
  <2>1. -32768 <= v /\ v <= 32767
    BY <1>3 DEF Top
  <2>2. n = 2
    BY <1>1, <1>3, PackIs
  <2> HIDE DEF b, n
  <2>3. b[1] = Byte(v, 1) /\ b[2] = Byte(v, 2)
    BY <1>2, <2>2
  <2>4. Unpack(f, b) = Signed(Byte(v, 1) + 256 * Byte(v, 2), 16)
    BY <1>3, <2>3 DEF Unpack
  <2>5. Unpack(f, b) = v
    BY <2>1, <2>4, TwoBytes
  <2> QED BY <1>3, <2>5 DEF b
<1>4. CASE f \in {"S24Le3", "S24Le"}
  <2>1. -8388608 <= v /\ v <= 8388607
    BY <1>4, SMT DEF Top
  <2>2. n \in {3, 4} /\ (f = "S24Le" => n = 4)
    BY <1>1, <1>4, PackIs, SMT
  <2>3. ASSUME NEW c, c[1] = Byte(v, 1), c[2] = Byte(v, 2), c[3] = Byte(v, 3)
        PROVE  Unpack(f, c) = v
    <3>1. Unpack(f, c) = Signed(Byte(v, 1) + 256 * Byte(v, 2) + 65536 * Byte(v, 3), 24)
      BY <1>4, <2>3, SMT DEF Unpack
    <3> QED BY <2>1, <3>1, ThreeBytes
  <2> HIDE DEF b, n
  <2>4. b[1] = Byte(v, 1) /\ b[2] = Byte(v, 2) /\ b[3] = Byte(v, 3)
    BY <1>2, <2>2
  <2>5. ASSUME f = "S24Le", NEW pad \in Int PROVE Unpack(f, [b EXCEPT ![4] = pad]) = v
    <3> DEFINE c == [b EXCEPT ![4] = pad]
    <3>1. c[1] = Byte(v, 1) /\ c[2] = Byte(v, 2) /\ c[3] = Byte(v, 3)
      BY <1>2, <2>2, <2>5
    <3> HIDE DEF c
    <3>2. Unpack(f, c) = v
      BY <2>3, <3>1
    <3> QED BY <3>2 DEF c
  <2>6. Unpack(f, b) = v
    BY <2>3, <2>4
  <2> QED BY <2>5, <2>6 DEF b
<1>5. CASE f = "S32Le"
  <2>1. -2147483648 <= v /\ v <= 2147483647
    BY <1>5, SMT DEF Top
  <2>2. n = 4
    BY <1>1, <1>5, PackIs
  <2> HIDE DEF b, n
  <2>3. b[1] = Byte(v, 1) /\ b[2] = Byte(v, 2) /\ b[3] = Byte(v, 3) /\ b[4] = Byte(v, 4)
    BY <1>2, <2>2
  <2>4. Unpack(f, b) = Byte(v, 1) + 256 * Byte(v, 2) + 65536 * Byte(v, 3) + 16777216 * Signed(Byte(v, 4), 8)
    BY <1>5, <2>3, SMT DEF Unpack
  <2>5. Unpack(f, b) = v
    BY <2>1, <2>4, FourBytes
  <2> QED BY <1>5, <2>5 DEF b
<1> QED BY <1>3, <1>4, <1>5 DEF Formats

\* The place of a sample in an interleaved buffer.
LEMMA PlaceIs ==
  ASSUME NEW n \in Nat \ {0}, NEW F \in Nat, NEW f \in 0..F - 1, NEW c \in 1..n,
         NEW i, i = f * n + c
  PROVE  i \in 1..F * n /\ (i - 1) \div n = f /\ (i - 1) % n = c - 1
<1> DEFINE b == c - 1
<1>1. b \in 0..n - 1 /\ f \in Nat
  OBVIOUS
<1>2. f * n \in Nat /\ F * n \in Nat /\ (f + 1) * n <= F * n /\ (f + 1) * n = f * n + n
  <2>1. f + 1 <= F
    OBVIOUS
  <2> QED BY <2>1, <1>1, SMT
<1>3. f * n + c \in 1..F * n
  <2> DEFINE p == f * n
             P == F * n
  <2>1. p \in Nat /\ P \in Nat /\ p + n <= P
    BY <1>2
  <2> HIDE DEF p, P
  <2>2. p + c \in 1..P
    BY <2>1
  <2> QED BY <2>2 DEF p, P
<1>4. i - 1 = f * n + b
  BY <1>2
<1>5. (f * n + b) \div n = f /\ (f * n + b) % n = b
  BY <1>1, DivMod
<1> QED BY <1>3, <1>4, <1>5

\* The two copies, from the window at `from` of an `in` wide buffer to the one
\* at `to` of an `out` wide buffer: every channel of the window holds what the
\* source's channel held, frame by frame, and every other channel is silent.
CopiesRight(src, in, from, n, out, to) ==
  LET frames == Len(src) \div in
      heard  == Scatter(Extract(src, in, from, n), n, out, to)
  IN  /\ Len(heard) = frames * out
      /\ \A f \in 0..frames - 1, c \in 1..out :
           heard[f * out + c] = IF c \in to + 1..to + n THEN src[f * in + c - to + from]
                                                       ELSE Silence

\* The copies are right whatever the devices' widths, the window's place in
\* each, and the length of the buffer (window.rs 1-62).
THEOREM WindowCarried ==
  ASSUME NEW src, Len(src) \in Nat, NEW in \in Nat, NEW out \in Nat,
         NEW from \in Nat, NEW to \in Nat, NEW n \in Nat \ {0},
         from + n <= in, to + n <= out
  PROVE  CopiesRight(src, in, from, n, out, to)
<1> DEFINE F     == Len(src) \div in
           sent  == Extract(src, in, from, n)
           heard == Scatter(sent, n, out, to)
<1>1. in \in Nat \ {0} /\ out \in Nat \ {0} /\ WindowFits(in, from, n) /\ WindowFits(out, to, n)
  BY DEF WindowFits
<1>2. F \in Nat
  BY <1>1, SMT
<1>3. sent = [i \in 1..F * n |-> src[((i - 1) \div n) * in + from + ((i - 1) % n) + 1]]
  BY <1>1 DEF Extract
<1> HIDE DEF F
<1>4. F * n \in Nat /\ F * out \in Nat
  BY <1>1, <1>2, SMT
<1>5. Len(sent) = F * n
  BY <1>3, <1>4
<1>6. (F * n) \div n = F
  <2>1. (F * n + 0) \div n = F
    BY <1>2, DivMod
  <2> QED BY <2>1, <1>4
<1>7. heard = [i \in 1..F * out |->
                 LET c == ((i - 1) % out) - to
                 IN  IF c \in 0..n - 1 THEN sent[((i - 1) \div out) * n + c + 1] ELSE Silence]
  BY <1>1, <1>5, <1>6 DEF Scatter
<1> HIDE DEF sent, heard
<1>8. Len(heard) = F * out
  BY <1>4, <1>7
<1>9. ASSUME NEW f \in 0..F - 1, NEW c \in 1..out
      PROVE  heard[f * out + c] = IF c \in to + 1..to + n THEN src[f * in + c - to + from] ELSE Silence
  <2> DEFINE i == f * out + c
             d == c - to
  <2>0. i = f * out + c
    OBVIOUS
  <2> HIDE DEF i
  <2>1. i \in 1..F * out /\ (i - 1) \div out = f /\ (i - 1) % out = c - 1
    BY <1>1, <1>2, <1>9, <2>0, PlaceIs
  <2>2. heard[i] = IF (c - 1) - to \in 0..n - 1 THEN sent[f * n + ((c - 1) - to) + 1] ELSE Silence
    BY <1>7, <2>1
  <2>3. CASE c \in to + 1..to + n
    <3>1. d \in 1..n /\ (c - 1) - to \in 0..n - 1 /\ (c - 1) - to = d - 1 /\ f \in Nat
      BY <1>9, <2>3
    <3> HIDE DEF d
    <3>2. f * n \in Nat /\ f * in \in Nat
      BY <1>1, <3>1, SMT
    <3>3. heard[i] = sent[f * n + d]
      <4>1. f * n + ((c - 1) - to) + 1 = f * n + d
        BY <3>1, <3>2
      <4>2. heard[i] = sent[f * n + ((c - 1) - to) + 1]
        BY <2>2, <3>1
      <4> QED BY <4>1, <4>2, Zenon
    <3> DEFINE k == f * n + d
    <3>4. k = f * n + d
      OBVIOUS
    <3> HIDE DEF k
    <3>5. k \in 1..F * n /\ (k - 1) \div n = f /\ (k - 1) % n = d - 1
      BY <1>2, <1>9, <3>1, <3>4, PlaceIs
    <3>6. sent[k] = src[f * in + from + (d - 1) + 1]
      BY <1>3, <3>5
    <3>7. f * in + from + (d - 1) + 1 = f * in + c - to + from
      BY <3>1, <3>2 DEF d
    <3> QED BY <2>3, <3>3, <3>4, <3>6, <3>7 DEF i
  <2>4. CASE c \notin to + 1..to + n
    <3>1. (c - 1) - to \notin 0..n - 1
      BY <1>9, <2>4
    <3> QED BY <2>2, <2>4, <3>1 DEF i
  <2> QED BY <2>3, <2>4
<1> QED BY <1>8, <1>9 DEF heard, sent, F, CopiesRight

-----------------------------------------------------------------------------
(* What holds of the ends' state                                           *)

Failure == [st : {"failed"}, why : {"device", "bind"}, by : Routes \cup {NoRoute}]

Receiver ==
  [st : {"opened", "up"}, spec : AllSpecs, card : Cards, format : Formats,
   queue : {PlaybackDepth(world.playback.buffer, s.period, 2) : s \in AllSpecs},
   bound : SUBSET (0..U16 - 1), left : Remaining(TRUE) \cup Remaining(FALSE)]

Shape ==
  /\ world \in Worlds /\ hash \in [Routes -> UNION {Hashes[r] : r \in Routes}]
  /\ stored = [r \in Routes |-> NameOf(Patched[r], FirstSlot)]
  /\ slot \in Indexings /\ scan \in BOOLEAN /\ calm \in BOOLEAN
  /\ table \in [Names -> {NoEntry, Listing(TRUE), Listing(FALSE)}]
  /\ \A n \in Names : table[n] # NoEntry => \E c \in Cards : NameOf(c, slot) = n
  /\ spec \in [Engines -> [Routes -> AllSpecs \cup {NoSpec}]]
  /\ \A e \in Engines, r \in Routes : spec[e][r] \in Offered[r] \cup {NoSpec}
  /\ codecs \in [Engines -> Seq(Pairs)] /\ \A e \in Engines : IsInjective(codecs[e])
  /\ DOMAIN tx = Routes /\ DOMAIN rx = Routes

\* A sender is what its spec makes it, and roc knows its encoding.
TxOk(r) == tx[r] = Down \/
  LET s == spec["src"][r] IN
  /\ s \in Offered[r] /\ tx[r] = SenderFor(r, s)
  /\ Opens(world.capture, s, s.from) /\ Tuple(s) \in ToSet(codecs["src"])

\* A receiver has bound the ports that are not left to bind, and roc knows its
\* encoding.
RxOk(r) ==
  \/ rx[r] = Down
  \/ rx[r] \in Failure
  \/ LET half == rx[r] IN
     /\ half \in Receiver
     /\ half.spec = spec["dst"][r] /\ half.spec \in Offered[r]
     /\ half.format = PickFormat(half.spec.format, world.playback.formats)
     /\ half.left \in Remaining(half.spec.fec) /\ (half.st = "up" <=> half.left = <<>>)
     /\ half.bound = {PortOf(Port(r), x) : x \in ToSet(Endpoints(half.spec.fec)) \ ToSet(half.left)}
     /\ Tuple(half.spec) \in ToSet(codecs["dst"])
     /\ CardId[Patched[r]] # NoId => half.card = Patched[r]

Disjoint == \A r, s \in Routes : r # s => BoundBy(r) \cap BoundBy(s) = {}

IInv == /\ Shape
        /\ \A r \in Routes : TxOk(r)
        /\ \A r \in Routes : RxOk(r)
        /\ Disjoint

\* Who has the port that a bind wanted.
ByOk(r) == rx[r].st = "failed" =>
  rx[r].by = NoRoute \/ (rx[r].by \in Routes \ {r} /\ Port(rx[r].by) = Port(r))

-----------------------------------------------------------------------------
\* Shape does not mention what the two halves say.
LEMMA OfferedIs ==
  ASSUME NEW r \in Routes, NEW s \in Offered[r]
  PROVE  /\ s \in AllSpecs /\ s # NoSpec /\ s.format \in Formats /\ s.fec \in BOOLEAN
         /\ s.rate \in Nat /\ s.channels \in Nat /\ s.period \in Nat /\ Tuple(s) \in Pairs
BY OfferedAssumption DEF AllSpecs, Tuple, Pairs

LEMMA HashIs ==
  ASSUME Shape, NEW r \in Routes
  PROVE  hash[r] \in Nat /\ Base \in Nat
<1>1. PICK q \in Routes : hash[r] \in Hashes[q]
  BY DEF Shape
<1>2. Base \in Nat
  BY BaseAssumption DEF U16
<1> QED BY <1>1, <1>2, HashesAssumption

LEMMA PortOfIs ==
  ASSUME Shape, NEW r \in Routes, NEW x \in Role
  PROVE  Port(r) \in Nat /\ PortOf(Port(r), x) \in 0..U16 - 1
<1>1. hash[r] \in Nat /\ Base \in Nat
  BY HashIs
<1>2. Port(r) \in Nat
  <2>1. PICK h \in Nat : h = hash[r] % 1000
    BY <1>1
  <2> QED BY <1>1, <2>1 DEF Port, RoutePort, AtMost, U16
<1>3. RoleOffset(x) \in Nat
  BY DEF Role, RoleOffset
<1>4. PICK n \in Nat : n = Port(r) + RoleOffset(x)
  BY <1>2, <1>3
<1>5. PICK m \in Nat : m = n % 65536 /\ m < 65536
  OBVIOUS
<1>6. PortOf(Port(r), x) = m
  BY <1>4, <1>5 DEF PortOf, U16
<1>7. PICK top \in Nat : top = U16 - 1 /\ m <= top
  BY <1>5 DEF U16
<1>8. m \in 0..top
  BY <1>7
<1> QED BY <1>2, <1>6, <1>7, <1>8

\* The world, the hashes and the names never change, nor does what follows
\* from them alone.
LEMMA RigidIs ==
  ASSUME UNCHANGED rigid
  PROVE  /\ \A r \in Routes : Port(r)' = Port(r)
         /\ \A r \in Routes : \A s \in AllSpecs : SenderFor(r, s)' = SenderFor(r, s)
         /\ Receiver' = Receiver
         /\ Listing(TRUE)' = Listing(TRUE) /\ Listing(FALSE)' = Listing(FALSE)
<1>1. UNCHANGED <<world, hash, stored>>
  BY DEF rigid
<1>2. \A r \in Routes : Port(r)' = Port(r)
  BY <1>1 DEF Port
<1>3. MaxPayload' = MaxPayload
  BY <1>1 DEF MaxPayload
<1>4. \A r \in Routes : \A s \in AllSpecs : SenderFor(r, s)' = SenderFor(r, s)
  BY <1>1, <1>2, <1>3 DEF SenderFor
<1>5. Receiver' = Receiver
  BY <1>1 DEF Receiver
<1> QED BY <1>1, <1>2, <1>4, <1>5 DEF Listing

LEMMA TxKept ==
  ASSUME IInv, UNCHANGED rigid, NEW r \in Routes, tx'[r] = tx[r],
         spec'["src"][r] = spec["src"][r],
         ToSet(codecs["src"]) \subseteq ToSet(codecs'["src"])
  PROVE  TxOk(r)'
<1>1. CASE tx[r] = Down
  BY <1>1 DEF TxOk, Down
<1>2. CASE tx[r] # Down
  <2>1. PICK s \in Offered[r] :
          /\ s = spec["src"][r] /\ tx[r] = SenderFor(r, s)
          /\ Opens(world.capture, s, s.from) /\ Tuple(s) \in ToSet(codecs["src"])
    BY <1>2 DEF IInv, TxOk
  <2>2. SenderFor(r, s)' = SenderFor(r, s)
    BY OfferedIs, RigidIs
  <2> QED BY <2>1, <2>2 DEF TxOk, rigid
<1> QED BY <1>1, <1>2

LEMMA RxKept ==
  ASSUME IInv, UNCHANGED rigid, NEW r \in Routes, rx'[r] = rx[r],
         spec'["dst"][r] = spec["dst"][r],
         ToSet(codecs["dst"]) \subseteq ToSet(codecs'["dst"])
  PROVE  RxOk(r)' /\ BoundBy(r)' = BoundBy(r) /\ (ByOk(r) => ByOk(r)')
<1>1. Port(r)' = Port(r) /\ Receiver' = Receiver /\ world' = world
      /\ \A q \in Routes : Port(q)' = Port(q)
  BY RigidIs DEF rigid
<1>2. RxOk(r)'
  BY <1>1 DEF IInv, RxOk, Down, Failure
<1>3. BoundBy(r)' = BoundBy(r) /\ (ByOk(r) => ByOk(r)')
  BY <1>1 DEF BoundBy, Opened, ByOk
<1> QED BY <1>2, <1>3

\* A step that changes one receiving half: the others are as they were.
LEMMA OneReceiver ==
  ASSUME IInv, UNCHANGED rigid, NEW r \in Routes, NEW half,
         rx' = [rx EXCEPT ![r] = half], UNCHANGED <<spec, tx, slot, table, scan, calm>>,
         codecs' \in [Engines -> Seq(Pairs)], \A e \in Engines : IsInjective(codecs'[e]),
         \A e \in Engines : ToSet(codecs[e]) \subseteq ToSet(codecs'[e]),
         RxOk(r)',
         \A q \in Routes \ {r} : BoundBy(r)' \cap BoundBy(q) = {}
  PROVE  IInv' /\ \A q \in Routes \ {r} : ByOk(q) => ByOk(q)'
<1>1. DOMAIN rx' = Routes /\ rx'[r] = half /\ \A q \in Routes \ {r} : rx'[q] = rx[q]
  BY DEF IInv, Shape
<1>2. Shape'
  BY <1>1, RigidIs DEF IInv, Shape, rigid
<1>3. "src" \in Engines /\ "dst" \in Engines
  BY DEF Engines
<1>4. \A q \in Routes : TxOk(q)'
  BY <1>3, TxKept
<1>5. \A q \in Routes \ {r} : RxOk(q)' /\ BoundBy(q)' = BoundBy(q) /\ (ByOk(q) => ByOk(q)')
  BY <1>1, <1>3, RxKept
<1>6. Disjoint'
  BY <1>5 DEF IInv, Disjoint
<1> QED BY <1>2, <1>4, <1>5, <1>6 DEF IInv

LEMMA OpenSenderInv ==
  ASSUME IInv, NEW r \in Routes, OpenSender(r)
  PROVE  IInv' /\ \A q \in Routes : ByOk(q) => ByOk(q)'
<1> DEFINE s == spec["src"][r]
<1>1. PICK t \in Offered[r] : t = s
  BY DEF IInv, Shape, OpenSender, Engines
<1>2. /\ codecs' = [codecs EXCEPT !["src"] = Ensure(codecs["src"], t)]
      /\ tx' = [tx EXCEPT ![r] = IF Opens(world.capture, t, t.from) THEN SenderFor(r, t) ELSE Down]
      /\ UNCHANGED <<world, hash, stored, slot, table, scan, spec, rx, calm>>
  BY <1>1 DEF OpenSender, rigid, ports
<1>3. "src" \in Engines /\ "dst" \in Engines
  BY DEF Engines
<1>4. /\ Ensure(codecs["src"], t) \in Seq(Pairs) /\ IsInjective(Ensure(codecs["src"], t))
      /\ ToSet(Ensure(codecs["src"], t)) = ToSet(codecs["src"]) \cup {Tuple(t)}
  BY <1>3, OfferedIs, EnsureIs DEF IInv, Shape
<1>5. /\ codecs' \in [Engines -> Seq(Pairs)] /\ \A e \in Engines : IsInjective(codecs'[e])
      /\ codecs'["src"] = Ensure(codecs["src"], t) /\ codecs'["dst"] = codecs["dst"]
  BY <1>2, <1>3, <1>4 DEF IInv, Shape
<1>6. UNCHANGED rigid
  BY <1>2 DEF rigid
<1>7. Shape'
  BY <1>2, <1>5, <1>6, RigidIs DEF IInv, Shape
<1>8. TxOk(r)'
  <2>1. tx'[r] = IF Opens(world.capture, t, t.from) THEN SenderFor(r, t) ELSE Down
    BY <1>2 DEF IInv, Shape
  <2>2. SenderFor(r, t)' = SenderFor(r, t)
    BY <1>6, OfferedIs, RigidIs
  <2>3. CASE Opens(world.capture, t, t.from)
    BY <1>1, <1>2, <1>4, <1>5, <2>1, <2>2, <2>3 DEF TxOk
  <2>4. CASE ~Opens(world.capture, t, t.from)
    BY <2>1, <2>4 DEF TxOk, Down
  <2> QED BY <2>3, <2>4
<1>9. \A q \in Routes \ {r} : TxOk(q)'
  <2>1. \A q \in Routes \ {r} : tx'[q] = tx[q]
    BY <1>2 DEF IInv, Shape
  <2> QED BY <1>2, <1>4, <1>5, <1>6, <2>1, TxKept
<1>10. \A q \in Routes : RxOk(q)' /\ BoundBy(q)' = BoundBy(q) /\ (ByOk(q) => ByOk(q)')
  BY <1>2, <1>5, <1>6, RxKept
<1>11. Disjoint'
  BY <1>10 DEF IInv, Disjoint
<1> QED BY <1>7, <1>8, <1>9, <1>10, <1>11 DEF IInv

\* The name a route was patched to leads to its card, if that has an id.
LEMMA CardIs ==
  ASSUME IInv, NEW r \in Routes
  PROVE  CardId[Patched[r]] # NoId => CardOf(stored[r]) = Patched[r]
<1> SUFFICES ASSUME CardId[Patched[r]] # NoId PROVE CardOf(stored[r]) = Patched[r]
  OBVIOUS
<1>1. stored[r].by = "id" /\ stored[r].of = CardId[Patched[r]]
  BY DEF IInv, Shape, NameOf, AlsaDevice
<1>2. CardOf(stored[r]) = CHOOSE c \in Cards : CardId[c] = CardId[Patched[r]]
  BY <1>1 DEF CardOf
<1> QED BY <1>2, CardsAssumption, PatchedAssumption

LEMMA StoredIs ==
  ASSUME Shape, NEW r \in Routes
  PROVE  stored[r] \in Names
<1>1. Patched[r] \in Cards /\ FirstSlot \in Indexings
  BY PatchedAssumption, FirstAssumption
<1>2. NameOf(Patched[r], FirstSlot) \in {NameOf(d, FirstSlot) : d \in Cards}
  BY <1>1
<1>3. NameOf(Patched[r], FirstSlot) \in Names
  BY <1>1, <1>2 DEF Names
<1> QED BY <1>3 DEF Shape

LEMMA OpenDeviceInv ==
  ASSUME IInv, NEW r \in Routes, OpenDevice(r)
  PROVE  IInv' /\ \A q \in Routes : ByOk(q) => ByOk(q)'
<1> DEFINE c == CardOf(stored[r])
<1>1. PICK s \in Offered[r] : s = spec["dst"][r]
  BY DEF IInv, Shape, OpenDevice, Engines
<1>2. /\ UNCHANGED <<spec, tx, slot, table, scan, calm>> /\ UNCHANGED rigid
      /\ rx[r] = Down
  BY DEF OpenDevice, ports
<1>3. "src" \in Engines /\ "dst" \in Engines
  BY DEF Engines
<1>4. CASE table[stored[r]] = NoEntry \/ c \in InUse \/ ~Opens(world.playback, s, s.to)
  <2>1. rx' = [rx EXCEPT ![r] = Failed("device", NoRoute)] /\ codecs' = codecs
    BY <1>1, <1>4 DEF OpenDevice
  <2>2. PICK half \in Failure : half = Failed("device", NoRoute) /\ half.st = "failed" /\ half.by = NoRoute
    <3>1. Failed("device", NoRoute) \in Failure
      BY DEF Failed, Failure
    <3> QED BY <3>1 DEF Failed
  <2>3. rx'[r] = half
    BY <2>1, <2>2 DEF IInv, Shape
  <2>4. RxOk(r)' /\ BoundBy(r)' = {} /\ ByOk(r)'
    BY <2>2, <2>3 DEF RxOk, BoundBy, Opened, ByOk, Failure
  <2>5. /\ codecs' \in [Engines -> Seq(Pairs)] /\ \A e \in Engines : IsInjective(codecs'[e])
        /\ \A e \in Engines : ToSet(codecs[e]) \subseteq ToSet(codecs'[e])
    BY <2>1 DEF IInv, Shape
  <2> QED BY <1>2, <2>1, <2>2, <2>4, <2>5, OneReceiver
<1>5. CASE ~(table[stored[r]] = NoEntry \/ c \in InUse \/ ~Opens(world.playback, s, s.to))
  <2>1. /\ rx' = [rx EXCEPT ![r] = ReceiverFor(r, s, c)]
        /\ codecs' = [codecs EXCEPT !["dst"] = Ensure(codecs["dst"], s)]
    BY <1>1, <1>5 DEF OpenDevice
  <2>2. /\ Ensure(codecs["dst"], s) \in Seq(Pairs) /\ IsInjective(Ensure(codecs["dst"], s))
        /\ ToSet(Ensure(codecs["dst"], s)) = ToSet(codecs["dst"]) \cup {Tuple(s)}
    BY <1>3, OfferedIs, EnsureIs DEF IInv, Shape
  <2>3. /\ codecs' \in [Engines -> Seq(Pairs)] /\ \A e \in Engines : IsInjective(codecs'[e])
        /\ \A e \in Engines : ToSet(codecs[e]) \subseteq ToSet(codecs'[e])
        /\ Tuple(s) \in ToSet(codecs'["dst"])
    BY <1>3, <2>1, <2>2 DEF IInv, Shape
  <2> DEFINE format == PickFormat(s.format, world.playback.formats)
             half   == ReceiverFor(r, s, c)
  <2>4. format \in Formats
    <3>1. format # NoFormat
      BY <1>5 DEF Opens
    <3>2. world.playback.formats \in SUBSET Formats /\ s.format \in Formats
      BY WorldsAssumption, OfferedIs DEF IInv, Shape
    <3> QED BY <3>1, <3>2, PickIs
  <2>5. c \in Cards
    <3>1. stored[r] \in Names
      BY StoredIs DEF IInv
    <3>2. PICK d \in Cards : NameOf(d, slot) = stored[r]
      BY <1>5, <3>1 DEF IInv, Shape
    <3>3. IF stored[r].by = "id" THEN CardId[d] = stored[r].of ELSE slot[d] = stored[r].of
      BY <3>2 DEF NameOf, AlsaDevice
    <3> QED BY <3>3 DEF CardOf
  <2>6. half \in Receiver /\ half.left = Endpoints(s.fec) /\ half.bound = {} /\ half.st = "opened"
        /\ half.spec = s /\ half.card = c /\ half.format = format
    <3>1. /\ s \in AllSpecs /\ s.fec \in BOOLEAN
          /\ Endpoints(s.fec) \in Remaining(TRUE) \cup Remaining(FALSE)
      BY OfferedIs, RolesAre
    <3> HIDE DEF c, format
    <3>2. half = [st |-> "opened", spec |-> s, card |-> c, format |-> format,
                  queue |-> PlaybackDepth(world.playback.buffer, s.period, 2),
                  bound |-> {}, left |-> Endpoints(s.fec)]
      BY DEF ReceiverFor, format
    <3> HIDE DEF half
    <3> QED BY <2>4, <2>5, <3>1, <3>2 DEF Receiver
  <2>7. rx'[r] = half
    BY <2>1 DEF IInv, Shape
  <2>8. BoundBy(r)' = {} /\ ByOk(r)'
    BY <2>6, <2>7 DEF BoundBy, Opened, ByOk
  <2>9. RxOk(r)'
    <3> HIDE DEF half
    <3>1. half.left \in Remaining(s.fec) /\ half.left # <<>>
      BY <2>6, OfferedIs, RolesAre
    <3>2. {PortOf(Port(r)', x) : x \in ToSet(Endpoints(s.fec)) \ ToSet(half.left)} = {}
      <4>1. ToSet(Endpoints(s.fec)) \ ToSet(half.left) = {}
        BY <2>6
      <4> QED BY <4>1
    <3>3. CardId[Patched[r]] # NoId => half.card = Patched[r]
      BY <2>6, CardIs
    <3>4. spec'["dst"][r] = s /\ world' = world /\ Receiver' = Receiver
      BY <1>1, <1>2, RigidIs DEF rigid
    <3>5. /\ half \in Receiver' /\ half.spec = spec'["dst"][r] /\ half.spec \in Offered[r]
          /\ half.format = PickFormat(half.spec.format, world'.playback.formats)
          /\ half.left \in Remaining(half.spec.fec) /\ (half.st = "up" <=> half.left = <<>>)
      BY <2>6, <3>1, <3>4
    <3>6. half.bound = {PortOf(Port(r)', x) : x \in ToSet(Endpoints(half.spec.fec)) \ ToSet(half.left)}
      BY <2>6, <3>2
    <3> QED BY <2>3, <2>6, <2>7, <3>3, <3>5, <3>6 DEF RxOk
  <2> HIDE DEF half
  <2> QED BY <1>2, <2>1, <2>3, <2>8, <2>9, OneReceiver
<1> QED BY <1>4, <1>5

\* The ports a receiver has bound are ports of its own window.
LEMMA BoundAre ==
  ASSUME IInv, NEW r \in Routes, NEW p \in BoundBy(r)
  PROVE  \E x \in Role : p = PortOf(Port(r), x)
<1>1. rx[r].st \in {"opened", "up"} /\ p \in rx[r].bound
  BY DEF BoundBy, Opened
<1>2. PICK x \in ToSet(Endpoints(rx[r].spec.fec)) : p = PortOf(Port(r), x) /\ rx[r].spec.fec \in BOOLEAN
  BY <1>1, OfferedIs DEF IInv, RxOk, Down, Failure
<1>3. x \in Role
  BY <1>2, RolesAre
<1> QED BY <1>2, <1>3

\* Two routes that meet on a port have the same window.
LEMMA SameWindow ==
  ASSUME Base + 3002 < U16, Shape, NEW r \in Routes, NEW s \in Routes,
         NEW x \in Role, NEW y \in Role, PortOf(Port(r), x) = PortOf(Port(s), y)
  PROVE  Port(r) = Port(s) /\ x = y
<1>1. hash[r] \in Nat /\ hash[s] \in Nat /\ Base \in Nat
  BY HashIs
<1>2. hash[r] % 1000 = hash[s] % 1000 /\ x = y
  BY <1>1, WindowsApart DEF Port
<1> QED BY <1>2 DEF Port, RoutePort

LEMMA BindInv ==
  ASSUME IInv, NEW r \in Routes, Bind(r)
  PROVE  /\ IInv'
         /\ \A q \in Routes : q # r \/ Base + 3002 < U16 => (ByOk(q) => ByOk(q)')
<1> DEFINE half == rx[r]
           head == Head(half.left)
           p == PortOf(Port(r), head)
           others == {s \in Routes \ {r} : p \in BoundBy(s)}
<1>1. /\ half \in Receiver /\ half.st = "opened"
      /\ half.spec = spec["dst"][r] /\ half.spec \in Offered[r]
      /\ half.format = PickFormat(half.spec.format, world.playback.formats)
      /\ half.left \in Remaining(half.spec.fec) /\ half.left # <<>>
      /\ half.bound = {PortOf(Port(r), x) : x \in ToSet(Endpoints(half.spec.fec)) \ ToSet(half.left)}
      /\ Tuple(half.spec) \in ToSet(codecs["dst"])
      /\ CardId[Patched[r]] # NoId => half.card = Patched[r]
  BY DEF IInv, RxOk, Bind, Down, Failure
<1>2. UNCHANGED <<spec, codecs, tx, slot, table, scan, calm>> /\ UNCHANGED rigid
  BY DEF Bind, ports
<1>3. /\ codecs' \in [Engines -> Seq(Pairs)] /\ \A e \in Engines : IsInjective(codecs'[e])
      /\ \A e \in Engines : ToSet(codecs[e]) \subseteq ToSet(codecs'[e])
  BY <1>2 DEF IInv, Shape
<1>4. PICK fec \in BOOLEAN : fec = half.spec.fec
  BY <1>1, OfferedIs
<1>5. /\ head \in ToSet(half.left) /\ ToSet(half.left) \subseteq ToSet(Endpoints(fec))
      /\ Tail(half.left) \in Remaining(fec)
      /\ ToSet(Tail(half.left)) = ToSet(half.left) \ {head}
      /\ Len(half.left) = 1 <=> Tail(half.left) = <<>>
  <2>1. half.left \in Remaining(fec) /\ half.left # <<>>
    BY <1>1, <1>4
  <2> HIDE DEF half
  <2> QED BY <2>1, SuffixIs
<1>6. head \in Role
  BY <1>4, <1>5, RolesAre
<1>7. Base + 3002 < U16 => \A s \in others : Port(s) = Port(r)
  <2> SUFFICES ASSUME Base + 3002 < U16, NEW s \in Routes \ {r}, p \in BoundBy(s) PROVE Port(s) = Port(r)
    OBVIOUS
  <2>1. PICK y \in Role : p = PortOf(Port(s), y)
    BY BoundAre
  <2> QED BY <1>6, <2>1, SameWindow DEF IInv
<1>8. CASE others # {}
  <2>1. PICK s \in others : rx' = [rx EXCEPT ![r] = Failed("bind", s)]
    BY <1>8 DEF Bind
  <2>2. PICK f \in Failure : f = Failed("bind", s) /\ f.st = "failed" /\ f.by = s
    <3>1. Failed("bind", s) \in Failure
      BY DEF Failed, Failure
    <3> QED BY <3>1 DEF Failed
  <2>3. rx'[r] = f
    BY <2>1, <2>2 DEF IInv, Shape
  <2>4. RxOk(r)' /\ BoundBy(r)' = {}
    BY <2>2, <2>3 DEF RxOk, BoundBy, Opened, Failure
  <2>5. Base + 3002 < U16 => ByOk(r)'
    <3>1. Base + 3002 < U16 => Port(s)' = Port(r)'
      BY <1>2, <1>7, RigidIs
    <3>2. rx'[r].by = s /\ s \in Routes \ {r}
      BY <2>2, <2>3
    <3> QED BY <3>1, <3>2 DEF ByOk
  <2>6. rx' = [rx EXCEPT ![r] = f]
    BY <2>1, <2>2
  <2>7. IInv' /\ \A q \in Routes \ {r} : ByOk(q) => ByOk(q)'
    BY <1>2, <1>3, <2>4, <2>6, OneReceiver
  <2> QED BY <2>5, <2>7
<1>9. CASE others = {}
  <2> DEFINE next == [half EXCEPT !.bound = half.bound \cup {p}, !.left = Tail(half.left),
                                  !.st = IF Len(half.left) = 1 THEN "up" ELSE "opened"]
  <2>1. rx' = [rx EXCEPT ![r] = next]
    BY <1>9 DEF Bind
  <2>2. p \in 0..U16 - 1
    BY <1>6, PortOfIs DEF IInv
  <2>3. /\ next \in Receiver /\ next.spec = half.spec /\ next.card = half.card
        /\ next.format = half.format /\ next.bound = half.bound \cup {p}
        /\ next.left = Tail(half.left) /\ (next.st = "up" <=> next.left = <<>>)
        /\ next.st \in {"opened", "up"}
    <3>1. Remaining(fec) \subseteq Remaining(TRUE) \cup Remaining(FALSE)
      BY <1>4 DEF Remaining
    <3>2. Tail(half.left) \in Remaining(TRUE) \cup Remaining(FALSE)
      BY <1>5, <3>1
    <3>3. half.bound \cup {p} \in SUBSET (0..U16 - 1)
      BY <1>1, <2>2 DEF Receiver
    <3> HIDE DEF p
    <3> QED BY <1>1, <1>5, <3>2, <3>3 DEF Receiver
  <2>4. rx'[r] = next
    BY <2>1 DEF IInv, Shape
  <2>5. next.bound = {PortOf(Port(r), x) : x \in ToSet(Endpoints(fec)) \ ToSet(next.left)}
    <3>1. ToSet(Endpoints(fec)) \ ToSet(next.left) = (ToSet(Endpoints(fec)) \ ToSet(half.left)) \cup {head}
      BY <1>5, <2>3
    <3> HIDE DEF next
    <3> QED BY <1>1, <1>4, <2>3, <3>1
  <2> HIDE DEF next
  <2>6. BoundBy(r)' = next.bound /\ ByOk(r)'
    BY <2>3, <2>4 DEF BoundBy, Opened, ByOk
  <2>7. RxOk(r)'
    <3>1. spec'["dst"][r] = half.spec /\ world' = world /\ Receiver' = Receiver /\ Port(r)' = Port(r)
      BY <1>1, <1>2, RigidIs DEF rigid
    <3>2. /\ next \in Receiver' /\ next.spec = spec'["dst"][r] /\ next.spec \in Offered[r]
          /\ next.format = PickFormat(next.spec.format, world'.playback.formats)
          /\ next.left \in Remaining(next.spec.fec) /\ (next.st = "up" <=> next.left = <<>>)
      BY <1>1, <1>4, <1>5, <2>3, <3>1
    <3>3. next.bound = {PortOf(Port(r)', x) : x \in ToSet(Endpoints(next.spec.fec)) \ ToSet(next.left)}
      BY <1>4, <2>3, <2>5, <3>1
    <3>4. Tuple(next.spec) \in ToSet(codecs'["dst"]) /\ (CardId[Patched[r]] # NoId => next.card = Patched[r])
      BY <1>1, <1>2, <2>3
    <3> QED BY <2>4, <3>2, <3>3, <3>4 DEF RxOk
  <2>8. \A q \in Routes \ {r} : BoundBy(r)' \cap BoundBy(q) = {}
    <3>1. BoundBy(r) = half.bound
      BY <1>1 DEF BoundBy, Opened
    <3>2. \A q \in Routes \ {r} : p \notin BoundBy(q) /\ BoundBy(r) \cap BoundBy(q) = {}
      BY <1>9 DEF IInv, Disjoint
    <3> QED BY <2>3, <2>6, <3>1, <3>2
  <2>9. IInv' /\ \A q \in Routes \ {r} : ByOk(q) => ByOk(q)'
    BY <1>2, <1>3, <2>1, <2>7, <2>8, OneReceiver
  <2> QED BY <2>6, <2>9
<1> QED BY <1>8, <1>9

LEMMA ReapInv ==
  ASSUME IInv, NEW r \in Routes, Reap(r)
  PROVE  IInv' /\ \A q \in Routes : ByOk(q) => ByOk(q)'
<1>1. /\ UNCHANGED <<spec, codecs, tx, slot, table, scan, calm>> /\ UNCHANGED rigid
      /\ rx' = [rx EXCEPT ![r] = Down]
  BY DEF Reap, ports
<1>2. /\ codecs' \in [Engines -> Seq(Pairs)] /\ \A e \in Engines : IsInjective(codecs'[e])
      /\ \A e \in Engines : ToSet(codecs[e]) \subseteq ToSet(codecs'[e])
  BY <1>1 DEF IInv, Shape
<1>3. rx'[r] = Down
  BY <1>1 DEF IInv, Shape
<1>4. RxOk(r)' /\ BoundBy(r)' = {} /\ ByOk(r)'
  BY <1>3 DEF RxOk, BoundBy, Opened, ByOk, Down
<1> QED BY <1>1, <1>2, <1>4, OneReceiver

LEMMA ChangeInv ==
  ASSUME IInv, NEW e \in Engines, NEW r \in Routes, Change(e, r)
  PROVE  IInv' /\ \A q \in Routes : ByOk(q) => ByOk(q)'
<1>1. PICK s \in Offered[r] \cup {NoSpec} : spec' = [spec EXCEPT ![e][r] = s]
  BY DEF Change
<1>2. /\ UNCHANGED <<codecs, slot, table, scan, calm>> /\ UNCHANGED rigid
      /\ tx' = IF e = "src" THEN [tx EXCEPT ![r] = Down] ELSE tx
      /\ rx' = IF e = "dst" THEN [rx EXCEPT ![r] = Down] ELSE rx
  BY DEF Change, ports
<1>3. "src" \in Engines /\ "dst" \in Engines /\ s \in AllSpecs \cup {NoSpec}
  BY DEF Engines, AllSpecs
<1>4. /\ spec' \in [Engines -> [Routes -> AllSpecs \cup {NoSpec}]]
      /\ spec'[e][r] = s
      /\ \A d \in Engines, q \in Routes : d # e \/ q # r => spec'[d][q] = spec[d][q]
  BY <1>1, <1>3 DEF IInv, Shape
<1>5. /\ DOMAIN tx' = Routes /\ DOMAIN rx' = Routes
      /\ \A q \in Routes : tx'[q] = IF e = "src" /\ q = r THEN Down ELSE tx[q]
      /\ \A q \in Routes : rx'[q] = IF e = "dst" /\ q = r THEN Down ELSE rx[q]
  BY <1>2 DEF IInv, Shape
<1>6. Shape'
  <2>1. \A d \in Engines, q \in Routes : spec'[d][q] \in Offered[q] \cup {NoSpec}
    BY <1>4 DEF IInv, Shape
  <2> QED BY <1>2, <1>4, <1>5, <2>1, RigidIs DEF IInv, Shape, rigid
<1>7. \A q \in Routes : TxOk(q)'
  <2> SUFFICES ASSUME NEW q \in Routes PROVE TxOk(q)'
    OBVIOUS
  <2>1. CASE e = "src" /\ q = r
    BY <1>5, <2>1 DEF TxOk, Down
  <2>2. CASE ~(e = "src" /\ q = r)
    <3>1. tx'[q] = tx[q] /\ spec'["src"][q] = spec["src"][q]
      BY <1>3, <1>4, <1>5, <2>2
    <3> QED BY <1>2, <3>1, TxKept
  <2> QED BY <2>1, <2>2
<1>8. \A q \in Routes :
        RxOk(q)' /\ (BoundBy(q)' = BoundBy(q) \/ BoundBy(q)' = {}) /\ (ByOk(q) => ByOk(q)')
  <2> SUFFICES ASSUME NEW q \in Routes
               PROVE  RxOk(q)' /\ (BoundBy(q)' = BoundBy(q) \/ BoundBy(q)' = {}) /\ (ByOk(q) => ByOk(q)')
    OBVIOUS
  <2>1. CASE e = "dst" /\ q = r
    <3>1. rx'[q] = Down
      BY <1>5, <2>1
    <3> QED BY <3>1 DEF RxOk, BoundBy, Opened, ByOk, Down
  <2>2. CASE ~(e = "dst" /\ q = r)
    <3>1. rx'[q] = rx[q] /\ spec'["dst"][q] = spec["dst"][q]
      BY <1>3, <1>4, <1>5, <2>2
    <3> QED BY <1>2, <3>1, RxKept
  <2> QED BY <2>1, <2>2
<1>9. Disjoint'
  BY <1>8 DEF IInv, Disjoint
<1> QED BY <1>6, <1>7, <1>8, <1>9 DEF IInv

\* What an enumeration lists are names that cards answer to.
LEMMA EnumeratedIs ==
  ASSUME NEW index \in Indexings, NEW used
  PROVE  /\ Enumerated(index, used) \in [Names -> {NoEntry, Listing(TRUE), Listing(FALSE)}]
         /\ \A n \in Names : Enumerated(index, used)[n] # NoEntry => \E c \in Cards : NameOf(c, index) = n
<1> DEFINE named(n) == {c \in Cards : NameOf(c, index) = n}
           listed(n) == IF named(n) = {} THEN NoEntry ELSE Listing(named(n) \subseteq used)
<1>1. Enumerated(index, used) = [n \in Names |-> listed(n)]
  BY DEF Enumerated
<1>2. \A n \in Names : listed(n) \in {NoEntry, Listing(TRUE), Listing(FALSE)}
  <2> SUFFICES ASSUME NEW n \in Names PROVE listed(n) \in {NoEntry, Listing(TRUE), Listing(FALSE)}
    OBVIOUS
  <2>1. PICK b \in BOOLEAN : b = (named(n) \subseteq used)
    OBVIOUS
  <2>2. Listing(named(n) \subseteq used) = Listing(b)
    BY <2>1
  <2> HIDE DEF named
  <2>3. CASE b = TRUE
    BY <2>2, <2>3
  <2>4. CASE b = FALSE
    BY <2>2, <2>4
  <2> QED BY <2>3, <2>4
<1>3. \A n \in Names : listed(n) # NoEntry => named(n) # {}
  OBVIOUS
<1> HIDE DEF listed
<1> QED BY <1>1, <1>2, <1>3

\* A step that changes only the table and the numbering of the cards.
LEMMA PortsStep ==
  ASSUME IInv, UNCHANGED <<rigid, spec, codecs, tx, rx>>,
         slot' \in Indexings, scan' \in BOOLEAN, calm' \in BOOLEAN,
         table' \in [Names -> {NoEntry, Listing(TRUE), Listing(FALSE)}],
         \A n \in Names : table'[n] # NoEntry => \E c \in Cards : NameOf(c, slot') = n
  PROVE  IInv' /\ \A q \in Routes : ByOk(q) => ByOk(q)'
<1>1. UNCHANGED <<spec, codecs, tx, rx>> /\ UNCHANGED rigid
  OBVIOUS
<1>2. Shape'
  BY <1>1, RigidIs DEF IInv, Shape, rigid
<1>3. \A q \in Routes : TxOk(q)'
  BY <1>1, TxKept
<1>4. \A q \in Routes : RxOk(q)' /\ BoundBy(q)' = BoundBy(q) /\ (ByOk(q) => ByOk(q)')
  BY <1>1, RxKept
<1>5. Disjoint'
  BY <1>4 DEF IInv, Disjoint
<1> QED BY <1>2, <1>3, <1>4, <1>5 DEF IInv

LEMMA RebootInv ==
  ASSUME IInv, Reboot
  PROVE  IInv' /\ \A q \in Routes : ByOk(q)'
<1>1. /\ UNCHANGED <<world, hash, stored, spec, tx, calm>> /\ UNCHANGED rigid /\ scan' = FALSE
      /\ rx' = [r \in Routes |-> Down] /\ codecs' = [codecs EXCEPT !["dst"] = <<>>]
  BY DEF Reboot, rigid
<1>2. "src" \in Engines /\ "dst" \in Engines /\ "src" # "dst"
  BY DEF Engines
<1>3. <<>> \in Seq(Pairs) /\ IsInjective(<<>>)
  BY DEF IsInjective
<1>4. /\ codecs' \in [Engines -> Seq(Pairs)] /\ \A e \in Engines : IsInjective(codecs'[e])
      /\ codecs'["src"] = codecs["src"]
  BY <1>1, <1>2, <1>3 DEF IInv, Shape
<1>5. /\ slot' \in Indexings /\ table' \in [Names -> {NoEntry, Listing(TRUE), Listing(FALSE)}]
      /\ \A n \in Names : table'[n] # NoEntry => \E c \in Cards : NameOf(c, slot') = n
  <2>1. PICK index \in Indexings : index = slot'
    BY DEF Reboot
  <2>2. table' = [n \in Names |-> LET named == {c \in Cards : NameOf(c, index) = n}
                   IN  IF named = {} THEN NoEntry ELSE Listing(named \subseteq {})]
    BY <1>1, <2>1 DEF Reboot, Enumerated, Listing
  <2>3. table' = Enumerated(index, {})
    BY <2>2 DEF Enumerated
  <2> QED BY <2>1, <2>3, EnumeratedIs
<1>6. Shape'
  BY <1>1, <1>4, <1>5, RigidIs DEF IInv, Shape
<1>7. \A q \in Routes : TxOk(q)'
  BY <1>1, <1>4, TxKept
<1>8. \A q \in Routes : RxOk(q)' /\ BoundBy(q)' = {} /\ ByOk(q)'
  BY <1>1 DEF RxOk, BoundBy, Opened, ByOk, Down
<1>9. Disjoint'
  BY <1>8 DEF Disjoint
<1> QED BY <1>6, <1>7, <1>8, <1>9 DEF IInv

LEMMA InitInv == Init => IInv /\ \A q \in Routes : ByOk(q)
<1> SUFFICES ASSUME Init PROVE IInv /\ \A q \in Routes : ByOk(q)
  OBVIOUS
<1>1. /\ world \in Worlds /\ hash \in [Routes -> UNION {Hashes[r] : r \in Routes}]
      /\ slot = FirstSlot /\ stored = [r \in Routes |-> NameOf(Patched[r], slot)]
      /\ table = Enumerated(slot, {}) /\ scan = FALSE /\ calm = FALSE
      /\ spec = [e \in Engines |-> [r \in Routes |-> NoSpec]]
      /\ codecs = [e \in Engines |-> <<>>]
      /\ tx = [r \in Routes |-> Down] /\ rx = [r \in Routes |-> Down]
  BY DEF Init
<1>2. <<>> \in Seq(Pairs) /\ IsInjective(<<>>)
  BY DEF IsInjective
<1>3. /\ slot \in Indexings /\ table \in [Names -> {NoEntry, Listing(TRUE), Listing(FALSE)}]
      /\ \A n \in Names : table[n] # NoEntry => \E c \in Cards : NameOf(c, slot) = n
  BY <1>1, FirstAssumption, EnumeratedIs
<1>4. stored = [r \in Routes |-> NameOf(Patched[r], FirstSlot)]
  BY <1>1 DEF NameOf
<1>5. Shape
  BY <1>1, <1>2, <1>3, <1>4 DEF Shape
<1>6. \A q \in Routes : TxOk(q) /\ RxOk(q) /\ BoundBy(q) = {} /\ ByOk(q)
  BY <1>1 DEF TxOk, RxOk, BoundBy, Opened, ByOk, Down
<1> QED BY <1>5, <1>6 DEF IInv, Disjoint

\* The conditions are inductive; who has a port that a bind wanted is in the
\* same window, as long as the windows are apart.
LEMMA NextInv ==
  ASSUME IInv, [Next]_vars
  PROVE  /\ IInv'
         /\ Base + 3002 < U16 => \A q \in Routes : ByOk(q) => ByOk(q)'
<1>1. ASSUME NEW r \in Routes, OpenSender(r) PROVE IInv' /\ \A q \in Routes : ByOk(q) => ByOk(q)'
  BY <1>1, OpenSenderInv
<1>2. ASSUME NEW r \in Routes, HalfStep(r)
      PROVE  IInv' /\ (Base + 3002 < U16 => \A q \in Routes : ByOk(q) => ByOk(q)')
  BY <1>2, OpenDeviceInv, BindInv, ReapInv DEF HalfStep
<1>3. ASSUME NEW e \in Engines, NEW r \in Routes, Change(e, r)
      PROVE  IInv' /\ \A q \in Routes : ByOk(q) => ByOk(q)'
  BY <1>3, ChangeInv
<1>4. CASE RescanBegins
  <2>1. /\ UNCHANGED <<rigid, spec, codecs, tx, rx>> /\ slot' = slot /\ calm' = calm /\ scan' = TRUE
        /\ table' = [n \in Names |-> NoEntry]
    BY <1>4 DEF RescanBegins
  <2>2. slot' \in Indexings /\ calm' \in BOOLEAN /\ scan' \in BOOLEAN
    BY <2>1 DEF IInv, Shape
  <2> QED BY <2>1, <2>2, PortsStep
<1>5. CASE RescanEnds
  <2>1. /\ UNCHANGED <<rigid, spec, codecs, tx, rx>> /\ slot' = slot /\ calm' = calm /\ scan' = FALSE
        /\ table' = Enumerated(slot, InUse)
    BY <1>5 DEF RescanEnds
  <2>2. slot' \in Indexings /\ calm' \in BOOLEAN /\ scan' \in BOOLEAN /\ slot \in Indexings
    BY <2>1 DEF IInv, Shape
  <2>3. /\ table' \in [Names -> {NoEntry, Listing(TRUE), Listing(FALSE)}]
        /\ \A n \in Names : table'[n] # NoEntry => \E c \in Cards : NameOf(c, slot) = n
    BY <2>1, <2>2, EnumeratedIs
  <2>4. \A n \in Names : table'[n] # NoEntry => \E c \in Cards : NameOf(c, slot') = n
    BY <2>1, <2>3
  <2>5. IInv' /\ \A q \in Routes : ByOk(q) => ByOk(q)'
    BY <2>1, <2>2, <2>3, <2>4, PortsStep
  <2> QED BY <2>5
<1>6. CASE Reboot
  BY <1>6, RebootInv
<1>7. CASE Calm
  <2>1. UNCHANGED <<rigid, spec, codecs, tx, rx>> /\ slot' = slot /\ calm' = TRUE /\ scan' = scan /\ table' = table
    BY <1>7 DEF Calm, ports
  <2>2. /\ slot' \in Indexings /\ calm' \in BOOLEAN /\ scan' \in BOOLEAN
        /\ table' \in [Names -> {NoEntry, Listing(TRUE), Listing(FALSE)}]
    BY <2>1 DEF IInv, Shape
  <2>3. \A n \in Names : table'[n] # NoEntry => \E c \in Cards : NameOf(c, slot') = n
    BY <2>1 DEF IInv, Shape, NameOf
  <2>4. UNCHANGED <<rigid, spec, codecs, tx, rx>>
    BY <2>1
  <2>5. IInv' /\ \A q \in Routes : ByOk(q) => ByOk(q)'
    BY <2>2, <2>3, <2>4, PortsStep
  <2> QED BY <2>5
<1>8. CASE UNCHANGED vars
  <2>1. UNCHANGED <<rigid, spec, codecs, tx, rx>> /\ slot' = slot /\ calm' = calm /\ scan' = scan /\ table' = table
    BY <1>8 DEF vars, ports
  <2>2. /\ slot' \in Indexings /\ calm' \in BOOLEAN /\ scan' \in BOOLEAN
        /\ table' \in [Names -> {NoEntry, Listing(TRUE), Listing(FALSE)}]
    BY <2>1 DEF IInv, Shape
  <2>3. \A n \in Names : table'[n] # NoEntry => \E c \in Cards : NameOf(c, slot') = n
    BY <2>1 DEF IInv, Shape, NameOf
  <2>4. UNCHANGED <<rigid, spec, codecs, tx, rx>>
    BY <2>1
  <2>5. IInv' /\ \A q \in Routes : ByOk(q) => ByOk(q)'
    BY <2>2, <2>3, <2>4, PortsStep
  <2> QED BY <2>5
<1> QED BY <1>1, <1>2, <1>3, <1>4, <1>5, <1>6, <1>7, <1>8 DEF Next

THEOREM Inductive == Spec => []IInv
<1>1. Init => IInv
  BY InitInv
<1>2. IInv /\ [Next]_vars => IInv'
  BY NextInv
<1> QED BY <1>1, <1>2, PTL DEF Spec

ByInv == \A r \in Routes : ByOk(r)

\* The route named as the owner of a port that could not be bound is in the
\* window of the one that wanted it, for as long as the failure stands.
LEMMA Blamed ==
  ASSUME Base + 3002 < U16
  PROVE  Spec => []ByInv
<1>1. Init => ByInv
  BY InitInv DEF ByInv
<1>2. IInv /\ ByInv /\ [Next]_vars => ByInv'
  BY NextInv DEF ByInv
<1> QED BY <1>1, <1>2, Inductive, PTL DEF Spec

-----------------------------------------------------------------------------
(* What follows                                                            *)

LEMMA SenderIs ==
  ASSUME IInv, NEW r \in Routes, Sending(r)
  PROVE  /\ spec["src"][r] \in Offered[r] /\ tx[r] = SenderFor(r, spec["src"][r])
         /\ tx[r].spec = spec["src"][r]
         /\ Opens(world.capture, tx[r].spec, tx[r].spec.from)
         /\ Tuple(tx[r].spec) \in ToSet(codecs["src"])
<1>1. tx[r] # Down
  BY DEF Sending, Down
<1>2. PICK s \in Offered[r] :
        /\ s = spec["src"][r] /\ tx[r] = SenderFor(r, s)
        /\ Opens(world.capture, s, s.from) /\ Tuple(s) \in ToSet(codecs["src"])
  BY <1>1 DEF IInv, TxOk
<1>3. tx[r].spec = s
  BY <1>2 DEF SenderFor
<1> QED BY <1>2, <1>3

LEMMA ReceiverIs ==
  ASSUME IInv, NEW r \in Opened
  PROVE  /\ r \in Routes /\ rx[r] \in Receiver
         /\ rx[r].spec = spec["dst"][r] /\ rx[r].spec \in Offered[r]
         /\ rx[r].format = PickFormat(rx[r].spec.format, world.playback.formats)
         /\ rx[r].left \in Remaining(rx[r].spec.fec) /\ (rx[r].st = "up" <=> rx[r].left = <<>>)
         /\ rx[r].bound = {PortOf(Port(r), x) : x \in ToSet(Endpoints(rx[r].spec.fec)) \ ToSet(rx[r].left)}
         /\ Tuple(rx[r].spec) \in ToSet(codecs["dst"])
         /\ CardId[Patched[r]] # NoId => rx[r].card = Patched[r]
BY DEF IInv, RxOk, Opened, Down, Failure

\* Audio never lands in another route's control channel, nor, unless the hashes
\* of the two ids pick the same of the thousand windows, anywhere else in
\* another route's receiver (routing.rs 216-225).
THEOREM OnlyTwins ==
  ASSUME Base + 3002 < U16
  PROVE  Spec => []HearsOnlyTwins
<1>1. ASSUME IInv PROVE HearsOnlyTwins
  <2> SUFFICES ASSUME NEW r \in Routes, NEW s \in Routes, Sending(s),
                      NEW e \in tx[s].to, e[2] \in BoundBy(r)
               PROVE  Port(r) = Port(s) /\ e[2] = PortOf(Port(r), e[1])
    BY DEF HearsOnlyTwins
  <2>1. PICK y \in Role : e[2] = PortOf(Port(r), y)
    BY <1>1, BoundAre
  <2>2. PICK x \in ToSet(Endpoints(tx[s].spec.fec)) : e = <<x, PortOf(Port(s), x)>>
    <3>1. PICK t \in Offered[s] : t = spec["src"][s] /\ tx[s] = SenderFor(s, t) /\ t = tx[s].spec
      BY <1>1, SenderIs
    <3> QED BY <3>1 DEF SenderFor
  <2>3. x \in Role
    <3>1. tx[s].spec.fec \in BOOLEAN
      BY <1>1, SenderIs, OfferedIs
    <3> QED BY <2>2, <3>1, RolesAre
  <2>4. PortOf(Port(r), y) = PortOf(Port(s), x)
    BY <2>1, <2>2
  <2>5. Port(r) = Port(s) /\ x = y
    BY <1>1, <2>3, <2>4, SameWindow DEF IInv
  <2> QED BY <2>2, <2>5
<1> QED BY <1>1, Inductive, PTL

\* A bind that failed is explained by the route that has the port, as long as
\* that one is configured (routing.rs 278-308).
THEOREM ConflictIsNamed ==
  ASSUME Base + 3002 < U16
  PROVE  Spec => []ConflictNamed
<1>1. ASSUME ByInv PROVE ConflictNamed
  <2> SUFFICES ASSUME NEW r \in Routes, rx[r].st = "failed", rx[r].by \in Configured
               PROVE  rx[r].by \in PortConflicts(r)
    BY DEF ConflictNamed
  <2>1. rx[r].by # NoRoute
    BY NamesAssumption DEF Configured
  <2> QED BY <1>1, <2>1 DEF ByInv, ByOk, PortConflicts
<1> QED BY <1>1, Blamed, PTL

\* Two ends that have the same route agree, without having negotiated: the
\* receiver's ports are the sender's, and the encoding's id in the packets
\* means, at both engines, the tuple that is sent, unless roc knows another
\* tuple with that id (transport/mod.rs 162-166).
THEOREM EndsOfRouteAgree == Spec => []TrioMeets
<1>1. ASSUME IInv PROVE TrioMeets
  <2> SUFFICES ASSUME NEW r \in Routes, Carried(r)
               PROVE  /\ {e[2] : e \in tx[r].to} = rx[r].bound
                      /\ \A e \in Engines :
                           ~Ambiguous(e, tx[r].spec) => Meaning(codecs[e], tx[r].id) = Tuple(tx[r].spec)
    BY DEF TrioMeets
  <2>0. Sending(r) /\ Receiving(r) /\ tx[r].spec = rx[r].spec /\ r \in Opened
    BY DEF Carried, Receiving, Opened
  <2>1. PICK s \in Offered[r] :
          s = tx[r].spec /\ tx[r] = SenderFor(r, s) /\ Tuple(s) \in ToSet(codecs["src"])
    BY <1>1, <2>0, SenderIs
  <2>2. s = rx[r].spec /\ Tuple(s) \in ToSet(codecs["dst"])
    BY <1>1, <2>0, <2>1, ReceiverIs
  <2>3. {e[2] : e \in tx[r].to} = {PortOf(Port(r), x) : x \in ToSet(Endpoints(s.fec))}
    <3>1. tx[r].to = {<<x, PortOf(Port(r), x)>> : x \in ToSet(Endpoints(s.fec))}
      BY <2>1 DEF SenderFor
    <3>2. \A e \in tx[r].to : e[2] \in {PortOf(Port(r), x) : x \in ToSet(Endpoints(s.fec))}
      BY <3>1
    <3>3. ASSUME NEW x \in ToSet(Endpoints(s.fec)) PROVE \E e \in tx[r].to : e[2] = PortOf(Port(r), x)
      <4>1. <<x, PortOf(Port(r), x)>> \in tx[r].to
        BY <3>1
      <4> QED BY <4>1
    <3> QED BY <3>2, <3>3
  <2>4. rx[r].bound = {PortOf(Port(r), x) : x \in ToSet(Endpoints(s.fec))}
    <3>1. rx[r].left = <<>>
      BY <1>1, <2>0, ReceiverIs DEF Receiving
    <3>2. rx[r].bound = {PortOf(Port(r), x) : x \in ToSet(Endpoints(s.fec)) \ ToSet(<<>>)}
      BY <1>1, <2>0, <2>2, <3>1, ReceiverIs
    <3>3. ToSet(Endpoints(s.fec)) \ ToSet(<<>>) = ToSet(Endpoints(s.fec))
      BY OfferedIs, RolesAre
    <3> QED BY <3>2, <3>3
  <2>5. ASSUME NEW e \in Engines, ~Ambiguous(e, s)
        PROVE  Meaning(codecs[e], tx[r].id) = Tuple(s)
    <3>1. tx[r].id = EncodingId(Tuple(s)[1], Tuple(s)[2])
      BY <2>1 DEF SenderFor, Tuple
    <3>2. codecs[e] \in Seq(Pairs) /\ Tuple(s) \in ToSet(codecs[e])
      BY <1>1, <2>1, <2>2 DEF IInv, Shape, Engines
    <3>3. \A u \in ToSet(codecs[e]) :
            u # Tuple(s) => EncodingId(u[1], u[2]) # EncodingId(Tuple(s)[1], Tuple(s)[2])
      BY <2>5 DEF Ambiguous, Tuple
    <3> QED BY <3>1, <3>2, <3>3, MeaningIs
  <2> QED BY <2>1, <2>3, <2>4, <2>5
<1> QED BY <1>1, Inductive, PTL

\* A device is opened in a format it has, in one its port was listed with, and
\* in none that drops bits another would have kept (format.rs 20-47); and the
\* card that plays is the one the route was patched to, however the cards have
\* been numbered since, if it has an id (devices.rs 118-148).
THEOREM DevicesAreHonest == Spec => []DeviceHonest
<1>1. ASSUME IInv PROVE DeviceHonest
  <2>0. world.capture.formats \in SUBSET Formats /\ world.playback.formats \in SUBSET Formats
    BY <1>1, WorldsAssumption DEF IInv, Shape
  <2>1. ASSUME NEW r \in Routes, Sending(r)
        PROVE  /\ tx[r].format \in world.capture.formats
               /\ \A f \in world.capture.formats :
                    Resolution(tx[r].format) >= AtMost(AtMost(Resolution(f), Resolution(tx[r].spec.format)), 24)
    <3>1. PICK s \in Offered[r] :
            s = tx[r].spec /\ tx[r] = SenderFor(r, s) /\ Opens(world.capture, s, s.from)
      BY <1>1, <2>1, SenderIs
    <3>2. tx[r].format = PickFormat(s.format, world.capture.formats)
      BY <3>1 DEF SenderFor
    <3>3. s.format \in Formats /\ PickFormat(s.format, world.capture.formats) # NoFormat
      BY <3>1, OfferedIs DEF Opens
    <3> QED BY <2>0, <3>1, <3>2, <3>3, PickIs
  <2>2. ASSUME NEW r \in Opened
        PROVE  /\ rx[r].format \in world.playback.formats
               /\ \A f \in world.playback.formats :
                    Resolution(rx[r].format) >= AtMost(AtMost(Resolution(f), Resolution(rx[r].spec.format)), 24)
               /\ CardId[Patched[r]] # NoId => rx[r].card = Patched[r]
    <3>1. rx[r].format = PickFormat(rx[r].spec.format, world.playback.formats) /\ rx[r].format \in Formats
      BY <1>1, ReceiverIs DEF Receiver
    <3>2. rx[r].spec.format \in Formats /\ rx[r].format # NoFormat
      BY <1>1, <3>1, ReceiverIs, OfferedIs DEF Formats, NoFormat
    <3> QED BY <1>1, <2>0, <3>1, <3>2, PickIs, ReceiverIs
  <2>3. ASSUME NEW r \in Opened, table[stored[r]] # NoEntry, ~table[stored[r]].failed
        PROVE  rx[r].format \in table[stored[r]].formats
    <3>1. table[stored[r]] \in {NoEntry, Listing(TRUE), Listing(FALSE)}
      <4>1. stored[r] \in Names
        BY <1>1, <2>3, StoredIs, ReceiverIs DEF IInv
      <4> QED BY <1>1, <4>1 DEF IInv, Shape
    <3>2. table[stored[r]] = Listing(FALSE)
      <4>1. Listing(TRUE).failed
        BY Zenon DEF Listing
      <4> QED BY <2>3, <3>1, <4>1
    <3>3. Formats = CandidateFormats
      BY DEF Formats, CandidateFormats
    <3>4. Listing(FALSE).formats = IF world.playback.formats \cap CandidateFormats = {} THEN {"S16Le"}
                                   ELSE world.playback.formats \cap CandidateFormats
      BY DEF Listing
    <3>5. rx[r].format \in world.playback.formats
      BY <2>2, <2>3
    <3> QED BY <2>0, <3>2, <3>3, <3>4, <3>5
  <2> QED BY <2>1, <2>2, <2>3 DEF DeviceHonest
<1> QED BY <1>1, Inductive, PTL

\* At whatever depth the governor asks for, the device gets to start, and then
\* wakes the thread (pcm.rs 160-186).
THEOREM NobodyWaitsForRoom == Spec => []DepthWakes
<1>1. ASSUME NEW w \in Worlds, NEW s \in AllSpecs PROVE Wakes[w][s]
  <2> DEFINE good == \A wish \in 2..BufferPeriods :
               LET buffer == w.playback.buffer
                   q      == PlaybackDepth(buffer, s.period, wish)
               IN  /\ q.start <= buffer
                   /\ q.availMin \in 1..buffer
                   /\ \A k \in 0..BufferPeriods :
                        k * s.period < q.start => buffer - k * s.period >= q.availMin
  <2>1. Wakes[w][s] = good
    BY DEF Wakes
  <2>2. w.playback.buffer \in Nat \ {0} /\ s.period \in Nat
    BY WorldsAssumption, OfferedIs DEF AllSpecs
  <2>3. good
    <3> SUFFICES ASSUME NEW wish \in 2..BufferPeriods
                 PROVE  LET buffer == w.playback.buffer
                            q      == PlaybackDepth(buffer, s.period, wish)
                        IN  /\ q.start <= buffer
                            /\ q.availMin \in 1..buffer
                            /\ \A k \in 0..BufferPeriods :
                                 k * s.period < q.start => buffer - k * s.period >= q.availMin
      OBVIOUS
    <3>1. PICK buffer \in Nat \ {0} : buffer = w.playback.buffer
      BY <2>2
    <3>2. PICK period \in Nat : period = s.period
      BY <2>2
    <3>3. PICK depth \in Nat : depth = wish
      BY DEF BufferPeriods
    <3>4. PICK q : q = PlaybackDepth(buffer, period, depth)
      OBVIOUS
    <3>5. \A k \in Nat : /\ q.start \in 1..buffer /\ q.availMin \in 1..buffer
                         /\ k * period < q.start => buffer - k * period >= q.availMin
      BY <3>4, PlaybackWakes
    <3>6. q.start <= buffer /\ q.availMin \in 1..buffer
      BY <3>5
    <3>7. \A k \in 0..BufferPeriods : k * period < q.start => buffer - k * period >= q.availMin
      <4>1. \A k \in 0..BufferPeriods : k \in Nat
        BY DEF BufferPeriods
      <4> QED BY <3>5, <4>1
    <3> QED BY <3>1, <3>2, <3>3, <3>4, <3>6, <3>7
  <2> QED BY <2>1, <2>3
<1>2. ASSUME IInv PROVE DepthWakes
  <2>1. world \in Worlds
    BY <1>2 DEF IInv, Shape
  <2>2. \A r \in Opened : rx[r].spec \in AllSpecs
    BY <1>2, ReceiverIs, OfferedIs
  <2> QED BY <1>1, <2>1, <2>2 DEF DepthWakes
<1> QED BY <1>2, Inductive, PTL

\* Periods are powers of two, as sender.rs says of them, and no longer than a
\* second: then a period is a whole number of packets, roc is told their
\* length, and none is longer than the link the sender is pinned to carries
\* (sender.rs 158-191).
THEOREM PacketsAlwaysFit ==
  ASSUME \A r \in Routes : \A s \in Offered[r] :
           /\ \E n \in 0..MaxHalvings : s.period = 2^n
           /\ s.period <= s.rate
  PROVE  Spec => []PacketsFit
<1>1. ASSUME IInv PROVE PacketsFit
  <2> SUFFICES ASSUME NEW r \in Routes, Sending(r)
               PROVE  LET s == tx[r].spec
                          payload == tx[r].frames * s.channels * WireBytes
                      IN  /\ s.period % tx[r].frames = 0
                          /\ world.pinned /\ world.mtu >= 100 + MinPayload =>
                               payload <= world.mtu - 100 \/ tx[r].frames = 1
                          /\ ~world.pinned => payload <= DefaultMaxPayload \/ tx[r].frames = 1
                          /\ PacketLength(tx[r].frames, s.rate) > 0
    BY DEF PacketsFit
  <2>1. PICK s \in Offered[r] : s = tx[r].spec /\ tx[r] = SenderFor(r, s)
    BY <1>1, SenderIs
  <2>2. PICK n \in 0..MaxHalvings : s.period = 2^n
    OBVIOUS
  <2>3. PICK cap \in Nat :
          /\ cap = MaxPayload
          /\ world.pinned /\ world.mtu >= 100 + MinPayload => cap = world.mtu - 100
          /\ ~world.pinned => cap = DefaultMaxPayload
    <3>1. world.mtu \in Nat /\ world.pinned \in BOOLEAN
      BY <1>1, WorldsAssumption DEF IInv, Shape
    <3>2. MaxPayloadForMtu(world.mtu) \in Nat
          /\ (world.mtu >= 228 => MaxPayloadForMtu(world.mtu) = world.mtu - 100)
      BY <3>1 DEF MaxPayloadForMtu, AtLeast, MinPayload
    <3> QED BY <3>1, <3>2 DEF MaxPayload, DefaultMaxPayload, MinPayload
  <2>4. s.channels \in Nat /\ s.rate \in Nat /\ s.period <= s.rate
    BY OfferedIs
  <2>5. PICK frames \in Nat \ {0} :
          /\ frames = tx[r].frames /\ frames <= s.period /\ s.period % frames = 0
          /\ frames = 1 \/ frames * AtLeast(s.channels, 1) * WireBytes <= cap
    <3>1. tx[r].frames = FramesPerPacket(2^n, s.channels, cap)
      BY <2>1, <2>2, <2>3 DEF SenderFor
    <3> QED BY <2>2, <2>4, <3>1, FramesAre
  <2>6. frames * s.channels * WireBytes <= cap \/ frames = 1
    <3>1. PICK c \in Nat : c = AtLeast(s.channels, 1) /\ s.channels <= c
      BY <2>4 DEF AtLeast
    <3>2. \A a, b, d \in Nat : a <= b => d * a * 4 <= d * b * 4
      OBVIOUS
    <3> QED BY <2>4, <2>5, <3>1, <3>2 DEF WireBytes
  <2>7. PacketLength(frames, s.rate) > 0
    <3>1. s.period \in Nat
      BY OfferedIs
    <3> QED BY <2>4, <2>5, <3>1 DEF PacketLength
  <2> QED BY <2>1, <2>3, <2>5, <2>6, <2>7
<1> QED BY <1>1, Inductive, PTL

\* Every window that may be offered carries what it is there for.
LEMMA WindowsCarry ==
  ASSUME NEW s \in AllSpecs
  PROVE  Carries[s]
<1> DEFINE n     == s.channels
           from  == s.from
           to    == s.to
           in    == Width(s, from)
           out   == Width(s, to)
           src   == Frames(in)
           heard == Scatter(Extract(src, in, from, n), n, out, to)
           good  == /\ Len(heard) = 2 * out
                    /\ \A f \in 0..1, c \in 1..out :
                         heard[f * out + c] = IF c > to THEN src[f * in + c - to + from] ELSE Silence
<1>1. n \in Nat \ {0} /\ from \in Nat /\ to \in Nat
  BY OfferedAssumption DEF AllSpecs
<1>2. /\ in \in Nat \ {0} /\ out \in Nat \ {0}
      /\ in = from + n /\ out = to + n
  BY <1>1 DEF Width
<1>3. Len(src) \in Nat /\ Len(src) = 2 * in
  <2> HIDE DEF in
  <2> QED BY <1>2 DEF Frames
<1>4. Len(src) \div in = 2
  <2> HIDE DEF src
  <2>1. (2 * in + 0) \div in = 2
    <3> HIDE DEF in
    <3>1. 0 \in 0..in - 1
      BY <1>2
    <3> QED BY <1>2, <3>1, DivMod
  <2> HIDE DEF in
  <2>2. 2 * in + 0 = 2 * in
    BY <1>2
  <2> QED BY <1>3, <2>1, <2>2
<1>5. good
  <2> DEFINE frames == Len(src) \div in
  <2> HIDE DEF n, from, to, src, in, out
  <2>1. from + n <= in /\ to + n <= out /\ in \in Nat /\ out \in Nat
    BY <1>1, <1>2
  <2>2. /\ Len(heard) = frames * out
        /\ \A f \in 0..frames - 1, c \in 1..out :
             heard[f * out + c] = IF c \in to + 1..to + n THEN src[f * in + c - to + from] ELSE Silence
    <3>1. CopiesRight(src, in, from, n, out, to)
      BY <1>1, <1>3, <2>1, WindowCarried
    <3> QED BY <3>1 DEF CopiesRight
  <2>3. frames = 2
    BY <1>4
  <2>4. \A f \in 0..1 : f \in 0..2 - 1
    OBVIOUS
  <2>5. \A c \in 1..out : c \in to + 1..to + n <=> c > to
    BY <1>1, <1>2
  <2> HIDE DEF heard, frames
  <2> QED BY <2>2, <2>3, <2>4, <2>5
<1>6. Carries[s] = good
  BY DEF Carries
<1> QED BY <1>5, <1>6

\* Every format but the float's own carries the samples the runs look at.
LEMMA FormatsCarry ==
  ASSUME NEW f \in Formats \ {"F32Le"}
  PROVE  Survives[f]
<1> DEFINE good == \A v \in Samples(f) :
             LET b == Pack(f, v) IN
             /\ Unpack(f, b) = v
             /\ f = "S24Le" => Unpack(f, [b EXCEPT ![4] = 0]) = v
<1>1. ASSUME NEW v \in Samples(f) PROVE v \in Int /\ -Top(f) - 1 <= v /\ v <= Top(f)
  BY <1>1, SMT DEF Samples, Top
<1>2. 0 \in Int
  OBVIOUS
<1>3. good
  BY <1>1, <1>2, SamplesSurvive
<1>4. Survives[f] = good
  BY DEF Survives
<1> QED BY <1>3, <1>4

\* What the listener hears on each channel is what the source has on the
\* channel it was patched from, and nothing next to the window; and a device's
\* samples are read as it wrote them (window.rs 1-35, format.rs 91-130).
THEOREM SignalIsCarried == Spec => []SignalCarried
<1>1. ASSUME IInv PROVE SignalCarried
  <2>1. ASSUME NEW r \in Routes, Carried(r) PROVE Carries[tx[r].spec]
    <3>1. tx[r].spec \in AllSpecs
      BY <1>1, <2>1, SenderIs, OfferedIs DEF Carried
    <3> QED BY <3>1, WindowsCarry
  <2>2. ASSUME NEW r \in Opened, rx[r].format # "F32Le" PROVE Survives[rx[r].format]
    <3>1. rx[r] \in Receiver
      BY <1>1, ReceiverIs
    <3>2. rx[r].format \in Formats
      BY <3>1 DEF Receiver
    <3> QED BY <2>2, <3>2, FormatsCarry
  <2> QED BY <2>1, <2>2 DEF SignalCarried
<1> QED BY <1>1, Inductive, PTL

\* A half that is open is open with the route's present spec, a receiver is up
\* when nothing is left to bind, and no two receivers share a port.
THEOREM TypeCorrect == Spec => []TypeOK
<1>1. ASSUME IInv PROVE TypeOK
  <2>1. stored \in [Routes -> Names]
    <3>1. \A r \in Routes : stored[r] \in Names
      BY <1>1, StoredIs DEF IInv
    <3> QED BY <1>1, <3>1 DEF IInv, Shape
  <2>2. \A r \in Routes : tx[r].st \in {"down", "up"} /\ (tx[r].st = "up" => tx[r].spec = spec["src"][r])
    <3> SUFFICES ASSUME NEW r \in Routes
                 PROVE  tx[r].st \in {"down", "up"} /\ (tx[r].st = "up" => tx[r].spec = spec["src"][r])
      OBVIOUS
    <3>1. CASE tx[r] = Down
      BY <3>1 DEF Down
    <3>2. CASE tx[r] # Down
      <4>1. spec["src"][r] \in Offered[r] /\ tx[r] = SenderFor(r, spec["src"][r])
        BY <1>1, <3>2 DEF IInv, TxOk
      <4> QED BY <4>1 DEF SenderFor
    <3> QED BY <3>1, <3>2
  <2>3. \A r \in Routes : rx[r].st \in {"down", "failed", "opened", "up"}
    <3> SUFFICES ASSUME NEW r \in Routes PROVE rx[r].st \in {"down", "failed", "opened", "up"}
      OBVIOUS
    <3>1. rx[r] = Down \/ rx[r] \in Failure \/ rx[r] \in Receiver
      BY <1>1 DEF IInv, RxOk
    <3>2. \A half \in Receiver : half.st \in {"opened", "up"}
      BY DEF Receiver
    <3> QED BY <3>1, <3>2 DEF Down, Failure
  <2>4. \A r \in Opened : /\ rx[r].spec = spec["dst"][r]
                          /\ rx[r].bound \subseteq 0..U16 - 1
                          /\ (rx[r].st = "up") = (rx[r].left = <<>>)
    BY <1>1, ReceiverIs DEF Receiver
  <2> QED BY <1>1, <2>1, <2>2, <2>3, <2>4 DEF IInv, Shape, Disjoint, TypeOK
<1> QED BY <1>1, Inductive, PTL
=============================================================================
