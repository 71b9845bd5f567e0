---------------------------- MODULE VideoPathProofs ----------------------------
(***************************************************************************)
(* The shared output of the decoder's pool, for every number of threads,   *)
(* every slice height, every picture a sender may choose and every display *)
(* it may be put on; and the queue between the session and its consumer,   *)
(* for every byte cap, backlog and sequence of frames.                     *)
(***************************************************************************)
EXTENDS VideoPath, FiniteSetTheorems, WellFoundedInduction, TLAPS

\* A worker between taking a job and reporting it.
Working == {"claim", "write", "stop", "report"}

SessionLabels ==
    {"idle", "release", "join", "configure", "refuse", "spawn", "load", "prepare", "publish",
     "over"} \cup Decoding

WorkerLabels == {"none", "check", "asleep", "exited"} \cup Working

AtTypes ==
    /\ at \in [Threads -> SessionLabels \cup WorkerLabels]
    /\ at[0] \in SessionLabels
    /\ \A t \in Threads : t # 0 => at[t] \in WorkerLabels
    /\ after \in {"idle", "over", "configure", "refuse"}
    /\ at[0] \in {"release", "join"} => after # "idle"

PoolTypes ==
    /\ pool = [generation |-> pool.generation, running |-> pool.running,
               shutdown |-> pool.shutdown, job |-> pool.job]
    /\ pool.generation \in Nat /\ pool.running \in Nat /\ pool.shutdown \in BOOLEAN
    /\ next \in Nat /\ failed \in BOOLEAN
    /\ seen \in [Threads -> Nat] /\ mine \in [Threads -> Nat]
    /\ job = [t \in Threads |-> job[t]]

\* The workers the session's thread has to wait for: those at work, and those
\* that have yet to take the job it published.
Owing ==
    {t \in Threads : t # 0 /\ (at[t] \in Working \/ (at[t] = "check" /\ seen[t] # pool.generation))}

\* The count of running workers is right; nobody is owed while the session's
\* thread is elsewhere; a sleeper has missed nothing; and a worker leaves only
\* when the pool is being joined.
CountInv ==
    /\ pool.running = Cardinality(Owing)
    /\ at[0] \notin Decoding => Owing = {}
    /\ pool.shutdown => at[0] = "join"
    /\ \A t \in Threads : t # 0 => /\ at[t] = "asleep" => seen[t] = pool.generation
                                   /\ at[t] \in Working => seen[t] = pool.generation
                                   /\ at[t] = "exited" => pool.shutdown
    /\ at[0] \in {"configure", "spawn"} =>
           pool.generation = 0 /\ \A t \in Threads : seen[t] = 0

\* Everyone works on the job of the decoder as it is.
JobInv ==
    /\ Owing # {} => pool.job = TheJob
    /\ \A t \in Threads : at[t] \in {"claim", "write", "stop"} => job[t] = TheJob

\* A claimed slice is one claimed by nobody else.
ClaimInv ==
    /\ \A t \in Threads : at[t] = "write" => mine[t] \in DOMAIN streams /\ mine[t] < next
    /\ \A s, t \in Threads : s # t /\ at[s] = "write" /\ at[t] = "write" => mine[s] # mine[t]

\* The decoder, from its making to its release.
DecoderInv ==
    decoder.video # None =>
        /\ decoder = [video |-> decoder.video, loaded |-> decoder.loaded,
                      placing |-> decoder.placing, fit |-> decoder.fit,
                      surface |-> decoder.surface, matrix |-> decoder.matrix]
        /\ decoder.video \in Videos /\ decoder.placing \in BOOLEAN
        /\ decoder.surface.w \in Int /\ decoder.surface.h \in Int
        /\ decoder.placing => {decoder.fit.x, decoder.fit.y, decoder.fit.w, decoder.fit.h} \subseteq Int
        /\ DOMAIN streams = Slices(decoder.video)
        /\ streams = [i \in DOMAIN streams |-> streams[i]]

HasDecoder == {"spawn", "load", "prepare", "publish"} \cup Decoding

\* What the session's thread is busy with.
WantedInv ==
    /\ at[0] \in HasDecoder => decoder.video = wanted /\ wanted \in Videos
    /\ at[0] = "configure" => wanted \in Videos /\ out = {}
    /\ at[0] \in {"release", "join"} /\ after = "configure" => wanted \in Videos /\ out = {}
    /\ at[0] \in {"spawn", "load", "prepare", "publish"} => out = {}
    /\ kind = "Audio" => at[0] = "idle" /\ result = "none"

\* Every slice's streams and the matrix are of the frame just loaded.
LoadedInv ==
    at[0] \in {"prepare", "publish"} \cup Decoding =>
        /\ \A i \in DOMAIN streams : streams[i] = [dc |-> lastTaken, ac |-> lastTaken]
        /\ decoder.matrix = lastTaken

\* Before anything is published the placement was checked and the destination
\* rows shared out among the slices.
PlacementInv ==
    at[0] \in {"publish"} \cup Decoding =>
        /\ decoder.placing => /\ Acceptable(decoder.video, decoder.fit, decoder.surface)
                              /\ placed = PlacedRanges(decoder.video, decoder.fit)
        /\ ~decoder.placing => decoder.surface.h >= decoder.video.h

\* Slices claimed and finished.
Finished ==
    {i \in DOMAIN streams : i < next /\ \A t \in Threads : at[t] = "write" => mine[t] # i}

Drawn(i) == {Content(TheJob, i, w) : w \in Writes(TheJob, i)}

\* What is on the surface is what the finished slices have to write, until one
\* fails; and a thread that waits has seen the last slice claimed.
OutInv ==
    /\ at[0] \in Decoding /\ ~failed => out = UNION {Drawn(i) : i \in Finished}
    /\ \A t \in Threads : at[t] = "stop" => failed
    /\ at[0] \in {"wait", "asleep"} => \A i \in DOMAIN streams : i < next
    /\ at[0] = "publish" => next = 0

IInv ==
    /\ AtTypes /\ PoolTypes /\ CountInv /\ JobInv /\ ClaimInv
    /\ DecoderInv /\ WantedInv /\ LoadedInv /\ PlacementInv /\ OutInv /\ WholePicture
--------------------------------------------------------------------------------
(* Numbers: what the provers do not know by themselves.                    *)

\* A set of naturals has a least element.
LEMMA Least ==
    ASSUME NEW T \in SUBSET Nat, T # {}
    PROVE  \E x \in T : \A y \in T : x <= y
  <1> DEFINE R == {p \in Nat \X Nat : p[1] < p[2]}
  <1>1. IsWellFoundedOn(R, Nat)
    BY NatLessThanWellFounded DEF OpToRel
  <1>2. \A x, y \in Nat : y < x => <<y, x>> \in R
    OBVIOUS
  <1> HIDE DEF R
  <1>3. PICK x \in T : \A y \in T : ~(<<y, x>> \in R)
    BY <1>1, WFMin
  <1>4. \A y \in T : x \in Nat /\ y \in Nat /\ ~(y < x)
    BY <1>2, <1>3
  <1>5. \A y \in T : x <= y
    BY <1>4
  <1> QED  BY <1>5

LEMMA LeastIsMin ==
    ASSUME NEW T \in SUBSET Nat, T # {}
    PROVE  Min(T) \in T /\ \A y \in T : Min(T) <= y
  BY Least DEF Min

\* A bounded one has a greatest, and so does every finite list of naturals.
LEMMA Greatest ==
    ASSUME NEW T \in SUBSET Nat, T # {}, NEW b \in Nat, \A y \in T : y <= b
    PROVE  \E x \in T : \A y \in T : x >= y
  <1> DEFINE U == {n \in Nat : \A y \in T : y <= n}
  <1>1. U \in SUBSET Nat /\ U # {}
    OBVIOUS
  <1>2. PICK u \in U : \A n \in U : u <= n
    BY <1>1, Least
  <1>3. u \in T
    <2> SUFFICES ASSUME u \notin T PROVE FALSE
      OBVIOUS
    <2>1. PICK y \in T : TRUE
      OBVIOUS
    <2>2. y \in Nat /\ y < u /\ u - 1 \in Nat
      BY <1>2, <2>1
    <2>3. \A z \in T : z <= u - 1
      BY <1>2
    <2>4. u - 1 \in U
      BY <2>2, <2>3
    <2> QED  BY <1>2, <2>2, <2>4
  <1> QED  BY <1>2, <1>3

LEMMA GreatestIsMax ==
    ASSUME NEW T \in SUBSET Nat, T # {}, NEW b \in Nat, \A y \in T : y <= b
    PROVE  Max(T) \in T /\ \A y \in T : Max(T) >= y
  BY Greatest DEF Max

LEMMA GreatestValue ==
    ASSUME NEW n \in Nat, NEW S \in SUBSET (1 .. n), S # {}, NEW f, \A i \in S : f[i] \in Nat
    PROVE  \E i \in S : \A j \in S : f[j] <= f[i]
  <1> DEFINE Bound(k) == \E b \in Nat : \A j \in S : j <= k => f[j] <= b
             Bad == {k \in 0 .. n : ~Bound(k)}
  <1>0. Bad \in SUBSET Nat /\ \A k \in 0 .. n : k \notin Bad => Bound(k)
    OBVIOUS
  <1>1. Bad = {}
    <2> SUFFICES ASSUME Bad # {} PROVE FALSE
      OBVIOUS
    <2>2. Bound(0)
      <3>1. \A j \in S : j <= 0 => f[j] <= 0
        OBVIOUS
      <3> QED  BY <3>1
    <2>a. \A k \in Bad : k \in 0 .. n /\ ~Bound(k)
      OBVIOUS
    <2> HIDE DEF Bad, Bound
    <2>1. PICK k \in Bad : \A m \in Bad : k <= m
      BY <1>0, Least
    <2>3. k \in 0 .. n /\ k # 0 /\ ~Bound(k)
      BY <2>1, <2>2, <2>a
    <2>4. k - 1 \in 0 .. n /\ k - 1 \notin Bad
      BY <2>1, <2>3
    <2>b. Bound(k - 1)
      BY <1>0, <2>4
    <2>5. PICK b \in Nat : \A j \in S : j <= k - 1 => f[j] <= b
      BY <2>b DEF Bound
    <2>6. \A j \in S : j <= k => j <= k - 1 \/ j = k
      BY <2>3
    <2>7. CASE k \in S
      <3>1. PICK c \in Nat : f[k] <= c /\ b <= c
        <4>1. f[k] \in Nat /\ f[k] + b \in Nat /\ f[k] <= f[k] + b /\ b <= f[k] + b
          BY <2>7
        <4> QED  BY <4>1
      <3>2. ASSUME NEW j \in S, j <= k PROVE f[j] <= c
        <4>1. f[j] \in Nat /\ f[k] \in Nat
          BY <2>7
        <4>2. CASE j = k
          BY <3>1, <4>2
        <4>3. CASE j <= k - 1
          <5>1. f[j] <= b
            BY <2>5, <4>3
          <5> QED  BY <3>1, <4>1, <5>1
        <4> QED  BY <2>6, <3>2, <4>2, <4>3
      <3> QED  BY <2>3, <3>2 DEF Bound
    <2>8. CASE k \notin S
      <3>1. \A j \in S : j <= k => f[j] <= b
        BY <2>5, <2>6, <2>8
      <3> QED  BY <2>3, <3>1 DEF Bound
    <2> QED  BY <2>7, <2>8
  <1>2. PICK b \in Nat : \A j \in S : f[j] <= b
    <2>1. Bound(n)
      <3> HIDE DEF Bad, Bound
      <3> QED  BY <1>0, <1>1
    <2> QED  BY <2>1
  <1> DEFINE T == {f[j] : j \in S}
  <1>3. T \in SUBSET Nat /\ T # {} /\ \A y \in T : y <= b
    BY <1>2
  <1>4. PICK x \in T : \A y \in T : x >= y
    BY <1>3, Greatest
  <1>5. PICK i \in S : f[i] = x
    BY <1>4
  <1>6. \A j \in S : f[j] \in T /\ f[j] \in Nat /\ f[i] \in Nat
    OBVIOUS
  <1>7. \A j \in S : f[j] <= f[i]
    BY <1>4, <1>5, <1>6
  <1> QED  BY <1>7

LEMMA LeastValue ==
    ASSUME NEW n \in Nat, NEW S \in SUBSET (1 .. n), S # {}, NEW f, \A i \in S : f[i] \in Nat
    PROVE  \E i \in S : \A j \in S : f[i] <= f[j]
  <1> DEFINE T == {f[j] : j \in S}
  <1>1. T \in SUBSET Nat /\ T # {}
    OBVIOUS
  <1>2. PICK x \in T : \A y \in T : x <= y
    BY <1>1, Least
  <1>3. PICK i \in S : f[i] = x
    BY <1>2
  <1>4. \A j \in S : f[i] <= f[j]
    BY <1>2, <1>3
  <1> QED  BY <1>4

\* A table that never falls from one entry to the next never falls.
LEMMA Rising ==
    ASSUME NEW n \in Nat, NEW f, \A y \in 0 .. n - 1 : f[y] \in Nat,
           \A y \in 1 .. n - 1 : f[y - 1] <= f[y]
    PROVE  \A x, y \in 0 .. n - 1 : x <= y => f[x] <= f[y]
  <1> SUFFICES ASSUME NEW x \in 0 .. n - 1 PROVE \A y \in 0 .. n - 1 : x <= y => f[x] <= f[y]
    OBVIOUS
  <1> DEFINE Bad == {y \in 0 .. n - 1 : x <= y /\ ~(f[x] <= f[y])}
  <1>1. Bad \in SUBSET Nat /\ \A y \in 0 .. n - 1 : x <= y /\ y \notin Bad => f[x] <= f[y]
    OBVIOUS
  <1>2. \A y \in Bad : y \in 0 .. n - 1 /\ x <= y /\ ~(f[x] <= f[y])
    OBVIOUS
  <1> HIDE DEF Bad
  <1>3. Bad = {}
    <2> SUFFICES ASSUME Bad # {} PROVE FALSE
      OBVIOUS
    <2>1. PICK y \in Bad : \A z \in Bad : y <= z
      BY <1>1, Least
    <2>2. y \in 0 .. n - 1 /\ x <= y /\ ~(f[x] <= f[y]) /\ f[x] \in Nat /\ f[y] \in Nat
      BY <1>2
    <2>3. y # x
      BY <2>2
    <2>4. y \in 1 .. n - 1 /\ y - 1 \in 0 .. n - 1 /\ x <= y - 1 /\ y - 1 \notin Bad
      BY <2>1, <2>2, <2>3
    <2>5. f[x] <= f[y - 1] /\ f[y - 1] <= f[y] /\ f[y - 1] \in Nat
      BY <1>1, <2>4
    <2> QED  BY <2>2, <2>5
  <1> QED  BY <1>1, <1>3

LEMMA DivType ==
    ASSUME NEW a \in Int, NEW b \in Nat \ {0}
    PROVE  a \div b \in Int /\ (a >= 0 => a \div b \in Nat)
  OBVIOUS

\* Division is what it is: a \div s is the i for which i s <= a < (i + 1) s.
LEMMA DivBand ==
    ASSUME NEW a \in Nat, NEW s \in Nat \ {0}, NEW i \in Nat
    PROVE  (a \div s = i) <=> (i * s <= a /\ a < (i + 1) * s)
  OBVIOUS

LEMMA SliceOf ==
    ASSUME NEW h \in Nat \ {0}, NEW s \in Nat \ {0}, NEW a \in 0 .. h - 1
    PROVE  a \div s \in 0 .. (h + s - 1) \div s - 1
  OBVIOUS
--------------------------------------------------------------------------------
(* The mode and the place of the picture in it.                            *)

LEMMA Constants ==
    /\ Workers \in Nat \ {0} /\ SliceHeight \in Nat \ {0} /\ 0 \in Threads
    /\ \A t \in Threads : t \in Nat
  BY VideoPathAssumption DEF Threads

\* best_rate() picks one of the modes it is given.
LEMMA BestRateIn ==
    ASSUME NEW d \in Displays, NEW C \in SUBSET (1 .. Len(d)), C # {}, NEW rate
    PROVE  BestRate(d, C, rate) \in C
  <1> DEFINE asked == <<IF rate < 4000 THEN 2 * rate ELSE rate, rate,
                        ((rate + 50) \div 100) * 100, 6000>>
             hits(k) == {i \in C : Near(d[i].rate, asked[k])}
             level == {k \in 1 .. 4 : hits(k) # {}}
             fastest == {i \in C : \A j \in C : d[j].rate <= d[i].rate}
             S == IF level # {} THEN hits(Min(level)) ELSE fastest
             rates == [i \in C |-> d[i].rate]
  <1>1. BestRate(d, C, rate) = Min(S)
    BY DEF BestRate
  <1>a. Len(d) \in Nat /\ \A i \in 1 .. Len(d) : d[i].rate \in Nat
    BY VideoPathAssumption
  <1>2. \A i \in C : i \in Nat /\ rates[i] \in Nat
    <2> HIDE DEF asked, hits, level, fastest, S
    <2> QED  BY <1>a
  <1>b. \A i \in C : rates[i] = d[i].rate
    OBVIOUS
  <1>3. fastest # {}
    <2> HIDE DEF rates, asked, hits, level, S
    <2>1. PICK i \in C : \A j \in C : rates[j] <= rates[i]
      BY <1>a, <1>2, GreatestValue
    <2>2. i \in fastest
      BY <1>b, <2>1
    <2> QED  BY <2>2
  <1>4. fastest \subseteq C /\ \A k : hits(k) \subseteq C
    OBVIOUS
  <1>5. level # {} => hits(Min(level)) # {}
    <2>1. level \in SUBSET Nat
      OBVIOUS
    <2>2. \A k \in level : hits(k) # {}
      OBVIOUS
    <2> HIDE DEF level, hits
    <2> QED  BY <2>1, <2>2, LeastIsMin
  <1>6. S # {} /\ S \in SUBSET Nat /\ S \subseteq C
    <2> HIDE DEF level, hits, fastest
    <2> QED  BY <1>2, <1>3, <1>4, <1>5
  <1> HIDE DEF S
  <1> QED  BY <1>1, <1>6, LeastIsMin

\* choose_mode() picks a mode of the list.
LEMMA ChosenMode ==
    ASSUME NEW d \in Displays, NEW v \in Videos, Usable(d) # {}
    PROVE  \E i \in 1 .. Len(d) : ChooseMode(d, v).mode = d[i]
  <1>1. Len(d) \in Nat /\ \A i \in 1 .. Len(d) : d[i].w \in Nat /\ d[i].h \in Nat
    BY VideoPathAssumption
  <1>2. Usable(d) \in SUBSET (1 .. Len(d)) /\ \A z : SameSize(d, z) \in SUBSET (1 .. Len(d))
    BY DEF Usable, SameSize
  <1>3. \E i \in Usable(d) : NearestSize(d, v) = d[i]
    <2> DEFINE into == {i \in Usable(d) : d[i].w <= v.w /\ d[i].h <= v.h}
               big == {i \in into : \A j \in into : Area(d[j]) <= Area(d[i])}
               small == {i \in Usable(d) : \A j \in Usable(d) : Area(d[i]) <= Area(d[j])}
               area == [i \in 1 .. Len(d) |-> Area(d[i])]
    <2>1. \A i \in 1 .. Len(d) : area[i] \in Nat /\ i \in Nat /\ i <= Len(d)
      BY <1>1 DEF Area
    <2>2. NearestSize(d, v) = IF into # {} THEN d[Max(big)] ELSE d[Min(small)]
      BY DEF NearestSize
    <2>3. CASE into # {}
      <3>1. into \in SUBSET (1 .. Len(d))
        BY <1>2
      <3>2. PICK i \in into : \A j \in into : area[j] <= area[i]
        BY <1>1, <2>1, <2>3, <3>1, GreatestValue
      <3>3. i \in big
        BY <3>1, <3>2
      <3>4. big \in SUBSET Nat /\ big \subseteq Usable(d) /\ \A y \in big : y <= Len(d)
        BY <2>1, <3>1
      <3> HIDE DEF big
      <3>5. Max(big) \in big
        BY <1>1, <3>3, <3>4, GreatestIsMax
      <3> QED  BY <2>2, <2>3, <3>4, <3>5
    <2>4. CASE into = {}
      <3>2. PICK i \in Usable(d) : \A j \in Usable(d) : area[i] <= area[j]
        BY <1>1, <1>2, <2>1, LeastValue
      <3>3. i \in small
        BY <1>2, <3>2
      <3>4. small \in SUBSET Nat /\ small \subseteq Usable(d)
        BY <1>2, <2>1
      <3> HIDE DEF small
      <3>5. Min(small) \in small
        BY <3>3, <3>4, LeastIsMin
      <3> QED  BY <2>2, <2>4, <3>4, <3>5
    <2> QED  BY <2>3, <2>4
  <1>4. SameSize(d, NearestSize(d, v)) # {}
    BY <1>3 DEF SameSize
  <1>5. CASE SameSize(d, v) # {}
    BY <1>2, <1>5, BestRateIn DEF ChooseMode
  <1>6. CASE SameSize(d, v) = {}
    BY <1>2, <1>4, <1>6, BestRateIn DEF ChooseMode
  <1> QED  BY <1>5, <1>6

LEMMA MaxTwo ==
    ASSUME NEW a \in Int, NEW b \in Int
    PROVE  Max({a, b}) \in Int
  <1>1. \E x \in {a, b} : \A y \in {a, b} : x >= y
    <2>1. CASE a >= b
      BY <2>1
    <2>2. CASE b >= a
      BY <2>2
    <2> QED  BY <2>1, <2>2
  <1> QED  BY <1>1 DEF Max

LEMMA MinTwo ==
    ASSUME NEW a \in Int, NEW b \in Int
    PROVE  Min({a, b}) \in {a, b} /\ Min({a, b}) <= a /\ Min({a, b}) <= b
  <1>1. \E x \in {a, b} : \A y \in {a, b} : x <= y
    <2>1. CASE a <= b
      BY <2>1
    <2>2. CASE b <= a
      BY <2>2
    <2> QED  BY <2>1, <2>2
  <1> QED  BY <1>1 DEF Min

LEMMA FitTypes ==
    ASSUME NEW v \in Videos, NEW m, m.w \in Nat \ {0}, m.h \in Nat \ {0}
    PROVE  {Fit(v, m).x, Fit(v, m).y, Fit(v, m).w, Fit(v, m).h} \subseteq Int
  <1>1. v.w \in Nat \ {0} /\ v.h \in Nat \ {0}
    BY VideoPathAssumption
  <1> DEFINE tall == v.w * m.h <= m.w * v.h
             a == IF tall THEN (v.w * m.h) \div v.h ELSE m.w
             b == IF tall THEN m.h ELSE (m.w * v.h) \div v.w
  <1>2. v.w * m.h \in Int /\ m.w * v.h \in Int
    BY <1>1
  <1>3. a \in Int /\ b \in Int
    BY <1>1, <1>2, DivType
  <1> HIDE DEF a, b
  <1> DEFINE w == Max({1, a})
             h == Max({1, b})
  <1>4. w \in Int /\ h \in Int
    BY <1>3, MaxTwo
  <1>5. Fit(v, m) = [x |-> (m.w - w) \div 2, y |-> (m.h - h) \div 2, w |-> w, h |-> h]
    BY DEF Fit, a, b
  <1> HIDE DEF w, h
  <1>6. (m.w - w) \div 2 \in Int /\ (m.h - h) \div 2 \in Int
    BY <1>4
  <1> QED  BY <1>4, <1>5, <1>6

\* The source row of a destination row is a row of the picture.
LEMMA SampleTypes ==
    ASSUME NEW i \in Nat, NEW n \in Nat \ {0}, NEW source \in Nat \ {0}
    PROVE  Sample(i, n, source) \in 0 .. source - 1
  <1> DEFINE q == ((2 * i + 1) * source) \div (2 * n)
  <1>1. (2 * i + 1) * source \in Nat /\ 2 * n \in Nat \ {0}
    OBVIOUS
  <1>2. q \in Nat
    BY <1>1, DivType
  <1> HIDE DEF q
  <1>3. Sample(i, n, source) = Min({q, source - 1})
    BY DEF Sample, q
  <1>4. source - 1 \in Nat
    OBVIOUS
  <1> DEFINE m == Min({q, source - 1})
  <1>5. m \in {q, source - 1} /\ m <= source - 1
    BY <1>2, <1>4, MinTwo
  <1> HIDE DEF m
  <1>6. m \in 0 .. source - 1
    BY <1>2, <1>4, <1>5
  <1> QED  BY <1>3, <1>6 DEF m
--------------------------------------------------------------------------------
(* The slices share the picture out.                                       *)

\* Upto() counts exactly the leading rows that lie above the slice's end.
LEMMA UptoIs ==
    ASSUME NEW n \in Nat, NEW f, \A y \in 0 .. n - 1 : f[y] \in Nat,
           \A y \in 1 .. n - 1 : f[y - 1] <= f[y], NEW i \in Nat
    PROVE  /\ Upto(f, n, i) \in 0 .. n
           /\ \A y \in 0 .. n - 1 : y < Upto(f, n, i) <=> f[y] < (i + 1) * SliceHeight
  <1> DEFINE L == (i + 1) * SliceHeight
             T == {y \in 0 .. n - 1 : f[y] >= L} \cup {n}
             u == Upto(f, n, i)
  <1>1. L \in Nat
    BY Constants
  <1>2. u = CHOOSE k \in 0 .. n : /\ \A y \in 0 .. k - 1 : f[y] < L
                                  /\ k < n => f[k] >= L
    BY DEF Upto
  <1>a. T \in SUBSET Nat /\ T # {} /\ n \in T
    OBVIOUS
  <1>b. /\ \A y \in T : y \in 0 .. n /\ (y < n => f[y] >= L)
        /\ \A y \in 0 .. n - 1 : y \notin T => ~(f[y] >= L)
    OBVIOUS
  <1> HIDE DEF L, T, u
  <1>3. PICK k \in T : \A y \in T : k <= y
    BY <1>a, Least
  <1>4. k \in 0 .. n /\ (k < n => f[k] >= L)
    BY <1>b
  <1>5. ASSUME NEW y \in 0 .. k - 1 PROVE f[y] < L
    <2>1. y \in 0 .. n - 1 /\ y \notin T
      BY <1>3, <1>4
    <2> QED  BY <1>1, <1>b, <2>1
  <1>6. /\ u \in 0 .. n /\ \A y \in 0 .. u - 1 : f[y] < L
        /\ u < n => f[u] >= L
    BY <1>2, <1>4, <1>5
  <1>7. ASSUME NEW y \in 0 .. n - 1 PROVE y < u <=> f[y] < L
    <2>1. CASE y < u
      BY <1>6, <2>1
    <2>2. CASE u <= y
      <3>1. u < n /\ u \in 0 .. n - 1 /\ f[u] \in Nat /\ f[y] \in Nat
        BY <1>6, <2>2
      <3>2. f[u] <= f[y]
        BY <2>2, <3>1, Rising
      <3> QED  BY <1>1, <1>6, <2>2, <3>1, <3>2
    <2> QED  BY <1>6, <2>1, <2>2
  <1> QED  BY <1>6, <1>7 DEF L, u

\* So a destination row is in the range of exactly the slice that holds its
\* source row.
LEMMA RangeOf ==
    ASSUME NEW v \in Videos, NEW p, NEW surface, p.h \in Int, Acceptable(v, p, surface),
           NEW i \in Slices(v)
    PROVE  /\ PlacedRanges(v, p)[i].first \in 0 .. p.h
           /\ PlacedRanges(v, p)[i].end \in 0 .. p.h
           /\ \A y \in 0 .. p.h - 1 :
                  y \in PlacedRanges(v, p)[i].first .. PlacedRanges(v, p)[i].end - 1
                      <=> Rows(v, p)[y] \div SliceHeight = i
  <1> DEFINE f == Rows(v, p)
             n == p.h
             a == IF i = 0 THEN 0 ELSE Upto(f, n, i - 1)
             b == Upto(f, n, i)
  <1>1. /\ v.w \in Nat \ {0} /\ v.h \in Nat \ {0} /\ n \in Nat \ {0}
        /\ SliceHeight \in Nat \ {0}
    BY VideoPathAssumption DEF Acceptable
  <1>2. i \in Nat
    <2>1. v.h + SliceHeight - 1 \in Nat
      BY <1>1
    <2>2. (v.h + SliceHeight - 1) \div SliceHeight \in Int
      BY <1>1, <2>1, DivType
    <2> QED  BY <2>2 DEF Slices
  <1>3. \A y \in 0 .. n - 1 : f[y] = Sample(y, n, v.h) /\ f[y] \in 0 .. v.h - 1
    <2>1. \A y \in 0 .. n - 1 : y \in Nat /\ f[y] = Sample(y, n, v.h)
      BY <1>1 DEF Rows
    <2> HIDE DEF f, n, a, b
    <2>2. \A y \in 0 .. n - 1 : Sample(y, n, v.h) \in 0 .. v.h - 1
      BY <1>1, <2>1, SampleTypes
    <2> QED  BY <2>1, <2>2
  <1>4. \A y \in 1 .. n - 1 : f[y - 1] <= f[y]
    BY DEF Acceptable
  <1>5. PlacedRanges(v, p)[i] = [first |-> a, end |-> b]
    BY DEF PlacedRanges
  <1>6. \A y \in 0 .. n - 1 : f[y] \in Nat
    BY <1>1, <1>3
  <1> HIDE DEF f, n
  <1>7. b \in 0 .. n /\ \A y \in 0 .. n - 1 : y < b <=> f[y] < (i + 1) * SliceHeight
    BY <1>1, <1>2, <1>4, <1>6, UptoIs
  <1>8. a \in 0 .. n /\ \A y \in 0 .. n - 1 : y < a <=> f[y] < i * SliceHeight
    <2>1. CASE i = 0
      <3>1. i * SliceHeight = 0 /\ a = 0
        BY <1>1, <2>1
      <3> QED  BY <1>1, <1>6, <3>1
    <2>2. CASE i # 0
      <3>1. i - 1 \in Nat /\ (i - 1) + 1 = i /\ a = Upto(f, n, i - 1)
        BY <1>2, <2>2
      <3>2. /\ Upto(f, n, i - 1) \in 0 .. n
            /\ \A y \in 0 .. n - 1 : y < Upto(f, n, i - 1) <=> f[y] < ((i - 1) + 1) * SliceHeight
        BY <1>1, <1>4, <1>6, <3>1, UptoIs
      <3> QED  BY <3>1, <3>2
    <2> QED  BY <2>1, <2>2
  <1> HIDE DEF a, b
  <1>9. ASSUME NEW y \in 0 .. n - 1
        PROVE  y \in a .. b - 1 <=> f[y] \div SliceHeight = i
    <2>1. (f[y] \div SliceHeight = i) <=> (i * SliceHeight <= f[y] /\ f[y] < (i + 1) * SliceHeight)
      BY <1>1, <1>2, <1>6, DivBand
    <2>2. i * SliceHeight \in Nat /\ f[y] \in Nat
      BY <1>1, <1>2, <1>6
    <2>3. y \in a .. b - 1 <=> ~(y < a) /\ y < b
      BY <1>1, <1>7, <1>8
    <2> QED  BY <1>7, <1>8, <2>1, <2>2, <2>3
  <1> QED  BY <1>5, <1>7, <1>8, <1>9 DEF f, n

Targets(i) == {w.to : w \in Writes(TheJob, i)}

\* What the checked placement gives the threads: every slice writes inside the
\* surface, no two write the same row, each writes from its own source rows,
\* and together they write the whole picture.
LEMMA SlicesShare ==
    ASSUME DecoderInv, WantedInv, PlacementInv, at[0] \in {"publish"} \cup Decoding
    PROVE  /\ \A i \in DOMAIN streams : Fits(TheJob, i)
           /\ \A i, k \in DOMAIN streams : i # k => Targets(i) \cap Targets(k) = {}
           /\ \A i \in DOMAIN streams : \A w \in Writes(TheJob, i) : w.from \in Band(wanted, i)
           /\ \A i \in DOMAIN streams : Writes(TheJob, i) \subseteq Picture
           /\ \A w \in Picture : \E i \in DOMAIN streams : w \in Writes(TheJob, i)
  <1> DEFINE v == decoder.video
             p == decoder.fit
             s == decoder.surface
  <1>1. /\ v = wanted /\ v \in Videos /\ v # None /\ v.h \in Nat \ {0}
        /\ SliceHeight \in Nat \ {0}
    <2>1. v = wanted /\ v \in Videos
      BY DEF WantedInv, HasDecoder
    <2>2. v.w \in Nat \ {0} /\ v.h \in Nat \ {0} /\ SliceHeight \in Nat \ {0}
      BY <2>1, VideoPathAssumption
    <2>3. v # None
      BY <2>2 DEF None
    <2> QED  BY <2>1, <2>2, <2>3
  <1>2. /\ DOMAIN streams = Slices(v) /\ decoder.placing \in BOOLEAN /\ s.h \in Int
        /\ decoder.placing => {p.x, p.y, p.w, p.h} \subseteq Int
    BY <1>1 DEF DecoderInv
  <1>3. Slices(v) \subseteq Nat /\ \A r \in 0 .. v.h - 1 : r \div SliceHeight \in Slices(v)
    <2>1. (v.h + SliceHeight - 1) \div SliceHeight \in Int
      <3>1. v.h + SliceHeight - 1 \in Int
        BY <1>1
      <3> QED  BY <1>1, <3>1, DivType
    <2>2. Slices(v) \subseteq Nat
      BY <2>1 DEF Slices
    <2>3. \A r \in 0 .. v.h - 1 : r \div SliceHeight \in Slices(v)
      BY <1>1, SliceOf DEF Slices
    <2> QED  BY <2>2, <2>3
  <1>4. /\ TheJob.placed = decoder.placing /\ TheJob.video = v /\ TheJob.fit = p
        /\ TheJob.surface = s
    BY DEF TheJob
  <1>5. \A i : Band(v, i) = {r \in 0 .. v.h - 1 : r \div SliceHeight = i}
    BY DEF Band
  <1>6. CASE ~decoder.placing
    <2>1. \A i : Writes(TheJob, i) = {[to |-> r, from |-> r] : r \in Band(v, i)}
      BY <1>4, <1>6 DEF Writes
    <2>2. Picture = {[to |-> r, from |-> r] : r \in 0 .. v.h - 1}
      BY <1>1, <1>6 DEF Picture
    <2>3. s.h >= v.h
      BY <1>6 DEF PlacementInv
    <2>4. \A i : Fits(TheJob, i)
      <3>1. \A i : \A r \in Band(v, i) : r < s.h
        BY <1>1, <1>2, <1>5, <2>3
      <3> QED  BY <1>4, <2>1, <3>1 DEF Fits
    <2>5. ASSUME NEW i, NEW r \in Targets(i) PROVE r \in Band(v, i)
      <3>1. PICK w \in Writes(TheJob, i) : r = w.to
        BY DEF Targets
      <3> QED  BY <2>1, <3>1
    <2>6. \A i, k : i # k => Band(v, i) \cap Band(v, k) = {}
      BY <1>5
    <2>7. \A i : \A w \in Writes(TheJob, i) : w.from \in Band(v, i)
      BY <2>1
    <2>8. \A i : Writes(TheJob, i) \subseteq Picture
      BY <1>5, <2>1, <2>2
    <2>9. ASSUME NEW w \in Picture PROVE \E i \in DOMAIN streams : w \in Writes(TheJob, i)
      <3>1. PICK r \in 0 .. v.h - 1 : w = [to |-> r, from |-> r]
        BY <2>2
      <3>2. r \div SliceHeight \in Slices(v) /\ r \in Band(v, r \div SliceHeight)
        BY <1>3, <1>5
      <3> QED  BY <1>2, <2>1, <3>1, <3>2
    <2> QED  BY <1>1, <2>4, <2>5, <2>6, <2>7, <2>8, <2>9
  <1>7. CASE decoder.placing
    <2> DEFINE f == Rows(v, p)
               row(y) == [to |-> p.y + y, from |-> f[y]]
               range(i) == placed[i].first .. placed[i].end - 1
    <2>1. Acceptable(v, p, s) /\ placed = PlacedRanges(v, p)
      BY <1>7 DEF PlacementInv
    <2>2. p.h \in Nat \ {0} /\ p.y \in Int /\ p.y + p.h <= s.h
      BY <1>2, <1>7, <2>1 DEF Acceptable
    <2>3. \A i : Writes(TheJob, i) = {row(y) : y \in range(i)}
      BY <1>4, <1>7 DEF Writes
    <2>4. \A y \in 0 .. p.h - 1 : f[y] = Sample(y, p.h, v.h) /\ f[y] \in 0 .. v.h - 1
      <3>1. \A y \in 0 .. p.h - 1 : y \in Nat /\ f[y] = Sample(y, p.h, v.h)
        BY <2>2 DEF Rows
      <3>2. \A y \in 0 .. p.h - 1 : Sample(y, p.h, v.h) \in 0 .. v.h - 1
        BY <1>1, <2>2, <3>1, SampleTypes
      <3> QED  BY <3>1, <3>2
    <2>5. Picture = {row(y) : y \in 0 .. p.h - 1}
      <3>1. Picture = {[to |-> p.y + y, from |-> Sample(y, p.h, v.h)] : y \in 0 .. p.h - 1}
        BY <1>1, <1>7 DEF Picture
      <3> QED  BY <2>4, <3>1
    <2>6. \A i \in Slices(v) : /\ range(i) \subseteq 0 .. p.h - 1
                               /\ \A y \in 0 .. p.h - 1 :
                                      y \in range(i) <=> f[y] \div SliceHeight = i
      <3> SUFFICES ASSUME NEW i \in Slices(v)
                   PROVE  /\ range(i) \subseteq 0 .. p.h - 1
                          /\ \A y \in 0 .. p.h - 1 :
                                 y \in range(i) <=> f[y] \div SliceHeight = i
        OBVIOUS
      <3>1. /\ placed[i].first \in 0 .. p.h /\ placed[i].end \in 0 .. p.h
            /\ \A y \in 0 .. p.h - 1 :
                   y \in placed[i].first .. placed[i].end - 1 <=> f[y] \div SliceHeight = i
        BY <1>1, <2>1, <2>2, RangeOf
      <3> QED  BY <2>2, <3>1
    <2> HIDE DEF f, range
    <2>7. ASSUME NEW i \in Slices(v) PROVE Fits(TheJob, i)
      <3>1. \A y \in range(i) : p.y + y < s.h
        BY <1>2, <2>2, <2>6
      <3> QED  BY <1>4, <2>3, <3>1 DEF Fits
    <2>8. ASSUME NEW i, NEW r \in Targets(i) PROVE \E y \in range(i) : r = p.y + y
      <3>1. PICK w \in Writes(TheJob, i) : r = w.to
        BY DEF Targets
      <3>2. PICK y \in range(i) : w = row(y)
        BY <2>3
      <3> QED  BY <3>1, <3>2
    <2>9. ASSUME NEW i \in Slices(v), NEW k \in Slices(v), i # k
          PROVE  Targets(i) \cap Targets(k) = {}
      <3>1. \A y \in range(i), z \in range(k) : y # z
        BY <2>6, <2>9
      <3>2. \A y \in range(i), z \in range(k) : y \in Int /\ z \in Int
        BY <2>6
      <3>3. \A y \in range(i), z \in range(k) : p.y + y # p.y + z
        BY <2>2, <3>1, <3>2
      <3> QED  BY <2>8, <3>3
    <2>10. ASSUME NEW i \in Slices(v), NEW w \in Writes(TheJob, i) PROVE w.from \in Band(v, i)
      <3>1. PICK y \in range(i) : w = row(y)
        BY <2>3
      <3>2. y \in 0 .. p.h - 1 /\ f[y] \div SliceHeight = i /\ f[y] \in 0 .. v.h - 1
        BY <2>4, <2>6
      <3> QED  BY <1>5, <3>1, <3>2
    <2>11. ASSUME NEW i \in Slices(v) PROVE Writes(TheJob, i) \subseteq Picture
      BY <2>3, <2>5, <2>6
    <2>12. ASSUME NEW w \in Picture PROVE \E i \in Slices(v) : w \in Writes(TheJob, i)
      <3>1. PICK y \in 0 .. p.h - 1 : w = row(y)
        BY <2>5
      <3> DEFINE i == f[y] \div SliceHeight
      <3>2. i \in Slices(v)
        BY <1>3, <2>4
      <3>3. y \in range(i)
        BY <2>6, <3>2
      <3> QED  BY <2>3, <3>1, <3>2, <3>3
    <2> QED  BY <1>1, <1>2, <2>7, <2>9, <2>10, <2>11, <2>12
  <1> QED  BY <1>2, <1>6, <1>7
--------------------------------------------------------------------------------
(* What the invariant says of the threads.                                 *)

LEMMA OwingFinite ==
    IsFiniteSet(Owing) /\ Cardinality(Owing) \in Nat /\ (Cardinality(Owing) = 0 <=> Owing = {})
  <1>1. IsFiniteSet(Threads)
    BY Constants, FS_Interval DEF Threads
  <1>2. Owing \subseteq Threads
    BY DEF Owing
  <1>3. IsFiniteSet(Owing)
    BY <1>1, <1>2, FS_Subset
  <1> QED  BY <1>3, FS_CardinalityType, FS_EmptySet

\* A thread decodes only while the session's thread does.
LEMMA DecodingTogether ==
    ASSUME IInv, NEW t \in Threads, at[t] \in {"claim", "write", "stop", "report"}
    PROVE  at[0] \in Decoding /\ (t # 0 => t \in Owing)
  <1>1. AtTypes /\ CountInv
    BY DEF IInv
  <1>2. CASE t = 0
    BY <1>1, <1>2 DEF AtTypes, SessionLabels, Decoding
  <1>3. CASE t # 0
    <2>1. t \in Owing
      BY <1>3 DEF Owing, Working
    <2> QED  BY <1>1, <1>3, <2>1 DEF CountInv
  <1> QED  BY <1>2, <1>3

LEMMA InvariantIsSafe ==
    ASSUME IInv
    PROVE  OutputSafe
  <1>1. AtTypes /\ CountInv /\ JobInv /\ ClaimInv /\ DecoderInv /\ WantedInv /\ PlacementInv
    BY DEF IInv
  <1>2. ASSUME NEW t \in Threads, at[t] = "write"
        PROVE  /\ job[t] = TheJob /\ mine[t] \in DOMAIN streams
               /\ at[0] \in {"publish"} \cup Decoding
    <2>1. at[0] \in Decoding
      BY <1>2, DecodingTogether
    <2>2. job[t] = TheJob
      BY <1>1, <1>2 DEF JobInv
    <2>3. mine[t] \in DOMAIN streams
      BY <1>1, <1>2 DEF ClaimInv
    <2> QED  BY <2>1, <2>2, <2>3
  <1>3. ASSUME NEW t \in Threads, at[t] = "write" PROVE Fits(job[t], mine[t])
    BY <1>1, <1>2, <1>3, SlicesShare
  <1>4. ASSUME NEW s \in Threads, NEW t \in Threads, s # t, at[s] = "write", at[t] = "write"
        PROVE  /\ mine[s] # mine[t]
               /\ {w.to : w \in Writes(job[s], mine[s])}
                      \cap {w.to : w \in Writes(job[t], mine[t])} = {}
    <2>1. mine[s] # mine[t]
      BY <1>1, <1>4 DEF ClaimInv
    <2>2. /\ mine[s] \in DOMAIN streams /\ mine[t] \in DOMAIN streams
          /\ job[s] = TheJob /\ job[t] = TheJob /\ at[0] \in {"publish"} \cup Decoding
      BY <1>2, <1>4
    <2>3. Targets(mine[s]) \cap Targets(mine[t]) = {}
      BY <1>1, <2>1, <2>2, SlicesShare
    <2> QED  BY <2>1, <2>2, <2>3 DEF Targets
  <1>5. ASSUME at[0] \notin Decoding, NEW t \in Threads \ {0}
        PROVE  at[t] \notin {"claim", "write", "stop", "report"}
    BY <1>5, DecodingTogether
  <1> QED  BY <1>3, <1>4, <1>5 DEF OutputSafe

\* The session's thread goes from a place where no worker is owed to another.
LEMMA Elsewhere ==
    ASSUME IInv, Owing = {}, at[0] # "join",
           NEW label \in SessionLabels, label \notin Decoding, at' = [at EXCEPT ![0] = label],
           label # "configure", label = "spawn" => at[0] = "configure",
           pool'.generation = pool.generation, pool'.running = pool.running,
           pool'.shutdown = pool.shutdown, seen' = seen
    PROVE  /\ at'[0] = label /\ \A t \in Threads : t # 0 => at'[t] = at[t]
           /\ at' \in [Threads -> SessionLabels \cup WorkerLabels]
           /\ \A t \in Threads : t # 0 => at'[t] \in WorkerLabels
           /\ CountInv' /\ JobInv' /\ ClaimInv'
           /\ \A t \in Threads : at'[t] # "stop"
  <1>1. AtTypes /\ CountInv /\ 0 \in Threads
    BY Constants DEF IInv
  <1>2. at'[0] = label /\ \A t \in Threads : t # 0 => at'[t] = at[t]
    BY <1>1 DEF AtTypes
  <1>3. at' \in [Threads -> SessionLabels \cup WorkerLabels]
    BY <1>1 DEF AtTypes
  <1>4. Owing' = {}
    BY <1>2 DEF Owing
  <1>5. \A t \in Threads : at'[t] \notin {"claim", "write", "stop"}
    BY <1>2, <1>4 DEF Owing, Working, Decoding
  <1>6. CountInv'
    <2>1. pool'.running = Cardinality(Owing')
      BY <1>1, <1>4 DEF CountInv
    <2>2. ~pool.shutdown
      BY <1>1 DEF CountInv
    <2>3. \A t \in Threads : t # 0 => /\ at'[t] = "asleep" => seen'[t] = pool'.generation
                                      /\ at'[t] \in Working => seen'[t] = pool'.generation
                                      /\ at'[t] = "exited" => pool'.shutdown
      BY <1>1, <1>2 DEF CountInv
    <2>4. at'[0] \in {"configure", "spawn"} =>
              pool'.generation = 0 /\ \A t \in Threads : seen'[t] = 0
      BY <1>1, <1>2 DEF CountInv
    <2> QED  BY <1>4, <2>1, <2>2, <2>3, <2>4 DEF CountInv
  <1>7. JobInv'
    BY <1>4, <1>5 DEF JobInv
  <1>8. ClaimInv'
    BY <1>5 DEF ClaimInv
  <1> QED  BY <1>1, <1>2, <1>3, <1>5, <1>6, <1>7, <1>8 DEF AtTypes
--------------------------------------------------------------------------------
(* The session's thread between decodes.                                   *)

LEMMA DecoderKept ==
    ASSUME DecoderInv, UNCHANGED <<decoder, streams>>
    PROVE  DecoderInv'
  BY DEF DecoderInv

LEMMA PoolKept ==
    ASSUME PoolTypes, UNCHANGED poolVars
    PROVE  PoolTypes'
  BY DEF PoolTypes, poolVars

\* present() returns without a picture.
LEMMA NothingShown ==
    ASSUME IInv, Owing = {}, at[0] # "join", kind' # "Audio",
           NEW r \in {"unsupported", "skipped", "failed"}, Returns(r),
           pool'.generation = pool.generation, pool'.running = pool.running,
           pool'.shutdown = pool.shutdown, seen' = seen, PoolTypes', DecoderInv'
    PROVE  IInv'
  <1>1. AtTypes
    BY DEF IInv
  <1>2. PICK label \in {"idle", "release"} :
            /\ at' = [at EXCEPT ![0] = label] /\ result' = r
            /\ label = "release" => after' = "over"
            /\ after' = after \/ after' = "over"
    BY DEF Returns, Goto
  <1>3. label \in SessionLabels /\ label \notin Decoding
    BY DEF SessionLabels, Decoding
  <1>4. /\ at'[0] = label /\ \A t \in Threads : t # 0 => at'[t] = at[t]
        /\ at' \in [Threads -> SessionLabels \cup WorkerLabels]
        /\ \A t \in Threads : t # 0 => at'[t] \in WorkerLabels
        /\ CountInv' /\ JobInv' /\ ClaimInv'
        /\ \A t \in Threads : at'[t] # "stop"
    BY <1>2, <1>3, Elsewhere
  <1>5. AtTypes'
    BY <1>1, <1>2, <1>3, <1>4 DEF AtTypes
  <1>6. WantedInv'
    BY <1>2, <1>4 DEF WantedInv, HasDecoder, Decoding
  <1>7. LoadedInv' /\ PlacementInv'
    BY <1>3, <1>4 DEF LoadedInv, PlacementInv, Decoding
  <1>8. OutInv'
    BY <1>3, <1>4 DEF OutInv, Decoding
  <1>9. WholePicture'
    BY <1>2 DEF WholePicture
  <1> QED  BY <1>4, <1>5, <1>6, <1>7, <1>8, <1>9 DEF IInv

\* The session's thread is at one of these only for video.
LEMMA OnlyVideo ==
    ASSUME IInv, at[0] # "idle"
    PROVE  kind # "Audio"
  BY DEF IInv, WantedInv

LEMMA NobodyOwed ==
    ASSUME IInv, at[0] \notin Decoding
    PROVE  Owing = {}
  BY DEF IInv, CountInv

\* Frames come and audio is played while the session's thread is at the socket.
LEMMA QuietStep ==
    ASSUME IInv, kind' = kind, lastTaken' = lastTaken \/ kind = "Audio",
           UNCHANGED <<at, after, wanted, rejected, decoder, streams, placed, poolVars, out, result>>
    PROVE  IInv'
  <1>0. /\ AtTypes /\ PoolTypes /\ CountInv /\ JobInv /\ ClaimInv /\ DecoderInv /\ WantedInv
        /\ LoadedInv /\ PlacementInv /\ OutInv /\ WholePicture
    BY DEF IInv
  <1>1. AtTypes' /\ PoolTypes'
    BY <1>0, PoolKept DEF AtTypes
  <1>2. Owing' = Owing /\ TheJob' = TheJob
    BY DEF Owing, TheJob, poolVars
  <1>3. CountInv' /\ JobInv'
    BY <1>0, <1>2 DEF CountInv, JobInv, poolVars
  <1>4. ClaimInv' /\ DecoderInv'
    BY <1>0, DecoderKept DEF ClaimInv, poolVars
  <1>5. WantedInv'
    BY <1>0 DEF WantedInv
  <1>6. PlacementInv'
    BY <1>0 DEF PlacementInv
  <1>7. CASE kind = "Audio"
    <2>1. at[0] = "idle" /\ result = "none"
      BY <1>0, <1>7 DEF WantedInv
    <2>2. LoadedInv'
      BY <2>1 DEF LoadedInv, Decoding
    <2>3. OutInv'
      BY <1>0, <2>1 DEF OutInv, Decoding, poolVars
    <2>4. WholePicture'
      BY <2>1 DEF WholePicture
    <2> QED  BY <1>1, <1>3, <1>4, <1>5, <1>6, <2>2, <2>3, <2>4 DEF IInv
  <1>8. CASE lastTaken' = lastTaken
    <2>2. LoadedInv'
      BY <1>0, <1>8 DEF LoadedInv
    <2>3. \A i : Drawn(i)' = Drawn(i)
      BY <1>2 DEF Drawn, Content, Writes
    <2>4. Finished' = Finished
      BY DEF Finished, poolVars
    <2>5. OutInv'
      BY <1>0, <2>3, <2>4 DEF OutInv, poolVars
    <2>6. Picture' = Picture
      BY DEF Picture
    <2>7. WholePicture'
      BY <1>0, <1>8, <2>6 DEF WholePicture
    <2> QED  BY <1>1, <1>3, <1>4, <1>5, <1>6, <2>2, <2>5, <2>7 DEF IInv
  <1> QED  BY <1>7, <1>8

LEMMA TakeStep ==
    ASSUME IInv, NEW v \in Videos, Take(v)
    PROVE  IInv'
  <1>0. /\ AtTypes /\ PoolTypes /\ CountInv /\ JobInv /\ ClaimInv /\ DecoderInv /\ WantedInv
    BY DEF IInv
  <1>1. /\ kind = "Video" /\ at[0] = "idle" /\ kind' = kind /\ wanted' = v /\ out' = {}
        /\ UNCHANGED <<decoder, streams, placed, pool, next, failed, seen, job, mine>>
    BY DEF Take, Pop, poolVars
  <1>2. Owing = {} /\ DecoderInv' /\ PoolTypes'
    <2>1. Owing = {}
      BY <1>1, NobodyOwed DEF Decoding
    <2>2. DecoderInv' /\ PoolTypes'
      BY <1>0, <1>1, DecoderKept, PoolKept DEF poolVars
    <2> QED  BY <2>1, <2>2
  <1>3. CASE Returns("unsupported")
    BY <1>1, <1>2, <1>3, NothingShown
  <1>4. ASSUME v = decoder.video, Goto("load"), UNCHANGED <<after, result>>
        PROVE  IInv'
    <2>1. at' = [at EXCEPT ![0] = "load"] /\ "load" \in SessionLabels /\ "load" \notin Decoding
      BY <1>4 DEF Goto, SessionLabels, Decoding
    <2>2. /\ at'[0] = "load" /\ \A t \in Threads : t # 0 => at'[t] = at[t]
          /\ at' \in [Threads -> SessionLabels \cup WorkerLabels]
          /\ \A t \in Threads : t # 0 => at'[t] \in WorkerLabels
          /\ CountInv' /\ JobInv' /\ ClaimInv'
          /\ \A t \in Threads : at'[t] # "stop"
      BY <1>1, <1>2, <2>1, Elsewhere
    <2>3. AtTypes'
      BY <1>0, <1>4, <2>1, <2>2 DEF AtTypes
    <2>4. WantedInv'
      BY <1>1, <1>4, <2>2 DEF WantedInv, HasDecoder, Decoding
    <2>5. LoadedInv' /\ PlacementInv' /\ OutInv' /\ WholePicture'
      BY <2>2 DEF LoadedInv, PlacementInv, OutInv, WholePicture, Decoding
    <2> QED  BY <1>2, <2>2, <2>3, <2>4, <2>5 DEF IInv
  <1>5. ASSUME after' = "configure", Goto("release")
        PROVE  IInv'
    <2>1. at' = [at EXCEPT ![0] = "release"] /\ "release" \in SessionLabels /\ "release" \notin Decoding
      BY <1>5 DEF Goto, SessionLabels, Decoding
    <2>2. /\ at'[0] = "release" /\ \A t \in Threads : t # 0 => at'[t] = at[t]
          /\ at' \in [Threads -> SessionLabels \cup WorkerLabels]
          /\ \A t \in Threads : t # 0 => at'[t] \in WorkerLabels
          /\ CountInv' /\ JobInv' /\ ClaimInv'
          /\ \A t \in Threads : at'[t] # "stop"
      BY <1>1, <1>2, <2>1, Elsewhere
    <2>3. AtTypes'
      BY <1>0, <1>5, <2>1, <2>2 DEF AtTypes
    <2>4. WantedInv'
      BY <1>1, <1>5, <2>2 DEF WantedInv, HasDecoder, Decoding
    <2>5. LoadedInv' /\ PlacementInv' /\ OutInv' /\ WholePicture'
      BY <2>2 DEF LoadedInv, PlacementInv, OutInv, WholePicture, Decoding
    <2> QED  BY <1>2, <2>2, <2>3, <2>4, <2>5 DEF IInv
  <1> QED  BY <1>3, <1>4, <1>5 DEF Take

\* Everyone woken, and the session's thread at `label`.
LEMMA Woken ==
    ASSUME AtTypes, NEW label \in SessionLabels, at' = [Awake(at) EXCEPT ![0] = label]
    PROVE  /\ at'[0] = label /\ at' \in [Threads -> SessionLabels \cup WorkerLabels]
           /\ \A t \in Threads : t # 0 => at'[t] = IF at[t] = "asleep" THEN "check" ELSE at[t]
  <1>1. \A t \in Threads : t # 0 <=> t > 0
    BY Constants DEF Threads
  <1>2. Awake(at) = [t \in Threads |-> IF t # 0 /\ at[t] = "asleep" THEN "check" ELSE at[t]]
    BY <1>1 DEF Awake
  <1>3. at' = [t \in Threads |-> IF t = 0 THEN label
                                 ELSE IF at[t] = "asleep" THEN "check" ELSE at[t]]
    BY <1>2
  <1>4. "check" \in WorkerLabels /\ \A t \in Threads : at[t] \in SessionLabels \cup WorkerLabels
    BY DEF AtTypes, WorkerLabels
  <1> QED  BY <1>3, <1>4, Constants

LEMMA ReleaseStep ==
    ASSUME IInv, Release
    PROVE  IInv'
  <1>0. /\ AtTypes /\ PoolTypes /\ CountInv /\ DecoderInv /\ WantedInv /\ 0 \in Threads
    BY Constants DEF IInv
  <1>1. /\ at[0] = "release" /\ pool' = [pool EXCEPT !.shutdown = TRUE]
        /\ at' = [Awake(at) EXCEPT ![0] = "join"]
        /\ UNCHANGED <<kind, after, wanted, decoder, streams, placed, next, failed, seen, job, mine,
                       out, result>>
    BY DEF Release, queueVars
  <1>2. /\ at'[0] = "join" /\ at' \in [Threads -> SessionLabels \cup WorkerLabels]
        /\ \A t \in Threads : t # 0 => at'[t] = IF at[t] = "asleep" THEN "check" ELSE at[t]
    BY <1>0, <1>1, Woken DEF SessionLabels
  <1>3. AtTypes'
    BY <1>0, <1>1, <1>2 DEF AtTypes, WorkerLabels, SessionLabels
  <1>4. /\ pool'.generation = pool.generation /\ pool'.running = pool.running
        /\ pool'.shutdown = TRUE /\ PoolTypes'
    BY <1>0, <1>1 DEF PoolTypes
  <1>5. Owing = {}
    BY <1>1, NobodyOwed DEF Decoding
  <1>6. Owing' = {}
    <2>1. ASSUME NEW t \in Threads, t # 0
          PROVE  ~(at'[t] \in Working \/ (at'[t] = "check" /\ seen'[t] # pool'.generation))
      <3>1. ~(at[t] \in Working \/ (at[t] = "check" /\ seen[t] # pool.generation))
        BY <1>5, <2>1 DEF Owing
      <3>2. at[t] = "asleep" => seen[t] = pool.generation
        BY <1>0, <2>1 DEF CountInv
      <3> QED  BY <1>1, <1>2, <1>4, <2>1, <3>1, <3>2 DEF Working
    <2> QED  BY <2>1 DEF Owing
  <1>7. \A t \in Threads : at'[t] \notin {"claim", "write", "stop"}
    BY <1>2, <1>6 DEF Owing, Working
  <1>8. CountInv'
    <2>1. pool'.running = Cardinality(Owing')
      BY <1>0, <1>4, <1>5, <1>6 DEF CountInv
    <2>2. \A t \in Threads : t # 0 => /\ at'[t] = "asleep" => seen'[t] = pool'.generation
                                      /\ at'[t] \in Working => seen'[t] = pool'.generation
                                      /\ at'[t] = "exited" => pool'.shutdown
      BY <1>2, <1>4, <1>6 DEF Owing
    <2> QED  BY <1>2, <1>4, <1>6, <2>1, <2>2 DEF CountInv
  <1>9. JobInv' /\ ClaimInv'
    BY <1>6, <1>7 DEF JobInv, ClaimInv
  <1>10. DecoderInv'
    BY <1>0, <1>1, DecoderKept
  <1>11. WantedInv'
    BY <1>0, <1>1, <1>2 DEF WantedInv, HasDecoder, Decoding
  <1>12. LoadedInv' /\ PlacementInv' /\ OutInv' /\ WholePicture'
    BY <1>2, <1>7 DEF LoadedInv, PlacementInv, OutInv, WholePicture, Decoding
  <1> QED  BY <1>3, <1>4, <1>8, <1>9, <1>10, <1>11, <1>12 DEF IInv

LEMMA JoinedStep ==
    ASSUME IInv, Joined
    PROVE  IInv'
  <1>0. /\ AtTypes /\ WantedInv /\ 0 \in Threads
    BY Constants DEF IInv
  <1>1. /\ at[0] = "join" /\ at' = [t \in Threads |-> IF t = 0 THEN after ELSE "none"]
        /\ decoder' = NoDecoder /\ pool' = FreshPool /\ next' = 0 /\ failed' = FALSE
        /\ seen' = [t \in Threads |-> 0] /\ job' = [t \in Threads |-> NoJob]
        /\ mine' = [t \in Threads |-> 0]
        /\ UNCHANGED <<kind, after, wanted, out, result>>
    BY DEF Joined, queueVars
  <1>2. after \in {"over", "configure", "refuse"}
    BY <1>0, <1>1 DEF AtTypes
  <1>3. at'[0] = after /\ \A t \in Threads : t # 0 => at'[t] = "none"
    BY <1>0, <1>1
  <1>4. AtTypes'
    BY <1>1, <1>2, <1>3 DEF AtTypes, SessionLabels, WorkerLabels
  <1>5. /\ pool'.generation = 0 /\ pool'.running = 0 /\ pool'.shutdown = FALSE
        /\ \A t \in Threads : seen'[t] = 0
    BY <1>1 DEF FreshPool
  <1>6. PoolTypes'
    BY <1>1 DEF PoolTypes, FreshPool
  <1>7. Owing' = {}
    BY <1>3 DEF Owing, Working
  <1>8. CountInv'
    <2>1. pool'.running = Cardinality(Owing')
      BY <1>5, <1>7, FS_EmptySet
    <2> QED  BY <1>3, <1>5, <1>7, <2>1 DEF CountInv, Working
  <1>9. JobInv' /\ ClaimInv'
    BY <1>2, <1>3, <1>7 DEF JobInv, ClaimInv
  <1>10. DecoderInv'
    BY <1>1 DEF DecoderInv, NoDecoder
  <1>11. WantedInv'
    BY <1>0, <1>1, <1>2, <1>3 DEF WantedInv, HasDecoder, Decoding
  <1>12. LoadedInv' /\ PlacementInv' /\ OutInv' /\ WholePicture'
    BY <1>2, <1>3 DEF LoadedInv, PlacementInv, OutInv, WholePicture, Decoding
  <1> QED  BY <1>4, <1>6, <1>8, <1>9, <1>10, <1>11, <1>12 DEF IInv

LEMMA ConfigureStep ==
    ASSUME IInv, NEW d \in Displays, NEW yuv \in BOOLEAN, Configure(d, yuv)
    PROVE  IInv'
  <1>0. /\ AtTypes /\ PoolTypes /\ CountInv /\ DecoderInv /\ WantedInv
    BY DEF IInv
  <1>1. /\ at[0] = "configure"
        /\ UNCHANGED <<kind, after, wanted, pool, next, failed, seen, job, mine, out, result>>
    BY DEF Configure, queueVars, poolVars
  <1>2. Owing = {} /\ PoolTypes' /\ wanted \in Videos /\ out = {} /\ kind' # "Audio"
    BY <1>0, <1>1, NobodyOwed, PoolKept, OnlyVideo DEF Decoding, poolVars, WantedInv
  <1>3. ASSUME NEW label \in {"refuse", "spawn"}, Goto(label)
        PROVE  /\ at'[0] = label /\ AtTypes' /\ CountInv' /\ JobInv' /\ ClaimInv'
               /\ LoadedInv' /\ PlacementInv' /\ OutInv' /\ WholePicture'
    <2>1. at' = [at EXCEPT ![0] = label] /\ label \in SessionLabels /\ label \notin Decoding
      BY <1>3 DEF Goto, SessionLabels, Decoding
    <2>2. /\ at'[0] = label /\ \A t \in Threads : t # 0 => at'[t] = at[t]
          /\ at' \in [Threads -> SessionLabels \cup WorkerLabels]
          /\ \A t \in Threads : t # 0 => at'[t] \in WorkerLabels
          /\ CountInv' /\ JobInv' /\ ClaimInv'
          /\ \A t \in Threads : at'[t] # "stop"
      BY <1>1, <1>2, <2>1, Elsewhere
    <2>3. AtTypes'
      BY <1>0, <1>1, <2>1, <2>2 DEF AtTypes
    <2>4. LoadedInv' /\ PlacementInv' /\ OutInv' /\ WholePicture'
      BY <2>2 DEF LoadedInv, PlacementInv, OutInv, WholePicture, Decoding
    <2> QED  BY <2>2, <2>3, <2>4
  <1>4. CASE Usable(d) = {} \/ wanted.w % 2 # 0
    <2>1. Goto("refuse") /\ UNCHANGED <<decoder, streams>>
      BY <1>4 DEF Configure
    <2>2. at'[0] = "refuse" /\ DecoderInv'
      BY <1>0, <1>3, <2>1, DecoderKept
    <2>3. WantedInv'
      BY <1>2, <2>2 DEF WantedInv, HasDecoder, Decoding
    <2> QED  BY <1>2, <1>3, <2>1, <2>2, <2>3 DEF IInv
  <1>5. CASE ~(Usable(d) = {} \/ wanted.w % 2 # 0)
    <2> DEFINE m == ChooseMode(d, wanted).mode
               placing == ChooseMode(d, wanted).scaled /\ ~yuv
               fit == IF placing THEN Fit(wanted, m) ELSE None
               surface == IF yuv THEN wanted ELSE m
    <2>1. /\ decoder' = [video |-> wanted, loaded |-> FALSE, placing |-> placing,
                         fit |-> fit, surface |-> surface, matrix |-> 0]
          /\ streams' = [i \in Slices(wanted) |-> [dc |-> 0, ac |-> 0]]
          /\ Goto("spawn")
      BY <1>5 DEF Configure
    <2>2. PICK i \in 1 .. Len(d) : m = d[i]
      BY <1>2, <1>5, ChosenMode
    <2>3. m.w \in Nat \ {0} /\ m.h \in Nat \ {0}
      <3>1. d[i].w \in Nat \ {0} /\ d[i].h \in Nat \ {0}
        BY VideoPathAssumption
      <3> QED  BY <2>2, <3>1
    <2>4. wanted.w \in Nat \ {0} /\ wanted.h \in Nat \ {0}
      BY <1>2, VideoPathAssumption
    <2>5. placing \in BOOLEAN
      OBVIOUS
    <2> HIDE DEF m
    <2>6. placing => {fit.x, fit.y, fit.w, fit.h} \subseteq Int
      <3>1. {Fit(wanted, m).x, Fit(wanted, m).y, Fit(wanted, m).w, Fit(wanted, m).h} \subseteq Int
        BY <1>2, <2>3, FitTypes
      <3> QED  BY <3>1
    <2>7. surface.w \in Int /\ surface.h \in Int
      BY <2>3, <2>4
    <2> HIDE DEF placing, fit, surface
    <2>8. DecoderInv'
      BY <1>2, <2>1, <2>5, <2>6, <2>7 DEF DecoderInv
    <2>9. at'[0] = "spawn"
      BY <1>3, <2>1
    <2>10. WantedInv'
      BY <1>1, <1>2, <2>1, <2>9 DEF WantedInv, HasDecoder, Decoding
    <2> QED  BY <1>2, <1>3, <2>1, <2>8, <2>10 DEF IInv
  <1> QED  BY <1>4, <1>5

LEMMA RefuseStep ==
    ASSUME IInv, Refuse \/ ConfigureFails
    PROVE  IInv'
  <1>1. /\ Returns("unsupported") \/ Returns("failed")
        /\ UNCHANGED <<kind, decoder, streams, pool, next, failed, seen, job, mine>>
    BY DEF Refuse, ConfigureFails, queueKept, poolVars
  <1>2. at[0] \in {"refuse", "configure"}
    BY DEF Refuse, ConfigureFails
  <1>3. Owing = {} /\ PoolTypes' /\ DecoderInv' /\ kind' # "Audio"
    BY <1>1, <1>2, NobodyOwed, PoolKept, DecoderKept, OnlyVideo DEF Decoding, poolVars, IInv
  <1> QED  BY <1>1, <1>2, <1>3, NothingShown

LEMMA SpawnStep ==
    ASSUME IInv, Spawn
    PROVE  IInv'
  <1>0. /\ AtTypes /\ PoolTypes /\ CountInv /\ DecoderInv /\ WantedInv
    BY DEF IInv
  <1>1. /\ at[0] = "spawn"
        /\ UNCHANGED <<kind, after, wanted, decoder, streams, pool, next, failed, seen, job, mine,
                       out, result>>
    BY DEF Spawn, queueVars, poolVars
  <1>2. Owing = {} /\ PoolTypes' /\ DecoderInv'
    BY <1>0, <1>1, NobodyOwed, PoolKept, DecoderKept DEF Decoding, poolVars
  <1> DEFINE n == Cardinality(Spawned) + 1
  <1>3. n \in Nat \ {0}
    <2>1. IsFiniteSet(Threads) /\ Spawned \subseteq Threads
      BY Constants, FS_Interval DEF Threads, Spawned
    <2>2. Cardinality(Spawned) \in Nat
      BY <2>1, FS_Subset, FS_CardinalityType
    <2> QED  BY <2>2
  <1>4. at' = [at EXCEPT ![n] = "check"] \/ at' = [at EXCEPT ![0] = "load"]
    BY DEF Spawn
  <1> HIDE DEF n
  <1>5. CASE at' = [at EXCEPT ![0] = "load"]
    <2>1. "load" \in SessionLabels /\ "load" \notin Decoding
      BY DEF SessionLabels, Decoding
    <2>2. /\ at'[0] = "load" /\ \A t \in Threads : t # 0 => at'[t] = at[t]
          /\ at' \in [Threads -> SessionLabels \cup WorkerLabels]
          /\ \A t \in Threads : t # 0 => at'[t] \in WorkerLabels
          /\ CountInv' /\ JobInv' /\ ClaimInv'
          /\ \A t \in Threads : at'[t] # "stop"
      BY <1>1, <1>2, <1>5, <2>1, Elsewhere
    <2>3. AtTypes'
      BY <1>0, <1>1, <2>1, <2>2 DEF AtTypes
    <2>4. WantedInv'
      BY <1>0, <1>1, <2>2 DEF WantedInv, HasDecoder, Decoding
    <2>5. LoadedInv' /\ PlacementInv' /\ OutInv' /\ WholePicture'
      BY <2>2 DEF LoadedInv, PlacementInv, OutInv, WholePicture, Decoding
    <2> QED  BY <1>2, <2>2, <2>3, <2>4, <2>5 DEF IInv
  <1>6. CASE at' = [at EXCEPT ![n] = "check"]
    <2>1. /\ at'[0] = "spawn" /\ at' \in [Threads -> SessionLabels \cup WorkerLabels]
          /\ \A t \in Threads : t # 0 => at'[t] = at[t] \/ at'[t] = "check"
      BY <1>0, <1>1, <1>3, <1>6, Constants DEF AtTypes, WorkerLabels
    <2>2. AtTypes'
      BY <1>0, <1>1, <2>1 DEF AtTypes, WorkerLabels
    <2>3. pool.generation = 0 /\ \A t \in Threads : seen[t] = 0
      BY <1>0, <1>1 DEF CountInv
    <2>4. Owing' = {}
      BY <1>1, <1>2, <2>1, <2>3 DEF Owing, Working
    <2>5. \A t \in Threads : at'[t] \notin {"claim", "write", "stop"}
      BY <2>1, <2>4 DEF Owing, Working
    <2>6. CountInv'
      <3>1. pool'.running = Cardinality(Owing')
        BY <1>0, <1>1, <1>2, <2>4 DEF CountInv
      <3>2. ~pool.shutdown
        BY <1>0, <1>1 DEF CountInv
      <3>3. \A t \in Threads : t # 0 => at'[t] # "exited"
        BY <1>0, <2>1, <3>2 DEF CountInv
      <3> QED  BY <1>1, <2>1, <2>3, <2>4, <3>1, <3>2, <3>3 DEF CountInv
    <2>7. JobInv' /\ ClaimInv'
      BY <2>4, <2>5 DEF JobInv, ClaimInv
    <2>8. WantedInv'
      BY <1>0, <1>1, <2>1 DEF WantedInv, HasDecoder, Decoding
    <2>9. LoadedInv' /\ PlacementInv' /\ OutInv' /\ WholePicture'
      BY <2>1, <2>5 DEF LoadedInv, PlacementInv, OutInv, WholePicture, Decoding
    <2> QED  BY <1>2, <2>2, <2>6, <2>7, <2>8, <2>9 DEF IInv
  <1> QED  BY <1>4, <1>5, <1>6

LEMMA SpawnFailsStep ==
    ASSUME IInv, SpawnFails
    PROVE  IInv'
  <1>0. /\ AtTypes /\ PoolTypes /\ DecoderInv /\ WantedInv
    BY DEF IInv
  <1>1. /\ at[0] = "spawn" /\ at' = [at EXCEPT ![0] = "release"] /\ after' = "refuse"
        /\ UNCHANGED <<kind, wanted, decoder, streams, pool, next, failed, seen, job, mine,
                       out, result>>
    BY DEF SpawnFails, queueVars, poolVars, Goto
  <1>2. Owing = {} /\ PoolTypes' /\ DecoderInv'
    BY <1>0, <1>1, NobodyOwed, PoolKept, DecoderKept DEF Decoding, poolVars
  <1>3. "release" \in SessionLabels /\ "release" \notin Decoding
    BY DEF SessionLabels, Decoding
  <1>4. /\ at'[0] = "release" /\ \A t \in Threads : t # 0 => at'[t] = at[t]
        /\ at' \in [Threads -> SessionLabels \cup WorkerLabels]
        /\ \A t \in Threads : t # 0 => at'[t] \in WorkerLabels
        /\ CountInv' /\ JobInv' /\ ClaimInv'
        /\ \A t \in Threads : at'[t] # "stop"
    BY <1>1, <1>2, <1>3, Elsewhere
  <1>5. AtTypes'
    BY <1>0, <1>1, <1>3, <1>4 DEF AtTypes
  <1>6. WantedInv'
    BY <1>0, <1>1, <1>4 DEF WantedInv, HasDecoder, Decoding
  <1>7. LoadedInv' /\ PlacementInv' /\ OutInv' /\ WholePicture'
    BY <1>4 DEF LoadedInv, PlacementInv, OutInv, WholePicture, Decoding
  <1> QED  BY <1>2, <1>4, <1>5, <1>6, <1>7 DEF IInv
--------------------------------------------------------------------------------
(* load() and the start of run().                                          *)

\* The slices are numbered from nought, and counted by their number.
LEMMA SliceCount ==
    ASSUME NEW v \in Videos
    PROVE  /\ Slices(v) \subseteq Nat /\ Cardinality(Slices(v)) \in Nat
           /\ \A i : i \in Slices(v) <=> i \in Nat /\ i < Cardinality(Slices(v))
  <1> DEFINE q == (v.h + SliceHeight - 1) \div SliceHeight
  <1>1. v.h \in Nat \ {0} /\ SliceHeight \in Nat \ {0}
    BY VideoPathAssumption
  <1>2. v.h + SliceHeight - 1 \in Nat
    BY <1>1
  <1>3. q \in Nat
    BY <1>1, <1>2, DivType
  <1>4. Slices(v) = 0 .. q - 1
    BY DEF Slices
  <1> HIDE DEF q
  <1>5. Cardinality(0 .. q - 1) = q
    <2>1. Cardinality(0 .. q - 1) = IF 0 > q - 1 THEN 0 ELSE (q - 1) - 0 + 1
      BY <1>3, FS_Interval
    <2> QED  BY <1>3, <2>1
  <1>6. \A i : i \in 0 .. q - 1 <=> i \in Nat /\ i < q
    BY <1>3
  <1> QED  BY <1>3, <1>4, <1>5, <1>6

\* While the session's thread has a decoder, its slices are those of the
\* picture it wants.
LEMMA TheSlices ==
    ASSUME IInv, at[0] \in HasDecoder
    PROVE  /\ wanted \in Videos /\ decoder.video = wanted /\ decoder.video # None
           /\ DOMAIN streams = Slices(wanted) /\ DOMAIN streams \subseteq Nat
           /\ Cardinality(DOMAIN streams) \in Nat
           /\ \A i : i \in DOMAIN streams <=> i \in Nat /\ i < Cardinality(DOMAIN streams)
  <1>1. wanted \in Videos /\ decoder.video = wanted
    BY DEF IInv, WantedInv
  <1>2. wanted # None
    <2>1. wanted.w \in Nat \ {0}
      BY <1>1, VideoPathAssumption
    <2> QED  BY <2>1 DEF None
  <1>3. DOMAIN streams = Slices(wanted)
    BY <1>1, <1>2 DEF IInv, DecoderInv
  <1> QED  BY <1>1, <1>2, <1>3, SliceCount

LEMMA LoadStep ==
    ASSUME IInv, Load
    PROVE  IInv'
  <1>0. /\ AtTypes /\ PoolTypes /\ DecoderInv /\ WantedInv
    BY DEF IInv
  <1> DEFINE N == Cardinality(DOMAIN streams)
  <1>1. /\ at[0] = "load" /\ at' = [at EXCEPT ![0] = "prepare"]
        /\ streams' = Replaced(2 * N)
        /\ decoder' = [decoder EXCEPT !.loaded = TRUE, !.matrix = lastTaken]
        /\ UNCHANGED <<kind, lastTaken, after, wanted, pool, next, failed, seen, job, mine,
                       out, result>>
    BY DEF Load, queueVars, poolVars, Goto
  <1>2. Owing = {} /\ PoolTypes'
    BY <1>0, <1>1, NobodyOwed, PoolKept DEF Decoding, poolVars
  <1>3. "prepare" \in SessionLabels /\ "prepare" \notin Decoding /\ at[0] \in HasDecoder
    BY <1>1 DEF SessionLabels, Decoding, HasDecoder
  <1>4. /\ at'[0] = "prepare" /\ \A t \in Threads : t # 0 => at'[t] = at[t]
        /\ at' \in [Threads -> SessionLabels \cup WorkerLabels]
        /\ \A t \in Threads : t # 0 => at'[t] \in WorkerLabels
        /\ CountInv' /\ JobInv' /\ ClaimInv'
        /\ \A t \in Threads : at'[t] # "stop"
    BY <1>1, <1>2, <1>3, Elsewhere
  <1>5. AtTypes'
    BY <1>0, <1>1, <1>3, <1>4 DEF AtTypes
  <1>6. /\ decoder.video # None /\ N \in Nat /\ decoder.video = wanted /\ wanted \in Videos
        /\ \A i \in DOMAIN streams : i \in Nat /\ i < N
    BY <1>3, TheSlices
  <1>7. streams' = [i \in DOMAIN streams |-> [dc |-> lastTaken, ac |-> lastTaken]]
    <2> HIDE DEF N
    <2>1. \A i \in DOMAIN streams : i < 2 * N /\ N + i < 2 * N
      BY <1>6
    <2>2. streams' = [i \in DOMAIN streams |->
                         [dc |-> IF i < 2 * N THEN lastTaken ELSE streams[i].dc,
                          ac |-> IF N + i < 2 * N THEN lastTaken ELSE streams[i].ac]]
      BY <1>1 DEF Replaced, N
    <2> QED  BY <2>1, <2>2
  <1>8. decoder' = [video |-> decoder.video, loaded |-> TRUE, placing |-> decoder.placing,
                    fit |-> decoder.fit, surface |-> decoder.surface, matrix |-> lastTaken]
    BY <1>0, <1>1, <1>6 DEF DecoderInv
  <1>9. DecoderInv'
    BY <1>0, <1>6, <1>7, <1>8 DEF DecoderInv
  <1>10. WantedInv'
    BY <1>0, <1>1, <1>4, <1>6, <1>8 DEF WantedInv, HasDecoder, Decoding
  <1>11. LoadedInv'
    BY <1>1, <1>7, <1>8 DEF LoadedInv
  <1>12. PlacementInv' /\ OutInv' /\ WholePicture'
    BY <1>4 DEF PlacementInv, OutInv, WholePicture, Decoding
  <1> QED  BY <1>2, <1>4, <1>5, <1>9, <1>10, <1>11, <1>12 DEF IInv

LEMMA LoadFailsStep ==
    ASSUME IInv, NEW n, LoadFails(n)
    PROVE  IInv'
  <1>0. PoolTypes /\ DecoderInv
    BY DEF IInv
  <1>1. /\ at[0] = "load" /\ streams' = Replaced(n)
        /\ decoder' = [decoder EXCEPT !.loaded = FALSE]
        /\ UNCHANGED <<kind, pool, next, failed, seen, job, mine>>
    BY DEF LoadFails, queueKept, poolVars
  <1>2. Returns("skipped") \/ Returns("failed") \/ Returns("unsupported")
    BY DEF LoadFails, Damaged
  <1>3. Owing = {} /\ PoolTypes' /\ kind' # "Audio" /\ at[0] \in HasDecoder
    BY <1>0, <1>1, NobodyOwed, PoolKept, OnlyVideo DEF Decoding, poolVars, HasDecoder
  <1>4. decoder.video # None
    BY <1>3, TheSlices
  <1>5. decoder' = [video |-> decoder.video, loaded |-> FALSE, placing |-> decoder.placing,
                    fit |-> decoder.fit, surface |-> decoder.surface, matrix |-> decoder.matrix]
    BY <1>0, <1>1, <1>4 DEF DecoderInv
  <1>6. DOMAIN streams' = DOMAIN streams /\ streams' = [i \in DOMAIN streams' |-> streams'[i]]
    BY <1>1 DEF Replaced
  <1>7. DecoderInv'
    BY <1>0, <1>4, <1>5, <1>6 DEF DecoderInv
  <1> QED  BY <1>1, <1>2, <1>3, <1>7, NothingShown

LEMMA PrepareStep ==
    ASSUME IInv, Prepare
    PROVE  IInv'
  <1>0. /\ AtTypes /\ PoolTypes /\ DecoderInv /\ WantedInv /\ LoadedInv
    BY DEF IInv
  <1>1. /\ at[0] = "prepare"
        /\ UNCHANGED <<kind, lastTaken, wanted, decoder, streams, pool, seen, job, mine, out>>
    BY DEF Prepare, queueKept
  <1>2. Owing = {} /\ DecoderInv' /\ kind' # "Audio"
    BY <1>0, <1>1, NobodyOwed, DecoderKept, OnlyVideo DEF Decoding
  <1>3. CASE Returns("failed") /\ UNCHANGED <<placed, next, failed>>
    <2>1. PoolTypes'
      BY <1>0, <1>1, <1>3, PoolKept DEF poolVars
    <2> QED  BY <1>1, <1>2, <1>3, <2>1, NothingShown
  <1>4. ASSUME next' = 0, failed' = FALSE, Goto("publish"), UNCHANGED <<after, result>>,
               \/ /\ decoder.placing /\ placed' = PlacedRanges(decoder.video, decoder.fit)
                  /\ Acceptable(decoder.video, decoder.fit, decoder.surface)
               \/ ~decoder.placing /\ decoder.surface.h >= decoder.video.h
        PROVE  IInv'
    <2>1. at' = [at EXCEPT ![0] = "publish"] /\ "publish" \in SessionLabels /\ "publish" \notin Decoding
      BY <1>4 DEF Goto, SessionLabels, Decoding
    <2>2. /\ at'[0] = "publish" /\ \A t \in Threads : t # 0 => at'[t] = at[t]
          /\ at' \in [Threads -> SessionLabels \cup WorkerLabels]
          /\ \A t \in Threads : t # 0 => at'[t] \in WorkerLabels
          /\ CountInv' /\ JobInv' /\ ClaimInv'
          /\ \A t \in Threads : at'[t] # "stop"
      BY <1>1, <1>2, <2>1, Elsewhere
    <2>3. AtTypes'
      BY <1>0, <1>4, <2>1, <2>2 DEF AtTypes
    <2>4. PoolTypes'
      BY <1>0, <1>1, <1>4 DEF PoolTypes
    <2>5. WantedInv'
      BY <1>0, <1>1, <1>2, <2>2 DEF WantedInv, HasDecoder, Decoding
    <2>6. LoadedInv'
      BY <1>0, <1>1 DEF LoadedInv
    <2>7. PlacementInv'
      BY <1>1, <1>4 DEF PlacementInv
    <2>8. OutInv' /\ WholePicture'
      BY <1>4, <2>2 DEF OutInv, WholePicture, Decoding
    <2> QED  BY <1>2, <2>2, <2>3, <2>4, <2>5, <2>6, <2>7, <2>8 DEF IInv
  <1> QED  BY <1>3, <1>4 DEF Prepare

LEMMA SpawnedFinite == IsFiniteSet(Spawned) /\ Cardinality(Spawned) \in Nat
  <1>1. IsFiniteSet(Threads) /\ Spawned \subseteq Threads
    BY Constants, FS_Interval DEF Threads, Spawned
  <1> QED  BY <1>1, FS_Subset, FS_CardinalityType

LEMMA PublishStep ==
    ASSUME IInv, Publish
    PROVE  IInv'
  <1>0. /\ AtTypes /\ PoolTypes /\ CountInv /\ JobInv /\ DecoderInv /\ WantedInv /\ LoadedInv
        /\ PlacementInv /\ OutInv /\ 0 \in Threads
    BY Constants DEF IInv
  <1>1. /\ at[0] = "publish" /\ job' = [job EXCEPT ![0] = TheJob]
        /\ pool' = IF Spawned = {} THEN pool
                   ELSE [pool EXCEPT !.job = TheJob, !.running = Cardinality(Spawned),
                                     !.generation = @ + 1]
        /\ at' = [Awake(at) EXCEPT ![0] = "claim"]
        /\ UNCHANGED <<kind, lastTaken, after, wanted, decoder, streams, placed, next, failed,
                       seen, mine, out, result>>
    BY DEF Publish, queueVars
  <1>2. "claim" \in SessionLabels /\ "claim" \in Decoding
    BY DEF SessionLabels, Decoding
  <1>3. /\ at'[0] = "claim" /\ at' \in [Threads -> SessionLabels \cup WorkerLabels]
        /\ \A t \in Threads : t # 0 => at'[t] = IF at[t] = "asleep" THEN "check" ELSE at[t]
    BY <1>0, <1>1, <1>2, Woken
  <1>4. AtTypes'
    BY <1>0, <1>1, <1>2, <1>3 DEF AtTypes, WorkerLabels
  <1>5. Owing = {} /\ ~pool.shutdown
    <2>1. Owing = {}
      BY <1>1, NobodyOwed DEF Decoding
    <2> QED  BY <1>0, <1>1, <2>1 DEF CountInv
  <1>6. ASSUME NEW t \in Threads, t # 0
        PROVE  /\ at[t] \in {"none", "check", "asleep"}
               /\ at[t] \in {"check", "asleep"} => seen[t] = pool.generation
               /\ at'[t] = IF t \in Spawned THEN "check" ELSE "none"
    <2>1. at[t] \in WorkerLabels /\ at[t] \notin Working /\ at[t] # "exited"
      BY <1>0, <1>5, <1>6 DEF AtTypes, Owing, CountInv
    <2>2. at[t] \in {"none", "check", "asleep"}
      BY <2>1 DEF WorkerLabels
    <2>3. at[t] \in {"check", "asleep"} => seen[t] = pool.generation
      BY <1>0, <1>5, <1>6 DEF Owing, CountInv
    <2>4. t \in Spawned <=> at[t] # "none"
      BY <1>6 DEF Spawned
    <2> QED  BY <1>3, <1>6, <2>2, <2>3, <2>4
  <1>7. Spawned \subseteq Threads \ {0}
    BY DEF Spawned
  <1>8. \A t \in Threads : t # 0 => at'[t] \notin {"claim", "write", "stop", "asleep", "exited"}
                                    /\ at'[t] \notin Working
    BY <1>6 DEF Working
  <1>9. /\ pool'.shutdown = pool.shutdown /\ PoolTypes' /\ Owing' = Spawned
        /\ pool'.running = Cardinality(Spawned) /\ (Spawned # {} => pool'.job = TheJob)
    <2>1. CASE Spawned = {}
      <3>1. pool' = pool
        BY <1>1, <2>1
      <3>2. Owing' = {}
        BY <1>6, <1>8, <2>1 DEF Owing
      <3>3. pool.running = Cardinality(Spawned)
        BY <1>0, <1>5, <2>1 DEF CountInv
      <3>4. PoolTypes'
        BY <1>0, <1>1, <3>1 DEF PoolTypes
      <3> QED  BY <2>1, <3>1, <3>2, <3>3, <3>4
    <2>2. CASE Spawned # {}
      <3>1. pool' = [generation |-> pool.generation + 1, running |-> Cardinality(Spawned),
                     shutdown |-> pool.shutdown, job |-> TheJob]
        BY <1>0, <1>1, <2>2 DEF PoolTypes
      <3>2. PoolTypes'
        BY <1>0, <1>1, <3>1, SpawnedFinite DEF PoolTypes
      <3>3. ASSUME NEW t \in Spawned PROVE t \in Owing'
        <4>1. t \in Threads /\ t # 0 /\ at[t] # "none"
          BY DEF Spawned
        <4>2. at'[t] = "check" /\ seen[t] = pool.generation
          BY <1>6, <4>1
        <4>3. seen'[t] # pool'.generation
          BY <1>0, <1>1, <3>1, <4>2 DEF PoolTypes
        <4> QED  BY <4>1, <4>2, <4>3 DEF Owing
      <3>4. ASSUME NEW t \in Owing' PROVE t \in Spawned
        BY <1>6, <1>8 DEF Owing
      <3> QED  BY <2>2, <3>1, <3>2, <3>3, <3>4
    <2> QED  BY <2>1, <2>2
  <1>10. CountInv'
    BY <1>2, <1>3, <1>5, <1>8, <1>9 DEF CountInv
  <1>11. TheJob' = TheJob
    BY <1>1 DEF TheJob
  <1>12. JobInv'
    <2>1. job'[0] = TheJob
      BY <1>0, <1>1 DEF PoolTypes
    <2> QED  BY <1>8, <1>9, <1>11, <2>1 DEF JobInv
  <1>13. ClaimInv'
    BY <1>3, <1>8 DEF ClaimInv
  <1>14. DecoderInv'
    BY <1>0, <1>1, DecoderKept
  <1>15. WantedInv'
    BY <1>0, <1>1, <1>3 DEF WantedInv, HasDecoder, Decoding
  <1>16. LoadedInv' /\ PlacementInv' /\ WholePicture'
    BY <1>0, <1>1, <1>3 DEF LoadedInv, PlacementInv, WholePicture
  <1>17. OutInv'
    <2>1. out = {} /\ next = 0
      BY <1>0, <1>1 DEF WantedInv, OutInv
    <2>2. DOMAIN streams \subseteq Nat
      BY <1>1, TheSlices DEF HasDecoder
    <2>3. Finished' = {}
      BY <1>1, <2>1, <2>2 DEF Finished
    <2>4. UNION {Drawn(i)' : i \in Finished'} = {}
      BY <2>3
    <2> QED  BY <1>1, <1>3, <1>8, <2>1, <2>4 DEF OutInv
  <1> QED  BY <1>4, <1>9, <1>10, <1>12, <1>13, <1>14, <1>15, <1>16, <1>17 DEF IInv

\* What a slice draws is its rows of the picture, all from the frame loaded.
LEMMA DrawnIs ==
    ASSUME IInv, at[0] \in Decoding, NEW i \in DOMAIN streams, NEW w \in Writes(TheJob, i)
    PROVE  Content(TheJob, i, w) = [to |-> w.to, from |-> w.from, dc |-> lastTaken,
                                    ac |-> lastTaken, matrix |-> lastTaken]
  <1>0. DecoderInv /\ WantedInv /\ LoadedInv /\ PlacementInv
    BY DEF IInv
  <1>1. streams[i] = [dc |-> lastTaken, ac |-> lastTaken] /\ decoder.matrix = lastTaken
    BY <1>0 DEF LoadedInv
  <1>2. w.from \in Band(wanted, i)
    BY <1>0, SlicesShare
  <1>3. decoder.video = wanted
    BY <1>0 DEF WantedInv, HasDecoder
  <1>4. TheJob.video = wanted /\ TheJob.matrix = lastTaken
    BY <1>1, <1>3 DEF TheJob
  <1> QED  BY <1>1, <1>2, <1>4 DEF Content

\* Once nobody is owed and no slice failed, what was drawn is the picture.
LEMMA PictureDrawn ==
    ASSUME IInv, at[0] = "wait", Owing = {}, ~failed
    PROVE  out = {[to |-> w.to, from |-> w.from, dc |-> lastTaken, ac |-> lastTaken,
                   matrix |-> lastTaken] : w \in Picture}
  <1>0. DecoderInv /\ WantedInv /\ PlacementInv /\ OutInv /\ at[0] \in Decoding
    BY DEF IInv, Decoding
  <1> DEFINE C(w) == [to |-> w.to, from |-> w.from, dc |-> lastTaken, ac |-> lastTaken,
                      matrix |-> lastTaken]
  <1>1. Finished = DOMAIN streams
    <2>1. \A i \in DOMAIN streams : i < next
      BY <1>0 DEF OutInv
    <2>2. \A t \in Threads : at[t] # "write"
      BY DEF Owing, Working
    <2> QED  BY <2>1, <2>2 DEF Finished
  <1>2. out = UNION {Drawn(i) : i \in DOMAIN streams}
    BY <1>0, <1>1 DEF OutInv
  <1>3. \A i \in DOMAIN streams : Drawn(i) = {C(w) : w \in Writes(TheJob, i)}
    <2>1. \A i \in DOMAIN streams : \A w \in Writes(TheJob, i) : Content(TheJob, i, w) = C(w)
      BY <1>0, DrawnIs
    <2> HIDE DEF C
    <2> QED  BY <2>1 DEF Drawn
  <1>4. /\ \A i \in DOMAIN streams : Writes(TheJob, i) \subseteq Picture
        /\ \A w \in Picture : \E i \in DOMAIN streams : w \in Writes(TheJob, i)
    BY <1>0, SlicesShare
  <1> HIDE DEF C
  <1>5. ASSUME NEW c \in out PROVE c \in {C(w) : w \in Picture}
    <2>1. PICK i \in DOMAIN streams : c \in Drawn(i)
      BY <1>2
    <2>2. PICK w \in Writes(TheJob, i) : c = C(w)
      BY <1>3, <2>1
    <2> QED  BY <1>4, <2>2
  <1>6. ASSUME NEW c \in {C(w) : w \in Picture} PROVE c \in out
    <2>1. PICK w \in Picture : c = C(w)
      OBVIOUS
    <2>2. PICK i \in DOMAIN streams : w \in Writes(TheJob, i)
      BY <1>4
    <2>3. c \in Drawn(i)
      BY <1>3, <2>1, <2>2
    <2> QED  BY <1>2, <2>3
  <1>7. out = {C(w) : w \in Picture}
    BY <1>5, <1>6
  <1> QED  BY <1>7 DEF C

LEMMA FinishStep ==
    ASSUME IInv, Finish
    PROVE  IInv'
  <1>0. AtTypes /\ PoolTypes /\ CountInv /\ DecoderInv /\ WantedInv /\ OutInv
    BY DEF IInv
  <1>1. /\ at[0] = "wait" /\ pool.running = 0 /\ pool' = [pool EXCEPT !.job = NoJob]
        /\ UNCHANGED <<kind, lastTaken, wanted, decoder, streams, placed, next, failed, seen, job,
                       mine, out>>
    BY DEF Finish, WaitDone, queueKept
  <1>2. Owing = {}
    BY <1>0, <1>1, OwingFinite DEF CountInv
  <1>3. /\ pool'.generation = pool.generation /\ pool'.running = pool.running
        /\ pool'.shutdown = pool.shutdown /\ PoolTypes'
    BY <1>0, <1>1 DEF PoolTypes
  <1>4. DecoderInv' /\ kind' # "Audio"
    BY <1>0, <1>1, DecoderKept, OnlyVideo
  <1>5. CASE failed
    <2>1. Returns("skipped") \/ Returns("failed")
      BY <1>5 DEF Finish, Damaged
    <2> QED  BY <1>1, <1>2, <1>3, <1>4, <2>1, NothingShown
  <1>6. CASE ~failed
    <2>1. at' = [at EXCEPT ![0] = "idle"] /\ after' = after /\ result' = "ok"
      BY <1>6 DEF Finish, Returns, Goto
    <2>2. "idle" \in SessionLabels /\ "idle" \notin Decoding
      BY DEF SessionLabels, Decoding
    <2>3. /\ at'[0] = "idle" /\ \A t \in Threads : t # 0 => at'[t] = at[t]
          /\ at' \in [Threads -> SessionLabels \cup WorkerLabels]
          /\ \A t \in Threads : t # 0 => at'[t] \in WorkerLabels
          /\ CountInv' /\ JobInv' /\ ClaimInv'
          /\ \A t \in Threads : at'[t] # "stop"
      BY <1>1, <1>2, <1>3, <2>1, <2>2, Elsewhere
    <2>4. AtTypes'
      BY <1>0, <2>1, <2>2, <2>3 DEF AtTypes
    <2>5. WantedInv'
      BY <1>4, <2>3 DEF WantedInv, HasDecoder, Decoding
    <2>6. LoadedInv' /\ PlacementInv' /\ OutInv'
      BY <2>3 DEF LoadedInv, PlacementInv, OutInv, Decoding
    <2>7. Picture' = Picture
      BY <1>1 DEF Picture
    <2>8. WholePicture'
      BY <1>1, <1>2, <1>6, <2>7, PictureDrawn DEF WholePicture
    <2> QED  BY <1>3, <1>4, <2>3, <2>4, <2>5, <2>6, <2>8 DEF IInv
  <1> QED  BY <1>5, <1>6
--------------------------------------------------------------------------------
(* The threads of the pool.                                                *)

\* One thread moves from one label to another.
LEMMA OneMoves ==
    ASSUME AtTypes, NEW t \in Threads, NEW l, at' = [at EXCEPT ![t] = l], after' = after,
           t = 0 => l \in SessionLabels \ {"release", "join"}, t # 0 => l \in WorkerLabels
    PROVE  AtTypes' /\ at'[t] = l /\ \A s \in Threads : s # t => at'[s] = at[s]
  <1>1. at'[t] = l /\ \A s \in Threads : s # t => at'[s] = at[s]
    BY DEF AtTypes
  <1>2. at' \in [Threads -> SessionLabels \cup WorkerLabels]
    BY DEF AtTypes
  <1>3. 0 \in Threads
    BY Constants
  <1>4. at'[0] \in SessionLabels /\ (at'[0] \in {"release", "join"} => at'[0] = at[0])
    BY <1>1, <1>3 DEF AtTypes
  <1>5. \A s \in Threads : s # 0 => at'[s] \in WorkerLabels
    BY <1>1 DEF AtTypes
  <1> QED  BY <1>1, <1>2, <1>4, <1>5 DEF AtTypes

\* Nothing the picture hangs on changes during a decode.
LEMMA DecodeKeeps ==
    ASSUME IInv, at[0] \in Decoding, at'[0] \in Decoding,
           UNCHANGED <<kind, lastTaken, wanted, decoder, streams, placed>>
    PROVE  /\ DecoderInv' /\ WantedInv' /\ LoadedInv' /\ PlacementInv' /\ WholePicture'
           /\ TheJob' = TheJob /\ \A i : Drawn(i)' = Drawn(i)
  <1>0. DecoderInv /\ WantedInv /\ LoadedInv /\ PlacementInv
    BY DEF IInv
  <1>1. DecoderInv'
    BY <1>0, DecoderKept
  <1>2. kind # "Audio"
    BY OnlyVideo DEF Decoding
  <1>3. WantedInv'
    BY <1>0, <1>2 DEF WantedInv, HasDecoder, Decoding
  <1>4. LoadedInv' /\ PlacementInv'
    BY <1>0 DEF LoadedInv, PlacementInv
  <1>5. WholePicture'
    BY DEF WholePicture, Decoding
  <1>6. TheJob' = TheJob
    BY DEF TheJob
  <1>7. \A i : Drawn(i)' = Drawn(i)
    BY <1>6 DEF Drawn, Content, Writes
  <1> QED  BY <1>1, <1>3, <1>4, <1>5, <1>6, <1>7

\* A thread at work goes on with the same job, and is owed as before.
LEMMA WorkGoesOn ==
    ASSUME IInv, NEW t \in Threads, at[t] \in {"claim", "write", "stop"},
           NEW l \in {"claim", "write", "stop", Through(t)}, at' = [at EXCEPT ![t] = l],
           UNCHANGED <<kind, lastTaken, after, wanted, decoder, streams, placed, pool, seen, job>>
    PROVE  /\ at'[t] = l /\ \A s \in Threads : s # t => at'[s] = at[s]
           /\ at[0] \in Decoding /\ at'[0] \in Decoding
           /\ AtTypes' /\ CountInv' /\ JobInv'
           /\ DecoderInv' /\ WantedInv' /\ LoadedInv' /\ PlacementInv' /\ WholePicture'
           /\ \A i : Drawn(i)' = Drawn(i)
  <1>0. AtTypes /\ CountInv /\ JobInv /\ 0 \in Threads
    BY Constants DEF IInv
  <1>1. l \in {"claim", "write", "stop"} \/ (t = 0 /\ l = "wait") \/ (t # 0 /\ l = "report")
    BY DEF Through
  <1>2. /\ t = 0 => l \in Decoding /\ l \in SessionLabels \ {"release", "join"}
        /\ t # 0 => l \in Working /\ l \in WorkerLabels
    BY <1>1 DEF Decoding, SessionLabels, Working, WorkerLabels
  <1>3. AtTypes' /\ at'[t] = l /\ \A s \in Threads : s # t => at'[s] = at[s]
    BY <1>0, <1>2, OneMoves
  <1>4. at[0] \in Decoding
    BY DecodingTogether
  <1>5. at'[0] \in Decoding
    BY <1>0, <1>2, <1>3, <1>4
  <1>6. at[t] \in Working
    BY DEF Working
  <1>7. Owing' = Owing
    BY <1>2, <1>3, <1>6 DEF Owing
  <1>8. CountInv'
    <2>1. \A s \in Threads : s # 0 => /\ at'[s] = "asleep" => seen[s] = pool.generation
                                      /\ at'[s] \in Working => seen[s] = pool.generation
                                      /\ at'[s] = "exited" => pool.shutdown
      BY <1>0, <1>2, <1>3, <1>6 DEF CountInv, Working
    <2>2. ~pool.shutdown
      BY <1>0, <1>4 DEF CountInv, Decoding
    <2> QED  BY <1>0, <1>5, <1>7, <2>1, <2>2 DEF CountInv, Decoding
  <1>9. /\ DecoderInv' /\ WantedInv' /\ LoadedInv' /\ PlacementInv' /\ WholePicture'
        /\ TheJob' = TheJob /\ \A i : Drawn(i)' = Drawn(i)
    BY <1>4, <1>5, DecodeKeeps
  <1>10. JobInv'
    BY <1>0, <1>3, <1>7, <1>9 DEF JobInv
  <1> QED  BY <1>3, <1>4, <1>5, <1>8, <1>9, <1>10

LEMMA ClaimStep ==
    ASSUME IInv, NEW t \in Threads, Claim(t)
    PROVE  IInv'
  <1>0. PoolTypes /\ ClaimInv /\ OutInv /\ AtTypes /\ 0 \in Threads
    BY Constants DEF IInv
  <1>1. /\ at[t] = "claim" /\ next' = next + 1
        /\ UNCHANGED <<kind, lastTaken, after, wanted, decoder, streams, placed, pool, failed,
                       seen, job, out, result>>
    BY DEF Claim, queueVars
  <1>2. \/ /\ next \in DOMAIN streams /\ mine' = [mine EXCEPT ![t] = next]
           /\ at' = [at EXCEPT ![t] = "write"]
        \/ next \notin DOMAIN streams /\ mine' = mine /\ at' = [at EXCEPT ![t] = Through(t)]
    BY DEF Claim
  <1>3. PICK l \in {"write", Through(t)} : at' = [at EXCEPT ![t] = l]
    BY <1>2
  <1>4. /\ at'[t] = l /\ \A s \in Threads : s # t => at'[s] = at[s]
        /\ at[0] \in Decoding /\ at'[0] \in Decoding
        /\ AtTypes' /\ CountInv' /\ JobInv'
        /\ DecoderInv' /\ WantedInv' /\ LoadedInv' /\ PlacementInv' /\ WholePicture'
        /\ \A i : Drawn(i)' = Drawn(i)
    BY <1>1, <1>3, WorkGoesOn
  <1>5. /\ DOMAIN streams \subseteq Nat /\ next \in Nat
        /\ \A i : i \in DOMAIN streams <=> i \in Nat /\ i < Cardinality(DOMAIN streams)
        /\ Cardinality(DOMAIN streams) \in Nat
    BY <1>0, <1>4, TheSlices DEF HasDecoder, PoolTypes
  <1>6. PoolTypes'
    BY <1>0, <1>1, <1>2, <1>5 DEF PoolTypes
  <1>7. CASE next \in DOMAIN streams
    <2>1. /\ mine'[t] = next /\ \A s \in Threads : s # t => mine'[s] = mine[s]
          /\ at'[t] = "write"
      BY <1>0, <1>2, <1>7 DEF PoolTypes, AtTypes
    <2>2. ASSUME NEW s \in Threads, at'[s] = "write"
          PROVE  mine'[s] \in DOMAIN streams /\ mine'[s] < next'
      <3>1. CASE s = t
        BY <1>1, <1>5, <1>7, <2>1, <3>1
      <3>2. CASE s # t
        BY <1>0, <1>1, <1>4, <1>5, <2>1, <2>2, <3>2 DEF ClaimInv
      <3> QED  BY <3>1, <3>2
    <2>3. ASSUME NEW r \in Threads, NEW s \in Threads, r # s, at'[r] = "write", at'[s] = "write"
          PROVE  mine'[r] # mine'[s]
      <3>1. \A u \in Threads : u # t /\ at'[u] = "write" => mine'[u] < next
        BY <1>0, <1>4, <2>1 DEF ClaimInv
      <3>2. CASE r # t /\ s # t
        BY <1>0, <1>4, <2>1, <2>3, <3>2 DEF ClaimInv
      <3>3. CASE r = t
        BY <1>5, <2>1, <2>3, <3>1, <3>3
      <3>4. CASE s = t
        BY <1>5, <2>1, <2>3, <3>1, <3>4
      <3> QED  BY <3>2, <3>3, <3>4
    <2>4. ClaimInv'
      BY <1>1, <2>2, <2>3 DEF ClaimInv
    <2>5. Finished' = Finished
      <3>1. ASSUME NEW i \in DOMAIN streams
            PROVE  (i < next' /\ \A s \in Threads : at'[s] = "write" => mine'[s] # i)
                   <=> (i < next /\ \A s \in Threads : at[s] = "write" => mine[s] # i)
        <4>1. i < next' <=> i < next \/ i = next
          BY <1>1, <1>5
        <4>2. i = next => ~(i < next)
          BY <1>5
        <4>3. i # next => ((\A s \in Threads : at'[s] = "write" => mine'[s] # i)
                           <=> (\A s \in Threads : at[s] = "write" => mine[s] # i))
          BY <1>1, <1>4, <2>1
        <4> QED  BY <2>1, <4>1, <4>2, <4>3
      <3> QED  BY <1>1, <3>1 DEF Finished
    <2>6. t = 0 => at'[0] = "write"
      BY <2>1
    <2>7. OutInv'
      <3>1. at'[0] \in Decoding /\ ~failed' => out' = UNION {Drawn(i)' : i \in Finished'}
        BY <1>0, <1>1, <1>4, <2>5 DEF OutInv
      <3>2. \A s \in Threads : at'[s] = "stop" => failed'
        BY <1>0, <1>1, <1>4, <2>1 DEF OutInv
      <3>3. at'[0] \in {"wait", "asleep"} => \A i \in DOMAIN streams' : i < next'
        <4>1. at'[0] \in {"wait", "asleep"} => at'[0] = at[0]
          BY <1>0, <1>4, <2>6
        <4>2. at'[0] \in {"wait", "asleep"} => \A i \in DOMAIN streams : i < next
          BY <1>0, <4>1 DEF OutInv
        <4> QED  BY <1>1, <1>5, <4>2
      <3>4. at'[0] # "publish"
        BY <1>4 DEF Decoding
      <3> QED  BY <3>1, <3>2, <3>3, <3>4 DEF OutInv
    <2> QED  BY <1>4, <1>6, <2>4, <2>7 DEF IInv
  <1>8. CASE next \notin DOMAIN streams
    <2>1. mine' = mine /\ at'[t] = Through(t)
      BY <1>0, <1>2, <1>8 DEF AtTypes
    <2>2. at'[t] \notin {"write", "stop", "asleep"}
      BY <2>1 DEF Through
    <2>3. ClaimInv'
      BY <1>0, <1>1, <1>4, <1>5, <2>1, <2>2 DEF ClaimInv
    <2>4. \A i \in DOMAIN streams : i < next /\ i < next'
      BY <1>1, <1>5, <1>8
    <2>5. Finished' = Finished
      BY <1>1, <1>4, <2>1, <2>2, <2>4 DEF Finished
    <2>6. OutInv'
      <3>1. at'[0] \in Decoding /\ ~failed' => out' = UNION {Drawn(i)' : i \in Finished'}
        BY <1>0, <1>1, <1>4, <2>5 DEF OutInv
      <3>2. \A s \in Threads : at'[s] = "stop" => failed'
        BY <1>0, <1>1, <1>4, <2>2 DEF OutInv
      <3>3. at'[0] # "publish"
        BY <1>4 DEF Decoding
      <3> QED  BY <1>1, <2>4, <3>1, <3>2, <3>3 DEF OutInv
    <2> QED  BY <1>4, <1>6, <2>3, <2>6 DEF IInv
  <1> QED  BY <1>7, <1>8

LEMMA WriteStep ==
    ASSUME IInv, NEW t \in Threads, Write(t)
    PROVE  IInv'
  <1>0. PoolTypes /\ ClaimInv /\ OutInv /\ JobInv /\ AtTypes /\ 0 \in Threads
    BY Constants DEF IInv
  <1>1. /\ at[t] = "write" /\ at' = [at EXCEPT ![t] = "claim"]
        /\ out' = out \cup {Content(job[t], mine[t], w) : w \in Writes(job[t], mine[t])}
        /\ UNCHANGED <<kind, lastTaken, after, wanted, decoder, streams, placed, pool, next, failed,
                       seen, job, mine, result>>
    BY DEF Write, queueVars, poolVars
  <1>2. /\ at'[t] = "claim" /\ \A s \in Threads : s # t => at'[s] = at[s]
        /\ at[0] \in Decoding /\ at'[0] \in Decoding
        /\ AtTypes' /\ CountInv' /\ JobInv'
        /\ DecoderInv' /\ WantedInv' /\ LoadedInv' /\ PlacementInv' /\ WholePicture'
        /\ \A i : Drawn(i)' = Drawn(i)
    BY <1>1, WorkGoesOn
  <1>3. PoolTypes'
    BY <1>0, <1>1, PoolKept DEF poolVars
  <1>4. ClaimInv'
    BY <1>0, <1>1, <1>2 DEF ClaimInv
  <1>5. job[t] = TheJob /\ mine[t] \in DOMAIN streams /\ mine[t] < next
    BY <1>0, <1>1 DEF JobInv, ClaimInv
  <1>6. out' = out \cup Drawn(mine[t])
    BY <1>1, <1>5 DEF Drawn
  <1>7. Finished' = Finished \cup {mine[t]}
    <2>1. \A s \in Threads : s # t /\ at[s] = "write" => mine[s] # mine[t]
      BY <1>0, <1>1 DEF ClaimInv
    <2> QED  BY <1>1, <1>2, <1>5, <2>1 DEF Finished
  <1>8. OutInv'
    <2>1. ASSUME ~failed PROVE out' = UNION {Drawn(i)' : i \in Finished'}
      <3>1. out = UNION {Drawn(i) : i \in Finished}
        BY <1>0, <1>2, <2>1 DEF OutInv
      <3> HIDE DEF Drawn
      <3>2. out' = UNION {Drawn(i) : i \in Finished'}
        BY <1>6, <1>7, <3>1
      <3> QED  BY <1>2, <3>2
    <2>2. \A s \in Threads : at'[s] = "stop" => failed'
      BY <1>0, <1>1, <1>2 DEF OutInv
    <2>3. at'[0] \in {"wait", "asleep"} => at'[0] = at[0]
      BY <1>0, <1>2
    <2>4. at'[0] # "publish"
      BY <1>2 DEF Decoding
    <2> QED  BY <1>0, <1>1, <2>1, <2>2, <2>3, <2>4 DEF OutInv
  <1> QED  BY <1>2, <1>3, <1>4, <1>8 DEF IInv

LEMMA WriteFailsStep ==
    ASSUME IInv, NEW t \in Threads, WriteFails(t)
    PROVE  IInv'
  <1>0. PoolTypes /\ ClaimInv /\ OutInv /\ 0 \in Threads
    BY Constants DEF IInv
  <1>1. /\ at[t] = "write" /\ at' = [at EXCEPT ![t] = "stop"] /\ failed' = TRUE
        /\ UNCHANGED <<kind, lastTaken, after, wanted, decoder, streams, placed, pool, next,
                       seen, job, mine, out, result>>
    BY DEF WriteFails, queueVars
  <1>2. /\ at'[t] = "stop" /\ \A s \in Threads : s # t => at'[s] = at[s]
        /\ at[0] \in Decoding /\ at'[0] \in Decoding
        /\ AtTypes' /\ CountInv' /\ JobInv'
        /\ DecoderInv' /\ WantedInv' /\ LoadedInv' /\ PlacementInv' /\ WholePicture'
    BY <1>1, WorkGoesOn
  <1>3. PoolTypes'
    BY <1>0, <1>1 DEF PoolTypes
  <1>4. ClaimInv'
    BY <1>0, <1>1, <1>2 DEF ClaimInv
  <1>5. OutInv'
    <2>1. at'[0] \in {"wait", "asleep"} => at'[0] = at[0]
      BY <1>0, <1>2
    <2> QED  BY <1>0, <1>1, <1>2, <2>1 DEF OutInv, Decoding
  <1> QED  BY <1>2, <1>3, <1>4, <1>5 DEF IInv

LEMMA StopClaimsStep ==
    ASSUME IInv, NEW t \in Threads, StopClaims(t)
    PROVE  IInv'
  <1>0. PoolTypes /\ ClaimInv /\ OutInv
    BY DEF IInv
  <1>1. /\ at[t] = "stop" /\ at' = [at EXCEPT ![t] = Through(t)]
        /\ next' = Cardinality(DOMAIN streams)
        /\ UNCHANGED <<kind, lastTaken, after, wanted, decoder, streams, placed, pool, failed,
                       seen, job, mine, out, result>>
    BY DEF StopClaims, queueVars
  <1>2. /\ at'[t] = Through(t) /\ \A s \in Threads : s # t => at'[s] = at[s]
        /\ at[0] \in Decoding /\ at'[0] \in Decoding
        /\ AtTypes' /\ CountInv' /\ JobInv'
        /\ DecoderInv' /\ WantedInv' /\ LoadedInv' /\ PlacementInv' /\ WholePicture'
    BY <1>1, WorkGoesOn
  <1>3. next' \in Nat /\ \A i \in DOMAIN streams : i < next'
    BY <1>1, <1>2, TheSlices DEF HasDecoder
  <1>4. PoolTypes'
    BY <1>0, <1>1, <1>3 DEF PoolTypes
  <1>5. at'[t] \notin {"write", "stop"} /\ failed
    BY <1>0, <1>1, <1>2 DEF Through, OutInv
  <1>6. ClaimInv'
    BY <1>0, <1>1, <1>2, <1>3, <1>5 DEF ClaimInv
  <1>7. OutInv'
    BY <1>1, <1>2, <1>3, <1>5 DEF OutInv, Decoding
  <1> QED  BY <1>2, <1>4, <1>6, <1>7 DEF IInv

\* The session's thread stays where it is and a worker goes to sleep, wakes,
\* leaves or takes its job.
LEMMA WorkerMoves ==
    ASSUME IInv, NEW t \in Threads, t # 0, NEW l \in WorkerLabels, at' = [at EXCEPT ![t] = l],
           l \notin {"write", "stop"}, at[t] \notin {"write", "stop"},
           UNCHANGED <<kind, lastTaken, after, wanted, decoder, streams, placed, next, failed,
                       mine, out, result>>
    PROVE  /\ at'[t] = l /\ at'[0] = at[0] /\ \A s \in Threads : s # t => at'[s] = at[s]
           /\ AtTypes' /\ ClaimInv' /\ DecoderInv' /\ WantedInv' /\ LoadedInv' /\ PlacementInv'
           /\ OutInv' /\ WholePicture' /\ TheJob' = TheJob
  <1>0. /\ AtTypes /\ ClaimInv /\ DecoderInv /\ WantedInv /\ LoadedInv /\ PlacementInv
        /\ OutInv /\ WholePicture /\ 0 \in Threads
    BY Constants DEF IInv
  <1>1. AtTypes' /\ at'[t] = l /\ \A s \in Threads : s # t => at'[s] = at[s]
    BY <1>0, OneMoves
  <1>2. at'[0] = at[0]
    BY <1>0, <1>1
  <1>3. ClaimInv'
    BY <1>0, <1>1 DEF ClaimInv
  <1>4. DecoderInv'
    BY <1>0, DecoderKept
  <1>5. WantedInv' /\ LoadedInv' /\ PlacementInv'
    BY <1>0, <1>2 DEF WantedInv, LoadedInv, PlacementInv
  <1>6. TheJob' = TheJob
    BY DEF TheJob
  <1>7. \A i : Drawn(i)' = Drawn(i)
    BY <1>6 DEF Drawn, Content, Writes
  <1>8. Finished' = Finished
    BY <1>1 DEF Finished
  <1>9. OutInv'
    BY <1>0, <1>1, <1>2, <1>7, <1>8 DEF OutInv
  <1>10. Picture' = Picture
    BY DEF Picture
  <1>11. WholePicture'
    BY <1>0, <1>2, <1>10 DEF WholePicture
  <1> QED  BY <1>1, <1>2, <1>3, <1>4, <1>5, <1>6, <1>9, <1>11

LEMMA CheckStep ==
    ASSUME IInv, NEW t \in Threads, Check(t)
    PROVE  IInv'
  <1>0. AtTypes /\ PoolTypes /\ CountInv /\ JobInv
    BY DEF IInv
  <1>1. /\ t # 0 /\ at[t] = "check"
        /\ UNCHANGED <<kind, lastTaken, after, wanted, decoder, streams, placed, pool, next,
                       failed, mine, out, result>>
    BY Constants DEF Check, queueVars
  <1>2. CASE /\ pool.shutdown /\ at' = [at EXCEPT ![t] = "exited"] /\ UNCHANGED <<seen, job>>
    <2>1. "exited" \in WorkerLabels
      BY DEF WorkerLabels
    <2>2. /\ at'[t] = "exited" /\ at'[0] = at[0] /\ \A s \in Threads : s # t => at'[s] = at[s]
          /\ AtTypes' /\ ClaimInv' /\ DecoderInv' /\ WantedInv' /\ LoadedInv' /\ PlacementInv'
          /\ OutInv' /\ WholePicture' /\ TheJob' = TheJob
      BY <1>1, <1>2, <2>1, WorkerMoves
    <2>3. at[0] = "join" /\ Owing = {}
      BY <1>0, <1>2 DEF CountInv, Decoding
    <2>4. Owing' = Owing
      BY <1>1, <1>2, <2>2, <2>3 DEF Owing, Working
    <2>5. PoolTypes'
      BY <1>0, <1>1, <1>2, PoolKept DEF poolVars
    <2>6. CountInv'
      BY <1>0, <1>1, <1>2, <2>2, <2>4 DEF CountInv, Working
    <2>7. JobInv'
      BY <1>0, <1>1, <1>2, <2>2, <2>4 DEF JobInv
    <2> QED  BY <2>2, <2>5, <2>6, <2>7 DEF IInv
  <1>3. CASE /\ ~pool.shutdown /\ pool.generation = seen[t]
             /\ at' = [at EXCEPT ![t] = "asleep"] /\ UNCHANGED <<seen, job>>
    <2>1. "asleep" \in WorkerLabels
      BY DEF WorkerLabels
    <2>2. /\ at'[t] = "asleep" /\ at'[0] = at[0] /\ \A s \in Threads : s # t => at'[s] = at[s]
          /\ AtTypes' /\ ClaimInv' /\ DecoderInv' /\ WantedInv' /\ LoadedInv' /\ PlacementInv'
          /\ OutInv' /\ WholePicture' /\ TheJob' = TheJob
      BY <1>1, <1>3, <2>1, WorkerMoves
    <2>3. Owing' = Owing
      BY <1>1, <1>3, <2>2 DEF Owing, Working
    <2>4. PoolTypes'
      BY <1>0, <1>1, <1>3, PoolKept DEF poolVars
    <2>5. CountInv'
      BY <1>0, <1>1, <1>3, <2>2, <2>3 DEF CountInv, Working
    <2>6. JobInv'
      BY <1>0, <1>1, <1>3, <2>2, <2>3 DEF JobInv
    <2> QED  BY <2>2, <2>4, <2>5, <2>6 DEF IInv
  <1>4. CASE /\ ~pool.shutdown /\ pool.generation # seen[t]
             /\ seen' = [seen EXCEPT ![t] = pool.generation]
             /\ job' = [job EXCEPT ![t] = pool.job]
             /\ at' = [at EXCEPT ![t] = IF pool.job = NoJob THEN "report" ELSE "claim"]
    <2>1. PICK l \in {"report", "claim"} : at' = [at EXCEPT ![t] = l]
      BY <1>4
    <2>2. l \in WorkerLabels /\ l \in Working /\ l \notin {"write", "stop", "asleep", "exited"}
      BY DEF WorkerLabels, Working
    <2>3. /\ at'[t] = l /\ at'[0] = at[0] /\ \A s \in Threads : s # t => at'[s] = at[s]
          /\ AtTypes' /\ ClaimInv' /\ DecoderInv' /\ WantedInv' /\ LoadedInv' /\ PlacementInv'
          /\ OutInv' /\ WholePicture' /\ TheJob' = TheJob
      BY <1>1, <2>1, <2>2, WorkerMoves
    <2>4. /\ seen'[t] = pool.generation /\ \A s \in Threads : s # t => seen'[s] = seen[s]
          /\ job'[t] = pool.job /\ \A s \in Threads : s # t => job'[s] = job[s]
      BY <1>0, <1>4 DEF PoolTypes
    <2>5. PoolTypes'
      BY <1>0, <1>1, <1>4 DEF PoolTypes
    <2>6. t \in Owing /\ pool.job = TheJob
      <3>1. t \in Owing
        BY <1>1, <1>4 DEF Owing
      <3> QED  BY <1>0, <3>1 DEF JobInv
    <2>7. at[0] \in Decoding
      BY <1>0, <2>6 DEF CountInv
    <2>8. Owing' = Owing
      <3>1. \A s \in Threads :
               (s # 0 /\ (at'[s] \in Working \/ (at'[s] = "check" /\ seen'[s] # pool'.generation)))
               <=> (s # 0 /\ (at[s] \in Working \/ (at[s] = "check" /\ seen[s] # pool.generation)))
        BY <1>1, <1>4, <2>2, <2>3, <2>4
      <3> QED  BY <3>1 DEF Owing
    <2>9. CountInv'
      <3>1. \A s \in Threads : s # 0 => /\ at'[s] = "asleep" => seen'[s] = pool'.generation
                                        /\ at'[s] \in Working => seen'[s] = pool'.generation
                                        /\ at'[s] = "exited" => pool'.shutdown
        BY <1>0, <1>1, <2>2, <2>3, <2>4 DEF CountInv
      <3> QED  BY <1>0, <1>1, <2>3, <2>7, <2>8, <3>1 DEF CountInv, Decoding
    <2>10. JobInv'
      BY <1>0, <1>1, <2>3, <2>4, <2>6, <2>8 DEF JobInv
    <2> QED  BY <2>3, <2>5, <2>9, <2>10 DEF IInv
  <1> QED  BY <1>2, <1>3, <1>4 DEF Check

LEMMA SpuriousStep ==
    ASSUME IInv, NEW t \in Threads, Spurious(t) \/ (t = 0 /\ Wait)
    PROVE  IInv'
  <1>0. /\ AtTypes /\ PoolTypes /\ CountInv /\ JobInv /\ ClaimInv /\ OutInv /\ 0 \in Threads
    BY Constants DEF IInv
  <1>1. UNCHANGED <<kind, lastTaken, after, wanted, decoder, streams, placed, pool, next, failed,
                    seen, job, mine, out, result>>
    BY DEF Spurious, Wait, queueVars, poolVars
  <1>2. PoolTypes'
    BY <1>0, <1>1, PoolKept DEF poolVars
  <1>3. CASE t # 0
    <2>1. at[t] = "asleep" /\ at' = [at EXCEPT ![t] = "check"]
      BY <1>3 DEF Spurious
    <2>2. "check" \in WorkerLabels
      BY DEF WorkerLabels
    <2>3. /\ at'[t] = "check" /\ at'[0] = at[0] /\ \A s \in Threads : s # t => at'[s] = at[s]
          /\ AtTypes' /\ ClaimInv' /\ DecoderInv' /\ WantedInv' /\ LoadedInv' /\ PlacementInv'
          /\ OutInv' /\ WholePicture' /\ TheJob' = TheJob
      BY <1>1, <1>3, <2>1, <2>2, WorkerMoves
    <2>4. seen[t] = pool.generation
      BY <1>0, <1>3, <2>1 DEF CountInv
    <2>5. Owing' = Owing
      BY <1>1, <2>1, <2>3, <2>4 DEF Owing, Working
    <2>6. CountInv'
      BY <1>0, <1>1, <2>3, <2>5 DEF CountInv, Working
    <2>7. JobInv'
      BY <1>0, <1>1, <2>3, <2>5 DEF JobInv
    <2> QED  BY <1>2, <2>3, <2>6, <2>7 DEF IInv
  <1>4. CASE t = 0
    <2>1. PICK l \in {"wait", "asleep"} :
              at[0] \in {"wait", "asleep"} /\ at' = [at EXCEPT ![0] = l]
      BY <1>4 DEF Spurious, Wait, Goto
    <2>2. l \in SessionLabels \ {"release", "join"} /\ l \in Decoding /\ at[0] \in Decoding
      BY <2>1 DEF SessionLabels, Decoding
    <2>3. AtTypes' /\ at'[0] = l /\ \A s \in Threads : s # 0 => at'[s] = at[s]
      BY <1>0, <1>1, <2>1, <2>2, OneMoves
    <2>4. /\ DecoderInv' /\ WantedInv' /\ LoadedInv' /\ PlacementInv' /\ WholePicture'
          /\ TheJob' = TheJob /\ \A i : Drawn(i)' = Drawn(i)
      BY <1>1, <2>2, <2>3, DecodeKeeps
    <2>5. Owing' = Owing
      BY <1>1, <2>3 DEF Owing
    <2>6. CountInv'
      BY <1>0, <1>1, <2>1, <2>2, <2>3, <2>5 DEF CountInv, Decoding
    <2>7. JobInv' /\ ClaimInv'
      BY <1>0, <1>1, <2>1, <2>3, <2>4, <2>5 DEF JobInv, ClaimInv
    <2>8. Finished' = Finished
      BY <1>1, <2>1, <2>3 DEF Finished
    <2>9. OutInv'
      BY <1>0, <1>1, <2>1, <2>2, <2>3, <2>4, <2>8 DEF OutInv
    <2> QED  BY <1>2, <2>3, <2>4, <2>6, <2>7, <2>9 DEF IInv
  <1> QED  BY <1>3, <1>4

LEMMA ReportStep ==
    ASSUME IInv, NEW t \in Threads, Report(t)
    PROVE  IInv'
  <1>0. /\ AtTypes /\ PoolTypes /\ CountInv /\ JobInv /\ ClaimInv /\ OutInv /\ 0 \in Threads
    BY Constants DEF IInv
  <1>1. /\ at[t] = "report" /\ pool' = [pool EXCEPT !.running = @ - 1]
        /\ UNCHANGED <<kind, lastTaken, after, wanted, decoder, streams, placed, next, failed,
                       seen, job, mine, out, result>>
    BY DEF Report, queueVars
  <1>2. t # 0
    BY <1>0, <1>1 DEF AtTypes, SessionLabels, Decoding
  <1>3. at[0] \in Decoding /\ t \in Owing
    BY <1>1, <1>2, DecodingTogether
  <1>4. ~pool.shutdown /\ pool.generation = seen[t]
    BY <1>0, <1>1, <1>2, <1>3 DEF CountInv, Decoding, Working
  <1>5. at' = Notified([at EXCEPT ![t] = "asleep"])
    BY <1>4 DEF Report
  <1>6. /\ at'[t] = "asleep" /\ \A s \in Threads : s # t /\ s # 0 => at'[s] = at[s]
        /\ at'[0] = at[0] \/ (at[0] = "asleep" /\ at'[0] = "wait")
        /\ at' \in [Threads -> SessionLabels \cup WorkerLabels]
    <2> DEFINE b == [at EXCEPT ![t] = "asleep"]
    <2>1. /\ b[t] = "asleep" /\ \A s \in Threads : s # t => b[s] = at[s]
          /\ b \in [Threads -> SessionLabels \cup WorkerLabels]
      BY <1>0 DEF AtTypes, WorkerLabels
    <2>2. at' = [b EXCEPT ![0] = IF b[0] = "asleep" /\ pool.running = 1 THEN "wait" ELSE b[0]]
      BY <1>5 DEF Notified
    <2> HIDE DEF b
    <2>3. /\ at'[t] = b[t] /\ \A s \in Threads : s # 0 => at'[s] = b[s]
          /\ at'[0] = b[0] \/ (b[0] = "asleep" /\ at'[0] = "wait")
      BY <1>0, <1>2, <2>1, <2>2
    <2>4. "wait" \in SessionLabels
      BY DEF SessionLabels, Decoding
    <2>5. at' \in [Threads -> SessionLabels \cup WorkerLabels]
      BY <1>0, <2>1, <2>2, <2>4
    <2> QED  BY <1>0, <1>2, <2>1, <2>3, <2>5
  <1>7. at'[0] \in Decoding /\ AtTypes'
    <2>1. at'[0] \in Decoding
      BY <1>3, <1>6 DEF Decoding
    <2>2. AtTypes'
      BY <1>0, <1>1, <1>2, <1>6, <2>1 DEF AtTypes, SessionLabels, WorkerLabels, Decoding
    <2> QED  BY <2>1, <2>2
  <1>8. /\ DecoderInv' /\ WantedInv' /\ LoadedInv' /\ PlacementInv' /\ WholePicture'
        /\ TheJob' = TheJob /\ \A i : Drawn(i)' = Drawn(i)
    BY <1>1, <1>3, <1>7, DecodeKeeps
  <1>9. /\ pool'.generation = pool.generation /\ pool'.running = pool.running - 1
        /\ pool'.shutdown = pool.shutdown /\ pool'.job = pool.job
        /\ pool' = [generation |-> pool'.generation, running |-> pool'.running,
                    shutdown |-> pool'.shutdown, job |-> pool'.job]
    BY <1>0, <1>1 DEF PoolTypes
  <1>10. Owing' = Owing \ {t}
    <2>1. \A s \in Threads :
             (s # 0 /\ (at'[s] \in Working \/ (at'[s] = "check" /\ seen'[s] # pool'.generation)))
             <=> s # t /\ (s # 0 /\ (at[s] \in Working \/ (at[s] = "check" /\ seen[s] # pool.generation)))
      BY <1>1, <1>2, <1>6, <1>9 DEF Working
    <2> QED  BY <2>1 DEF Owing
  <1>11. pool'.running = Cardinality(Owing') /\ pool'.running \in Nat
    <2>1. Cardinality(Owing \ {t}) = Cardinality(Owing) - 1 /\ Cardinality(Owing \ {t}) \in Nat
      <3>1. IsFiniteSet(Owing)
        BY OwingFinite
      <3>2. Cardinality(Owing \ {t}) = Cardinality(Owing) - 1 /\ IsFiniteSet(Owing \ {t})
        BY <1>3, <3>1, FS_RemoveElement
      <3> QED  BY <3>2, FS_CardinalityType
    <2> QED  BY <1>0, <1>9, <1>10, <2>1 DEF CountInv
  <1>12. PoolTypes'
    BY <1>0, <1>1, <1>9, <1>11 DEF PoolTypes
  <1>13. CountInv'
    <2>1. \A s \in Threads : s # 0 => /\ at'[s] = "asleep" => seen'[s] = pool'.generation
                                      /\ at'[s] \in Working => seen'[s] = pool'.generation
                                      /\ at'[s] = "exited" => pool'.shutdown
      BY <1>0, <1>1, <1>4, <1>6, <1>9 DEF CountInv, Working
    <2> QED  BY <1>4, <1>7, <1>9, <1>11, <2>1 DEF CountInv, Decoding
  <1>14. \A s \in Threads : at'[s] \in {"claim", "write", "stop"} => at'[s] = at[s]
    BY <1>2, <1>6
  <1>15. JobInv'
    BY <1>0, <1>1, <1>8, <1>9, <1>10, <1>14 DEF JobInv
  <1>16. ClaimInv'
    BY <1>0, <1>1, <1>14 DEF ClaimInv
  <1>17. \A s \in Threads : at'[s] = "write" <=> at[s] = "write"
    BY <1>1, <1>2, <1>6
  <1>18. Finished' = Finished
    BY <1>1, <1>17 DEF Finished
  <1>19. OutInv'
    BY <1>0, <1>1, <1>3, <1>6, <1>7, <1>8, <1>14, <1>18 DEF OutInv, Decoding
  <1> QED  BY <1>7, <1>8, <1>12, <1>13, <1>15, <1>16, <1>19 DEF IInv
--------------------------------------------------------------------------------
LEMMA InitIInv ==
    ASSUME Init
    PROVE  IInv
  <1>1. 0 \in Threads
    BY Constants
  <1>2. at[0] = "idle" /\ \A t \in Threads : t # 0 => at[t] = "none"
    BY <1>1 DEF Init
  <1>3. AtTypes
    BY <1>2 DEF Init, AtTypes, SessionLabels, WorkerLabels
  <1>4. PoolTypes
    BY DEF Init, PoolTypes, FreshPool
  <1>5. Owing = {}
    BY <1>2 DEF Owing, Working
  <1>6. CountInv
    BY <1>2, <1>5, FS_EmptySet DEF Init, CountInv, FreshPool, Working
  <1>7. JobInv /\ ClaimInv
    BY <1>2, <1>5 DEF JobInv, ClaimInv
  <1>8. DecoderInv
    BY DEF Init, DecoderInv, NoDecoder
  <1>9. WantedInv /\ LoadedInv /\ PlacementInv /\ OutInv /\ WholePicture
    BY <1>2 DEF Init, WantedInv, LoadedInv, PlacementInv, OutInv, WholePicture, HasDecoder, Decoding
  <1> QED  BY <1>3, <1>4, <1>6, <1>7, <1>8, <1>9 DEF IInv

\* The picture's safety does not depend on what the queue holds.
LEMMA QueueQuiet ==
    ASSUME IInv, Receive \/ PlayAudio
    PROVE  IInv'
  <1>1. CASE Receive
    BY <1>1, QuietStep DEF Receive, Accept, Push, PushFails, PushRefused
  <1>2. CASE PlayAudio
    BY <1>2, QuietStep DEF PlayAudio, Consume, Pop
  <1> QED  BY <1>1, <1>2

LEMMA NextIInv ==
    ASSUME IInv, [Next]_vars
    PROVE  IInv'
  <1>1. CASE Receive \/ PlayAudio
    BY <1>1, QueueQuiet
  <1>2. CASE \E v \in Videos : Take(v)
    BY <1>2, TakeStep
  <1>3. CASE Session
    <2>1. CASE Release \/ Joined
      BY <2>1, ReleaseStep, JoinedStep
    <2>2. CASE Refuse \/ ConfigureFails
      BY <2>2, RefuseStep
    <2>3. CASE Spawn \/ SpawnFails
      BY <2>3, SpawnStep, SpawnFailsStep
    <2>4. CASE Load \/ Prepare \/ Publish
      BY <2>4, LoadStep, PrepareStep, PublishStep
    <2>5. CASE \E d \in Displays, yuv \in BOOLEAN : Configure(d, yuv)
      BY <2>5, ConfigureStep
    <2>6. CASE \E n \in 0 .. 2 * Cardinality(DOMAIN streams) : LoadFails(n)
      BY <2>6, LoadFailsStep
    <2>7. CASE Finish
      BY <2>7, FinishStep
    <2>8. CASE Wait
      BY <2>8, Constants, SpuriousStep
    <2> QED  BY <1>3, <2>1, <2>2, <2>3, <2>4, <2>5, <2>6, <2>7, <2>8 DEF Session
  <1>4. ASSUME NEW t \in Threads, Thread(t) \/ Spurious(t)
        PROVE  IInv'
    BY <1>4, ClaimStep, WriteStep, WriteFailsStep, StopClaimsStep, CheckStep, ReportStep,
       SpuriousStep DEF Thread
  <1>5. CASE UNCHANGED vars
    BY <1>5, QuietStep DEF vars, queueVars
  <1> QED  BY <1>1, <1>2, <1>3, <1>4, <1>5 DEF Next

\* The invariant of the whole path, for every pool, slice height, picture and
\* display: the count of running workers is the number the session's thread is
\* owed, everyone works on the decoder's own job, no slice is claimed twice,
\* and what is on the surface is what the finished slices have to write.
THEOREM PathInvariant == Spec => []IInv
  <1>1. Init => IInv
    BY InitIInv
  <1>2. IInv /\ [Next]_vars => IInv'
    BY NextIInv
  <1> QED  BY <1>1, <1>2, PTL DEF Spec

\* Threads that share the output without a lock never write the same row nor
\* outside the surface, and none is left at work when decode() returns.
THEOREM OutputIsSafe == Spec => []OutputSafe
  <1>1. IInv => OutputSafe
    BY InvariantIsSafe
  <1> QED  BY <1>1, PathInvariant, PTL

\* A frame given to the display is whole: each of its rows from the slice that
\* holds its source row, with the streams and the matrix of that very frame.
THEOREM PicturesAreWhole == Spec => []WholePicture
  <1>1. IInv => WholePicture
    BY DEF IInv
  <1> QED  BY <1>1, PathInvariant, PTL
--------------------------------------------------------------------------------
(* The queue: sizes, which push() and pop() only ever adjust.              *)

Sized(s) == Len(s) \in Nat /\ \A i \in 1 .. Len(s) : s[i].len \in Nat

\* g adds up the sizes of the first n frames of s.
Sums(g, s, n) == g[0] = 0 /\ \A i \in 1 .. n : g[i] = g[i - 1] + s[i].len

\* There are such sums, ...
LEMMA SumsExist ==
    ASSUME NEW s, Sized(s), NEW n \in 0 .. Len(s)
    PROVE  \E g \in [0 .. n -> Nat] : Sums(g, s, n)
  <1> DEFINE Has(k) == \E g \in [0 .. k -> Nat] : Sums(g, s, k)
  <1> DEFINE T == {k \in Nat : k <= Len(s) /\ ~Has(k)}
  <1> HIDE DEF Has
  <1> SUFFICES ASSUME T # {} PROVE FALSE
    <2>1. n \in Nat /\ n <= Len(s)
      BY DEF Sized
    <2>2. Has(n) => \E g \in [0 .. n -> Nat] : Sums(g, s, n)
      BY DEF Has
    <2> QED  BY <2>1, <2>2
  <1>1. PICK k \in T : \A j \in T : k <= j
    <2>1. T \in SUBSET Nat
      OBVIOUS
    <2> QED  BY <2>1, Least
  <1>2. k # 0
    <2>1. [i \in 0 .. 0 |-> 0] \in [0 .. 0 -> Nat] /\ Sums([i \in 0 .. 0 |-> 0], s, 0)
      BY DEF Sums
    <2>2. Has(0)
      BY <2>1 DEF Has
    <2> QED  BY <2>2
  <1>3. k \in Nat /\ k - 1 \in Nat /\ k \in 1 .. Len(s) /\ k - 1 <= Len(s)
    BY <1>1, <1>2 DEF Sized
  <1>4. PICK g \in [0 .. k - 1 -> Nat] : Sums(g, s, k - 1)
    <2>1. Has(k - 1)
      BY <1>1, <1>3
    <2> QED  BY <2>1 DEF Has
  <1> DEFINE h == [i \in 0 .. k |-> IF i = k THEN g[k - 1] + s[k].len ELSE g[i]]
  <1>5. s[k].len \in Nat /\ g[k - 1] \in Nat
    BY <1>3, <1>4 DEF Sized
  <1>6. h \in [0 .. k -> Nat]
    BY <1>3, <1>4, <1>5
  <1>7. Sums(h, s, k)
    BY <1>3, <1>4, <1>5 DEF Sums
  <1>8. Has(k)
    BY <1>6, <1>7 DEF Has
  <1> QED  BY <1>1, <1>8

\* ... and only one way to count.
LEMMA SumsAgree ==
    ASSUME NEW s, Sized(s), NEW f, NEW g, Sums(f, s, Len(s)), Sums(g, s, Len(s)),
           NEW n \in 0 .. Len(s)
    PROVE  f[n] = g[n]
  <1> DEFINE T == {k \in Nat : k <= Len(s) /\ f[k] # g[k]}
  <1> SUFFICES ASSUME T # {} PROVE FALSE
    BY DEF Sized
  <1>1. PICK k \in T : \A j \in T : k <= j
    <2>1. T \in SUBSET Nat
      OBVIOUS
    <2> QED  BY <2>1, Least
  <1>2. k # 0
    BY DEF Sums
  <1>3. k - 1 \in Nat /\ k \in 1 .. Len(s) /\ k - 1 <= Len(s)
    BY <1>1, <1>2 DEF Sized
  <1>4. f[k - 1] = g[k - 1]
    BY <1>1, <1>3
  <1> QED  BY <1>1, <1>3, <1>4 DEF Sums

LEMMA SizeIs ==
    ASSUME NEW s, Sized(s), NEW g, Sums(g, s, Len(s))
    PROVE  Size(s) = g[Len(s)]
  <1> DEFINE body(f) == [i \in 0 .. Len(s) |-> IF i = 0 THEN 0 ELSE f[i - 1] + s[i].len]
  <1>0. Len(s) \in Nat
    BY DEF Sized
  <1>1. PICK h \in [0 .. Len(s) -> Nat] : Sums(h, s, Len(s))
    BY <1>0, SumsExist
  <1>2. h = body(h)
    <2>1. \A i \in 0 .. Len(s) : h[i] = body(h)[i]
      BY <1>0, <1>1 DEF Sums
    <2> QED  BY <1>1, <2>1
  <1> DEFINE f == CHOOSE f : f = body(f)
  <1>3. f = body(f)
    BY <1>2
  <1>4. Size(s) = f[Len(s)]
    BY DEF Size
  <1> HIDE DEF f
  <1>5. Sums(f, s, Len(s))
    BY <1>0, <1>3 DEF Sums
  <1> QED  BY <1>0, <1>4, <1>5, SumsAgree

LEMMA SizeType ==
    ASSUME NEW s, Sized(s)
    PROVE  Size(s) \in Nat
  <1>0. Len(s) \in Nat
    BY DEF Sized
  <1>1. PICK g \in [0 .. Len(s) -> Nat] : Sums(g, s, Len(s))
    BY <1>0, SumsExist
  <1> QED  BY <1>0, <1>1, SizeIs

LEMMA SizeSmall ==
    ASSUME NEW s, Sized(s)
    PROVE  /\ Len(s) = 0 => Size(s) = 0
           /\ Len(s) = 1 => Size(s) = s[1].len
  <1>0. Len(s) \in Nat
    BY DEF Sized
  <1>1. PICK g \in [0 .. Len(s) -> Nat] : Sums(g, s, Len(s))
    BY <1>0, SumsExist
  <1>2. Size(s) = g[Len(s)]
    BY <1>1, SizeIs
  <1>3. CASE Len(s) = 0
    BY <1>1, <1>2, <1>3 DEF Sums
  <1>4. CASE Len(s) = 1
    <2>1. s[1].len \in Nat /\ g[1] = g[0] + s[1].len /\ g[0] = 0
      BY <1>1, <1>4 DEF Sums, Sized
    <2> QED  BY <1>2, <1>4, <2>1
  <1> QED  BY <1>3, <1>4

\* pop() takes from the count what it takes from the queue.
LEMMA SizeTail ==
    ASSUME NEW S, NEW s \in Seq(S), Sized(s), s # <<>>
    PROVE  /\ Sized(Tail(s)) /\ Size(s) = Head(s).len + Size(Tail(s))
           /\ Head(s).len \in Nat
  <1>0. /\ Len(s) \in Nat /\ Len(s) > 0 /\ Tail(s) \in Seq(S) /\ Len(Tail(s)) = Len(s) - 1
        /\ Head(s) = s[1] /\ s[1].len \in Nat
        /\ \A i \in 1 .. Len(Tail(s)) : Tail(s)[i] = s[i + 1]
    BY DEF Sized
  <1>1. Sized(Tail(s))
    BY <1>0 DEF Sized
  <1>2. PICK g \in [0 .. Len(s) -> Nat] : Sums(g, s, Len(s))
    BY <1>0, SumsExist
  <1> DEFINE h == [i \in 0 .. Len(s) - 1 |-> g[i + 1] - s[1].len]
  <1>3. g[0] = 0 /\ g[1] = s[1].len
    BY <1>0, <1>2 DEF Sums
  <1>4. Sums(h, Tail(s), Len(Tail(s)))
    <2>1. h[0] = 0
      BY <1>0, <1>3
    <2>2. ASSUME NEW i \in 1 .. Len(Tail(s))
          PROVE  h[i] = h[i - 1] + Tail(s)[i].len
      <3>1. i \in Nat /\ i >= 1 /\ i + 1 \in 1 .. Len(s) /\ i \in 0 .. Len(s) - 1
            /\ i - 1 \in 0 .. Len(s) - 1 /\ i \in 0 .. Len(s) /\ i + 1 \in 0 .. Len(s)
        BY <1>0
      <3>2. g[i + 1] = g[i] + s[i + 1].len
        BY <1>2, <3>1 DEF Sums
      <3>3. h[i] = g[i + 1] - s[1].len /\ h[i - 1] = g[i] - s[1].len
        BY <3>1
      <3>4. g[i] \in Nat /\ s[i + 1].len \in Nat
        BY <1>2, <3>1 DEF Sized
      <3> HIDE DEF h
      <3> QED  BY <1>0, <3>2, <3>3, <3>4
    <2> HIDE DEF h
    <2> QED  BY <2>1, <2>2 DEF Sums
  <1>5. Size(Tail(s)) = h[Len(s) - 1]
    <2> HIDE DEF h
    <2> QED  BY <1>0, <1>1, <1>4, SizeIs
  <1>6. h[Len(s) - 1] = g[Len(s)] - s[1].len /\ g[Len(s)] \in Nat
    BY <1>0, <1>2
  <1>7. Size(s) = g[Len(s)]
    BY <1>2, SizeIs
  <1> HIDE DEF h
  <1> QED  BY <1>0, <1>1, <1>5, <1>6, <1>7

\* push()'s last loop stops: it sheds none or some of the oldest frames, never
\* the newest, and what it leaves is not too much.
LEMMA TrimmedIs ==
    ASSUME NEW S, NEW s \in Seq(S), s # <<>>, NEW ival
    PROVE  \E k \in 0 .. Len(s) - 1 : /\ Trimmed(s, ival) = SubSeq(s, k + 1, Len(s))
                                      /\ ~TooMuch(Trimmed(s, ival), ival)
  <1> DEFINE left(k) == SubSeq(s, k + 1, Len(s))
             Stop(k) == ~TooMuch(left(k), ival)
             T == {k \in Nat : k <= Len(s) /\ Stop(k)}
             First(k) == Stop(k) /\ \A j \in 0 .. k - 1 : ~Stop(j)
             c == CHOOSE k \in 0 .. Len(s) : First(k)
  <1>0. Len(s) \in Nat /\ Len(s) > 0
    OBVIOUS
  <1>1. Trimmed(s, ival) = left(c)
    BY DEF Trimmed
  <1>2. Len(left(Len(s) - 1)) = 1
    BY <1>0
  <1>3. Stop(Len(s) - 1)
    BY <1>2 DEF TooMuch
  <1> HIDE DEF left, Stop
  <1>4. T \in SUBSET Nat /\ Len(s) - 1 \in T
    BY <1>0, <1>3
  <1>5. PICK m \in T : \A j \in T : m <= j
    <2> HIDE DEF T
    <2> QED  BY <1>4, Least
  <1>6. m \in 0 .. Len(s) /\ First(m)
    BY <1>0, <1>5
  <1>7. c \in 0 .. Len(s) /\ First(c)
    BY <1>6
  <1>8. c <= Len(s) - 1
    <2> SUFFICES ASSUME ~(c <= Len(s) - 1) PROVE FALSE
      OBVIOUS
    <2> HIDE DEF c
    <2>1. Len(s) - 1 \in 0 .. c - 1
      BY <1>0, <1>7
    <2> QED  BY <1>3, <1>7, <2>1
  <1> HIDE DEF c
  <1>9. c \in 0 .. Len(s) - 1
    BY <1>0, <1>7, <1>8
  <1> QED  BY <1>1, <1>7, <1>9 DEF left, Stop

FrameSet == [id : Nat, len : Nat, dur : Nat]

\* The queue's promises, and the types and the bound they rest on.
QueueInv ==
    /\ frames \in Seq(FrameSet) /\ {stored, consumed, dropped, lastTaken, interval} \subseteq Nat
    /\ lastTaken <= stored
    /\ Contiguous /\ NoSilentLoss /\ Bounded

LEMMA FramesSized ==
    ASSUME NEW s \in Seq(FrameSet)
    PROVE  Sized(s)
  <1>1. Len(s) \in Nat /\ \A i \in 1 .. Len(s) : s[i] \in FrameSet
    OBVIOUS
  <1>2. \A f \in FrameSet : f.len \in Nat
    BY DEF FrameSet
  <1> QED  BY <1>1, <1>2 DEF Sized

\* push() of a frame of the wanted kind.
LEMMA PushQueue ==
    ASSUME QueueInv, NEW len \in Sizes, NEW dur \in Durations, kind = "Video" => dur = 0,
           Push(len, dur)
    PROVE  QueueInv'
  <1> DEFINE ival  == IF kind = "Audio" /\ dur > 0 THEN dur ELSE interval
             kept  == Waiting(frames)
             frame == [id |-> stored + 1, len |-> len, dur |-> dur]
             all   == Append(kept, frame)
  <1>0. len \in Nat /\ dur \in Nat /\ ByteCap \in Nat /\ Backlog \in Nat
    BY HandoffAssumption
  <1>1. /\ frames \in Seq(FrameSet) /\ stored \in Nat /\ consumed \in Nat /\ dropped \in Nat
        /\ lastTaken \in Nat /\ interval \in Nat /\ lastTaken <= stored
    BY DEF QueueInv
  <1>2. frame \in FrameSet /\ ival \in Nat
    BY <1>0, <1>1 DEF FrameSet
  <1>3. kept \in Seq(FrameSet) /\ (kept = frames \/ kept = <<>>)
        /\ (kind = "Video" => kept = <<>>)
    BY <1>1 DEF Waiting
  <1>4. /\ frames' = Trimmed(all, ival) /\ bytes' = Size(frames') /\ interval' = ival
        /\ dropped' = dropped + Lost(kept, frames') /\ stored' = stored + 1 /\ len <= ByteCap
        /\ kind' = kind /\ consumed' = consumed /\ lastTaken' = lastTaken
    BY DEF Push
  <1> HIDE DEF ival, frame, kept
  <1>5. /\ all \in Seq(FrameSet) /\ all # <<>> /\ Len(all) = Len(kept) + 1 /\ Len(kept) \in Nat
        /\ all[Len(all)] = frame /\ \A i \in 1 .. Len(kept) : all[i] = kept[i]
    BY <1>2, <1>3
  <1> HIDE DEF all
  <1>6. PICK k \in 0 .. Len(all) - 1 : /\ Trimmed(all, ival) = SubSeq(all, k + 1, Len(all))
                                       /\ ~TooMuch(Trimmed(all, ival), ival)
    BY <1>5, TrimmedIs
  <1>7. /\ frames' \in Seq(FrameSet) /\ Len(frames') = Len(all) - k /\ Len(frames') \in Nat
        /\ Len(frames') > 0 /\ \A i \in 1 .. Len(frames') : frames'[i] = all[k + i]
    BY <1>4, <1>5, <1>6
  <1>8. frames'[Len(frames')] = frame
    BY <1>5, <1>7
  <1>9. \A i \in 1 .. Len(all) : all[i].id = stored + 1 - Len(all) + i
    <2>1. \A i \in 1 .. Len(kept) : kept[i].id = stored - Len(kept) + i
      BY <1>3 DEF QueueInv, Contiguous
    <2>2. frame.id = stored + 1
      BY DEF frame
    <2>3. ASSUME NEW i \in 1 .. Len(all)
          PROVE  all[i].id = stored + 1 - Len(all) + i
      <3>1. CASE i = Len(all)
        BY <1>1, <1>5, <2>2, <3>1
      <3>2. CASE i \in 1 .. Len(kept)
        BY <1>1, <1>5, <2>1, <3>2
      <3> QED  BY <1>5, <3>1, <3>2
    <2> QED  BY <2>3
  <1>10. Contiguous'
    <2>1. ASSUME NEW i \in 1 .. Len(frames')
          PROVE  frames'[i].id = stored' - Len(frames') + i
      <3>1. k + i \in 1 .. Len(all) /\ frames'[i] = all[k + i]
        BY <1>5, <1>7
      <3>2. all[k + i].id = stored + 1 - Len(all) + (k + i)
        BY <1>9, <3>1
      <3> QED  BY <1>1, <1>4, <1>5, <1>7, <3>1, <3>2
    <2>2. Head(frames').id > lastTaken'
      <3>1. Head(frames') = frames'[1] /\ frames'[1].id = stored + 1 - Len(frames') + 1
        <4>1. 1 \in 1 .. Len(frames')
          BY <1>7
        <4>2. frames'[1].id = stored' - Len(frames') + 1
          BY <2>1, <4>1
        <4> QED  BY <1>1, <1>4, <1>7, <4>2
      <3>2. CASE kept = <<>>
        BY <1>1, <1>4, <1>5, <1>7, <3>1, <3>2
      <3>3. CASE kept = frames /\ frames # <<>>
        <4>1. Head(frames).id > lastTaken /\ Head(frames).id = stored - Len(frames) + 1
          BY <1>1, <3>3 DEF QueueInv, Contiguous
        <4> QED  BY <1>1, <1>4, <1>5, <1>7, <3>1, <3>3, <4>1
      <3> QED  BY <1>3, <3>2, <3>3
    <2> QED  BY <2>1, <2>2 DEF Contiguous
  <1>11. /\ Lost(kept, frames') = Len(frames) + 1 - Len(frames')
         /\ Len(frames') <= Len(frames) + 1 /\ Len(frames) \in Nat
    BY <1>1, <1>3, <1>5, <1>7 DEF Lost
  <1>12. dropped' \in Nat /\ NoSilentLoss'
    BY <1>1, <1>4, <1>7, <1>11 DEF QueueInv, NoSilentLoss
  <1>13. Sized(frames') /\ Size(frames') \in Nat
    BY <1>7, FramesSized, SizeType
  <1>14. bytes' <= ByteCap
    <2>1. CASE Len(frames') > 1
      BY <1>0, <1>4, <1>6, <1>13, <2>1 DEF TooMuch
    <2>2. CASE Len(frames') = 1
      <3>1. Size(frames') = frame.len /\ frame.len = len
        BY <1>8, <1>13, <2>2, SizeSmall DEF frame
      <3> QED  BY <1>4, <3>1
    <2> QED  BY <1>7, <2>1, <2>2
  <1>15. kind = "Video" => Len(frames') <= 1
    BY <1>3, <1>5, <1>7
  <1>16. kind = "Audio" /\ Len(frames') > 1 => Len(frames') * Last(frames').dur <= Backlog
    <2> SUFFICES ASSUME kind = "Audio", Len(frames') > 1
                 PROVE  Len(frames') * dur <= Backlog
      BY <1>8 DEF Last, frame
    <2>1. CASE dur = 0
      BY <1>0, <1>7, <2>1
    <2>2. CASE dur > 0
      <3>1. ival = dur
        BY <2>2 DEF ival
      <3>2. ~(dur * Len(frames') > Backlog)
        BY <1>4, <1>6, <2>2, <3>1 DEF TooMuch, BacklogExceeded
      <3>3. \A a, b \in Nat : a * b = b * a /\ a * b \in Nat
        OBVIOUS
      <3> QED  BY <1>0, <1>7, <3>2, <3>3
    <2> QED  BY <1>0, <2>1, <2>2
  <1>17. Bounded'
    BY <1>4, <1>14, <1>15, <1>16 DEF Bounded
  <1> QED  BY <1>1, <1>2, <1>4, <1>7, <1>10, <1>12, <1>17 DEF QueueInv

\* push() when there is no room for one more entry.
LEMMA PushFailsQueue ==
    ASSUME QueueInv, NEW dur \in Durations, PushFails(dur)
    PROVE  QueueInv'
  <1>0. dur \in Nat /\ ByteCap \in Nat
    BY HandoffAssumption
  <1>1. /\ frames \in Seq(FrameSet) /\ stored \in Nat /\ consumed \in Nat /\ dropped \in Nat
        /\ lastTaken \in Nat /\ interval \in Nat /\ lastTaken <= stored /\ Len(frames) \in Nat
    BY DEF QueueInv
  <1>2. /\ frames' = Waiting(frames) /\ bytes' = Size(frames') /\ interval' \in Nat
        /\ dropped' = dropped + (Len(frames) - Len(frames')) /\ kind' = kind
        /\ stored' = stored /\ consumed' = consumed /\ lastTaken' = lastTaken
    BY <1>0, <1>1 DEF PushFails
  <1>3. CASE frames' = frames
    BY <1>1, <1>2, <1>3 DEF QueueInv, Contiguous, NoSilentLoss, Bounded
  <1>4. CASE frames' = <<>>
    <2>1. Len(frames') = 0 /\ frames' \in Seq(FrameSet)
      BY <1>4
    <2>2. Size(frames') = 0
      BY <2>1, FramesSized, SizeSmall
    <2>3. dropped' = dropped + Len(frames) /\ dropped' \in Nat
      BY <1>1, <1>2, <2>1
    <2> QED  BY <1>0, <1>1, <1>2, <1>4, <2>1, <2>2, <2>3 DEF QueueInv, Contiguous, NoSilentLoss, Bounded
  <1> QED  BY <1>2, <1>3, <1>4 DEF Waiting

\* pop(), by the session or the audio worker.
LEMMA PopQueue ==
    ASSUME QueueInv, Pop
    PROVE  QueueInv'
  <1>0. ByteCap \in Nat /\ Backlog \in Nat
    BY HandoffAssumption
  <1>1. /\ frames \in Seq(FrameSet) /\ stored \in Nat /\ consumed \in Nat /\ dropped \in Nat
        /\ lastTaken \in Nat /\ interval \in Nat /\ lastTaken <= stored /\ Len(frames) \in Nat
    BY DEF QueueInv
  <1>2. /\ frames # <<>> /\ frames' = Tail(frames) /\ bytes' = bytes - Head(frames).len
        /\ consumed' = consumed + 1 /\ lastTaken' = Head(frames).id
        /\ kind' = kind /\ interval' = interval /\ dropped' = dropped /\ stored' = stored
    BY DEF Pop
  <1>3. /\ frames' \in Seq(FrameSet) /\ Len(frames') = Len(frames) - 1 /\ Len(frames) > 0
        /\ Len(frames') \in Nat /\ Head(frames) = frames[1] /\ frames[1] \in FrameSet
        /\ \A i \in 1 .. Len(frames') : frames'[i] = frames[i + 1]
    BY <1>1, <1>2
  <1>4. frames[1].id = stored - Len(frames) + 1
    BY <1>3 DEF QueueInv, Contiguous
  <1>5. lastTaken' \in Nat /\ lastTaken' <= stored'
    BY <1>1, <1>2, <1>3, <1>4 DEF FrameSet
  <1>6. \A i \in 1 .. Len(frames') : frames'[i].id = stored' - Len(frames') + i
    <2> SUFFICES ASSUME NEW i \in 1 .. Len(frames')
                 PROVE  frames'[i].id = stored' - Len(frames') + i
      OBVIOUS
    <2>1. i + 1 \in 1 .. Len(frames) /\ frames'[i] = frames[i + 1]
      BY <1>1, <1>3
    <2>2. frames[i + 1].id = stored - Len(frames) + (i + 1)
      BY <2>1 DEF QueueInv, Contiguous
    <2> QED  BY <1>1, <1>2, <1>3, <2>1, <2>2
  <1>7. Contiguous'
    <2>1. frames' # <<>> => Head(frames').id > lastTaken'
      <3> SUFFICES ASSUME frames' # <<>> PROVE Head(frames').id > lastTaken'
        OBVIOUS
      <3>1. Head(frames') = frames'[1] /\ 1 \in 1 .. Len(frames')
        BY <1>3
      <3>2. frames'[1].id = stored' - Len(frames') + 1
        BY <1>6, <3>1
      <3> QED  BY <1>1, <1>2, <1>3, <1>4, <3>1, <3>2
    <2> QED  BY <1>6, <2>1 DEF Contiguous
  <1>8. NoSilentLoss'
    BY <1>1, <1>2, <1>3 DEF QueueInv, NoSilentLoss
  <1>9. /\ Size(frames) = Head(frames).len + Size(frames') /\ Head(frames).len \in Nat
        /\ Size(frames') \in Nat
    BY <1>1, <1>2, FramesSized, SizeTail, SizeType
  <1>10. bytes' = Size(frames') /\ bytes' <= ByteCap
    BY <1>0, <1>2, <1>9 DEF QueueInv, Bounded
  <1>11. kind = "Audio" /\ Len(frames') > 1 => Len(frames') * Last(frames').dur <= Backlog
    <2> SUFFICES ASSUME kind = "Audio", Len(frames') > 1
                 PROVE  Len(frames') * Last(frames').dur <= Backlog
      OBVIOUS
    <2>1. Last(frames') = Last(frames) /\ Last(frames).dur \in Nat
      <3>1. Len(frames') \in 1 .. Len(frames') /\ Len(frames') + 1 = Len(frames)
        BY <1>1, <1>3
      <3>2. frames'[Len(frames')] = frames[Len(frames)]
        BY <1>3, <3>1
      <3>3. frames[Len(frames)] \in FrameSet
        BY <1>1, <1>3
      <3> QED  BY <3>2, <3>3 DEF Last, FrameSet
    <2>2. Len(frames) * Last(frames).dur <= Backlog
      BY <1>1, <1>3 DEF QueueInv, Bounded
    <2>3. \A n, d \in Nat : (n - 1) * d <= n * d /\ n * d \in Nat /\ (n - 1) * d \in Int
      OBVIOUS
    <2> QED  BY <1>0, <1>1, <1>3, <2>1, <2>2, <2>3
  <1>12. Bounded'
    BY <1>1, <1>2, <1>3, <1>10, <1>11 DEF QueueInv, Bounded
  <1> QED  BY <1>1, <1>2, <1>3, <1>5, <1>7, <1>8, <1>12 DEF QueueInv

\* Nothing else touches what the queue's promises are about.
LEMMA NextQueue ==
    ASSUME QueueInv, [Next]_vars
    PROVE  QueueInv'
  <1>1. ASSUME UNCHANGED queueKept
        PROVE  QueueInv'
    BY <1>1 DEF queueKept, QueueInv, Contiguous, NoSilentLoss, Bounded
  <1>2. CASE Receive
    <2>1. ASSUME NEW len \in Sizes, NEW dur \in Durations, kind = "Video" => dur = 0, Push(len, dur)
          PROVE  QueueInv'
      BY <2>1, PushQueue
    <2>2. ASSUME NEW dur \in Durations, PushFails(dur)
          PROVE  QueueInv'
      BY <2>2, PushFailsQueue
    <2>3. CASE PushRefused
      BY <1>1, <2>3 DEF PushRefused, queueKept
    <2> QED  BY <1>2, <2>1, <2>2, <2>3 DEF Receive, Accept
  <1>3. CASE PlayAudio
    BY <1>3, PopQueue DEF PlayAudio, Consume
  <1>4. CASE \E v \in Videos : Take(v)
    BY <1>4, PopQueue DEF Take
  <1>5. CASE Session
    BY <1>1, <1>5 DEF Session, Release, Joined, Refuse, Spawn, SpawnFails, Load, Prepare, Publish,
       ConfigureFails, Configure, LoadFails, Finish, Wait, queueVars, queueKept
  <1>6. ASSUME NEW t \in Threads, Thread(t) \/ Spurious(t)
        PROVE  QueueInv'
    BY <1>1, <1>6 DEF Thread, Claim, Write, WriteFails, StopClaims, Check, Report, Spurious,
       queueVars, queueKept
  <1>7. CASE UNCHANGED vars
    BY <1>1, <1>7 DEF vars, queueVars, queueKept
  <1> QED  BY <1>2, <1>3, <1>4, <1>5, <1>6, <1>7 DEF Next

\* For every byte cap, backlog and sequence of frames: the queue sheds only its
\* oldest frames and counts each one, a consumer sees frames in order, the byte
\* count is what the queue holds and within the cap, video never waits behind
\* video, and audio measured by its newest frame stays within the backlog.
THEOREM QueueIsSound == Spec => []QueueSound
  <1>1. Init => QueueInv
    <2> SUFFICES ASSUME Init PROVE QueueInv
      OBVIOUS
    <2>1. /\ frames = <<>> /\ bytes = 0 /\ interval = 0 /\ dropped = 0
          /\ stored = 0 /\ consumed = 0 /\ lastTaken = 0
      BY DEF Init, QueueInit
    <2>2. frames \in Seq(FrameSet) /\ Len(frames) = 0
      BY <2>1
    <2>3. Size(frames) = 0 /\ ByteCap \in Nat
      BY <2>2, FramesSized, SizeSmall, HandoffAssumption
    <2> QED  BY <2>1, <2>2, <2>3 DEF QueueInv, Contiguous, NoSilentLoss, Bounded
  <1>2. QueueInv /\ [Next]_vars => QueueInv'
    BY NextQueue
  <1>3. QueueInv => QueueSound
    BY DEF QueueInv, QueueSound
  <1> QED  BY <1>1, <1>2, <1>3, PTL DEF Spec
================================================================================
