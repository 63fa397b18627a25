---------------------------- MODULE IntakeProofs ----------------------------
(***************************************************************************)
(* That the checks of the command line are enough, and that the wire       *)
(* format keeps instants and frames.  For every block size the checks      *)
(* accept, every length of a second and a minute, and all instants, also   *)
(* before the epoch, blocks and minutes are nested; a path template that   *)
(* tells the files of a recompute apart lets it read none of them twice;   *)
(* and a record gets the instant it was composed for, whenever the clock   *)
(* starts and for whatever units of a second.                              *)
(***************************************************************************)
EXTENDS WireProperties, FiniteSetTheorems, SequenceTheorems, TLAPS

\* Rounding down, of negative numbers too.
LEMMA Floor ==
  ASSUME NEW n \in Nat \ {0}, NEW t \in Int
  PROVE  /\ t \div n \in Int
         /\ n * (t \div n) <= t
         /\ t < n * (t \div n) + n
  OBVIOUS

\* A positive factor can be taken out of a comparison.
LEMMA Cancel ==
  ASSUME NEW n \in Nat \ {0}, NEW a \in Int, NEW b \in Int, n * a < n * b
  PROVE  a < b
<1>1. SUFFICES ASSUME a >= b PROVE FALSE
  OBVIOUS
<1>2. PICK d \in Nat : a = b + d
  BY <1>1
<1>3. n * a = n * b + n * d
  BY <1>2
<1>4. n * d >= 0
  OBVIOUS
<1> QED BY <1>3, <1>4

\* A multiple of n is not after t exactly when its factor is not after t \div n.
LEMMA FloorOrder ==
  ASSUME NEW n \in Nat \ {0}, NEW t \in Int, NEW x \in Int
  PROVE  n * x <= t <=> x <= t \div n
<1> DEFINE q == t \div n
<1>1. q \in Int /\ n * q <= t /\ t < n * (q + 1)
  BY Floor
<1> HIDE DEF q
<1>2. ASSUME n * x <= t PROVE x <= q
  <2>1. n * x < n * (q + 1)
    BY <1>1, <1>2
  <2>2. x < q + 1
    BY <1>1, <2>1, Cancel
  <2> QED BY <1>1, <2>2
<1>3. ASSUME x <= q, t < n * x PROVE FALSE
  <2>1. n * q < n * x
    BY <1>1, <1>3
  <2>2. q < x
    BY <1>1, <2>1, Cancel
  <2> QED BY <1>1, <1>3, <2>2
<1> QED BY <1>1, <1>2, <1>3 DEF q

\* A multiple of n is n times its quotient.
LEMMA Multiple ==
  ASSUME NEW n \in Nat \ {0}, NEW t \in Int, t % n = 0
  PROVE  t \div n \in Int /\ t = (t \div n) * n
<1>1. t \div n \in Int /\ t = n * (t \div n) + (t % n)
  OBVIOUS
<1> QED BY <1>1

\* Each minute is a whole number of accepted blocks.
LEMMA WholeBlocks ==
  ASSUME NEW s \in Nat, BlockSizeOk(s)
  PROVE  s \in Nat \ {0} /\ \E k \in Nat \ {0} : Minute = s * k
<1>1. s \in Nat \ {0} /\ Minute % s = 0
  BY DEF BlockSizeOk, FitsMinute
<1>2. Minute \div s \in Int /\ Minute = (Minute \div s) * s
  BY <1>1, Multiple, ConfigurationAssumption
<1>3. Minute = s * (Minute \div s)
  BY <1>1, <1>2
<1>4. Minute \div s > 0
  <2>1. s * 0 < s * (Minute \div s)
    BY <1>1, <1>3, ConfigurationAssumption
  <2> QED BY <1>1, <1>2, <2>1, Cancel
<1> QED BY <1>1, <1>2, <1>3, <1>4

\* The block of an instant starts by the time x * Minute exactly when the
\* instant is not before that time.
LEMMA NestedBlocks ==
  ASSUME NEW s \in Nat, BlockSizeOk(s), NEW t \in Int, NEW x \in Int
  PROVE  x * Minute <= t <=> x * Minute <= (t \div s) * s
<1>1. PICK k \in Nat \ {0} : s \in Nat \ {0} /\ Minute = s * k
  BY WholeBlocks
<1> DEFINE y == k * x
           q == t \div s
<1>2. y \in Int /\ x * Minute = s * y
  BY <1>1
<1>3. s * y <= t <=> y <= q
  BY <1>1, <1>2, FloorOrder
<1>4. q \in Int
  BY <1>1, Floor
<1> HIDE DEF y, q
<1>5. y <= q <=> s * y <= q * s
  <2>1. ASSUME y <= q PROVE s * y <= q * s
    <3>1. PICK d \in Nat : q = y + d
      BY <1>2, <1>4, <2>1
    <3>2. q * s = s * y + s * d /\ s * d >= 0
      BY <1>1, <1>2, <3>1
    <3> QED BY <1>1, <1>2, <3>2
  <2>2. ASSUME s * y <= q * s, q < y PROVE FALSE
    <3>1. s * y < s * (q + 1)
      BY <1>1, <1>2, <1>4, <2>2
    <3>2. y < q + 1
      BY <1>1, <1>2, <1>4, <3>1, Cancel
    <3> QED BY <1>2, <1>4, <2>2, <3>2
  <2> QED BY <1>2, <1>4, <2>1, <2>2
<1> QED BY <1>2, <1>3, <1>5 DEF q

-----------------------------------------------------------------------------
\* A mode runs with a command line that was considered and accepted.
ValidRuns ==
  /\ cli \in CommandLines
  /\ Running => Valid(cli)
  /\ phase = "recompute" => cli.mode = "recompute"

\* The checks are made before either mode is entered.
LEMMA ValidInvariant == ConfigSpec => []ValidRuns
<1>1. ConfigInit => ValidRuns
  BY DEF ConfigInit, ValidRuns, Running
<1>2. ValidRuns /\ [ConfigNext]_configVars => ValidRuns'
  BY DEF ValidRuns, Running, Valid, ConfigNext, Refuse, RunMode, configVars
<1> QED BY <1>1, <1>2, PTL DEF ConfigSpec

\* No accepted block size lets a block reach into another minute.
LEMMA BlocksInMinutes == ConfigSpec => []BlocksWithinMinute
<1>1. ValidRuns => BlocksWithinMinute
  <2>1. SUFFICES ASSUME ValidRuns, Running, NEW t \in Instants, NEW u \in Instants,
                        BlockStart(t) = BlockStart(u), t \div Minute < u \div Minute
                 PROVE  FALSE
    <3>1. \A t \in Instants : t \in Int /\ t \div Minute \in Int
      BY InstantsAssumption, ConfigurationAssumption
    <3> QED BY <3>1 DEF BlocksWithinMinute
  <2> DEFINE s == cli.block_size_ms
             x == u \div Minute
  <2>2. s \in Nat /\ BlockSizeOk(s) /\ t \in Int /\ u \in Int
    BY <2>1, CommandLineAssumption, InstantsAssumption DEF ValidRuns, Valid
  <2>3. x \in Int /\ t \div Minute \in Int
    BY <2>2, Floor, ConfigurationAssumption
  <2>4. Minute * x <= u /\ ~(Minute * x <= t)
    BY <2>1, <2>2, <2>3, FloorOrder, ConfigurationAssumption
  <2> HIDE DEF s, x
  <2>5. x * Minute <= u /\ ~(x * Minute <= t)
    BY <2>3, <2>4, ConfigurationAssumption
  <2>6. x * Minute <= (u \div s) * s /\ ~(x * Minute <= (t \div s) * s)
    BY <2>2, <2>3, <2>5, NestedBlocks
  <2> QED BY <2>1, <2>6 DEF BlockStart, s
<1> QED BY <1>1, ValidInvariant, PTL

\* The rows a recompute may delete are those of the positions it computes.
LEMMA RangeOfRows == ConfigSpec => []RowsFollowRange
<1>1. ValidRuns => RowsFollowRange
  <2>1. SUFFICES ASSUME ValidRuns, phase = "recompute", NEW t \in Instants
                 PROVE  (cli.recompute_from <= t /\ t < cli.recompute_to)
                          = (cli.recompute_from <= BlockStart(t)
                              /\ BlockStart(t) < cli.recompute_to)
    BY DEF RowsFollowRange
  <2>2. \A b \in {cli.recompute_from, cli.recompute_to} :
          b <= t <=> b <= BlockStart(t)
    <3>1. SUFFICES ASSUME NEW b \in {cli.recompute_from, cli.recompute_to}
                   PROVE  b <= t <=> b <= BlockStart(t)
      OBVIOUS
    <3> DEFINE s == cli.block_size_ms
               x == b \div Minute
    <3>2. s \in Nat /\ BlockSizeOk(s) /\ t \in Int
      BY <2>1, CommandLineAssumption, InstantsAssumption DEF ValidRuns, Valid, Running
    <3>3. b \in Int /\ b % Minute = 0
      BY <2>1, <3>1, CommandLineAssumption
         DEF ValidRuns, Valid, Running, RecomputeOk, MinuteAligned
    <3>4. x \in Int /\ b = x * Minute
      BY <3>3, Multiple, ConfigurationAssumption
    <3> HIDE DEF s, x
    <3>5. x * Minute <= t <=> x * Minute <= (t \div s) * s
      BY <3>2, <3>4, NestedBlocks
    <3> QED BY <3>4, <3>5 DEF BlockStart, s
  <2>3. /\ cli.recompute_from \in Int /\ cli.recompute_to \in Int
        /\ t \in Int /\ BlockStart(t) \in Int
    <3>1. cli.recompute_from \in Int /\ cli.recompute_to \in Int /\ t \in Int
      BY <2>1, CommandLineAssumption, InstantsAssumption
         DEF ValidRuns, Valid, Running, RecomputeOk
    <3>2. cli.block_size_ms \in Nat \ {0}
      BY <2>1, CommandLineAssumption DEF ValidRuns, Valid, Running, BlockSizeOk
    <3>3. t \div cli.block_size_ms \in Int
      BY <3>1, <3>2, Floor
    <3> QED BY <3>1, <3>2, <3>3 DEF BlockStart
  <2> QED BY <2>2, <2>3
<1> QED BY <1>1, ValidInvariant, PTL

\* No block is cut by the end of a minute or of a recompute's range.
THEOREM BlocksAreUncut == ConfigSpec => []BlocksUncut
<1>1. BlocksWithinMinute /\ RowsFollowRange => BlocksUncut
  BY DEF BlocksUncut
<1> QED BY <1>1, BlocksInMinutes, RangeOfRows, PTL

\* What hour, minute and date say together.
LEMMA Digits60 ==
  ASSUME NEW m \in Int
  PROVE  /\ m \div 60 \in Int /\ m % 60 \in 0 .. 59 /\ m = 60 * (m \div 60) + (m % 60)
  OBVIOUS

LEMMA Digits24 ==
  ASSUME NEW h \in Int
  PROVE  /\ h \div 24 \in Int /\ h % 24 \in 0 .. 23 /\ h = 24 * (h \div 24) + (h % 24)
  OBVIOUS

LEMMA DayOfHour ==
  ASSUME NEW m \in Int
  PROVE  m \div DayMinutes = (m \div 60) \div 24
  BY DEF DayMinutes, HourMinutes

\* Minutes less than n apart that a template does not tell apart are the same.
LEMMA PathsTellMinutes ==
  ASSUME NEW t, NEW n \in Nat, TellsApart(t, n), NEW m \in Int, NEW k \in Int,
         m - k < n, k - m < n, NEW s, NEW z, MinutePath(t, s, m) = MinutePath(t, z, k)
  PROVE  m = k
<1> DEFINE h == m \div 60
           i == k \div 60
           d == h \div 24
           e == i \div 24
<1>1. \A f \in t : PathField(f, s, m) = PathField(f, z, k)
  <2>1. SUFFICES ASSUME NEW f \in t PROVE PathField(f, s, m) = PathField(f, z, k)
    OBVIOUS
  <2>2. /\ MinutePath(t, s, m)[f] = PathField(f, s, m)
        /\ MinutePath(t, z, k)[f] = PathField(f, z, k)
    BY DEF MinutePath
  <2> QED BY <2>2
<1>2. m % 60 = k % 60
  BY <1>1 DEF TellsApart, PathField, HourMinutes
<1>3. /\ h \in Int /\ m = 60 * h + (m % 60) /\ i \in Int /\ k = 60 * i + (k % 60)
      /\ m % 60 \in Int
  BY Digits60
<1>4. /\ d \in Int /\ h = 24 * d + (h % 24) /\ e \in Int /\ i = 24 * e + (i % 24)
      /\ h % 24 \in Int
  BY <1>3, Digits24
<1>5. CASE n <= 60
  <2> HIDE DEF h, i
  <2>1. h = i
    BY <1>2, <1>3, <1>5
  <2> QED BY <1>2, <1>3, <2>1
<1>6. CASE "hour" \in t
  <2>1. h % 24 = i % 24
    BY <1>1, <1>6 DEF PathField, HourMinutes
  <2>2. CASE "date" \in t
    <3>1. m \div DayMinutes = k \div DayMinutes
      BY <1>1, <2>2 DEF PathField
    <3>2. d = e
      BY <3>1, DayOfHour
    <3> HIDE DEF h, i, d, e
    <3>3. h = i
      BY <1>4, <2>1, <3>2
    <3> QED BY <1>2, <1>3, <3>3
  <2>3. CASE n <= DayMinutes
    <3> HIDE DEF h, i, d, e
    <3>1. h = i
      BY <1>2, <1>3, <1>4, <2>1, <2>3 DEF DayMinutes, HourMinutes
    <3> QED BY <1>2, <1>3, <3>1
  <2> QED BY <2>2, <2>3 DEF TellsApart
<1> QED BY <1>5, <1>6 DEF TellsApart, HourMinutes

\* No file is read twice by an accepted recompute whose template names the sensors and
\* tells its minutes apart, for ranges of any length, also before the epoch.
THEOREM ReadOnce == ConfigSpec => []FilesReadOnce
<1>1. ValidRuns => FilesReadOnce
  <2> DEFINE t == cli.data_path_template
             a == cli.recompute_from \div Minute
             b == cli.recompute_to \div Minute
             n == Cardinality(MinutesRead(cli))
  <2>1. SUFFICES ASSUME ValidRuns, phase = "recompute",
                        "sensor" \in t \/ Len(cli.sensors) = 1, TellsApart(t, n),
                        NEW r \in Reads(cli), NEW q \in Reads(cli),
                        PathRead(cli, r) = PathRead(cli, q)
                 PROVE  r = q
    BY DEF FilesReadOnce
  <2>2. a \in Int /\ b \in Int
    BY <2>1, CommandLineAssumption, ConfigurationAssumption
       DEF ValidRuns, Valid, Running, RecomputeOk
  <2>3. /\ MinutesRead(cli) = a - 1 .. b - 1
        /\ r \in (DOMAIN cli.sensors) \X (a - 1 .. b - 1)
        /\ q \in (DOMAIN cli.sensors) \X (a - 1 .. b - 1)
    BY <2>1 DEF Reads, MinutesRead
  <2>4. /\ DOMAIN cli.sensors = 1 .. Len(cli.sensors) /\ Len(cli.sensors) \in Nat
        /\ \A i, j \in DOMAIN cli.sensors : cli.sensors[i] = cli.sensors[j] => i = j
    BY <2>1, CommandLineAssumption DEF ValidRuns, Valid, Running, SensorsOk, Repeated
  <2>5. MinutePath(t, cli.sensors[r[1]], r[2]) = MinutePath(t, cli.sensors[q[1]], q[2])
    BY <2>1 DEF PathRead
  <2> HIDE DEF a, b
  <2>6. n \in Nat /\ n = IF a - 1 > b - 1 THEN 0 ELSE (b - 1) - (a - 1) + 1
    <3>1. a - 1 \in Int /\ b - 1 \in Int
      BY <2>2
    <3>2. Cardinality(a - 1 .. b - 1) =
            IF a - 1 > b - 1 THEN 0 ELSE (b - 1) - (a - 1) + 1
      BY <3>1, FS_Interval
    <3> QED BY <2>2, <2>3, <3>2
  <2> HIDE DEF n
  <2>7. r[2] = q[2]
    <3>1. /\ r[2] \in Int /\ q[2] \in Int /\ a - 1 <= r[2] /\ r[2] <= b - 1
          /\ a - 1 <= q[2] /\ q[2] <= b - 1
      BY <2>2, <2>3
    <3>2. r[2] - q[2] < n /\ q[2] - r[2] < n
      BY <2>2, <2>6, <3>1
    <3> HIDE DEF t
    <3> QED BY <2>1, <2>5, <2>6, <3>1, <3>2, PathsTellMinutes
  <2>8. r[1] = q[1]
    <3>1. r[1] \in DOMAIN cli.sensors /\ q[1] \in DOMAIN cli.sensors
      BY <2>3
    <3>2. CASE Len(cli.sensors) = 1
      BY <2>4, <3>1, <3>2
    <3>3. CASE "sensor" \in t
      <4>1. PathField("sensor", cli.sensors[r[1]], r[2])
              = PathField("sensor", cli.sensors[q[1]], q[2])
        <5>1. \A s, m : MinutePath(t, s, m)["sensor"] = PathField("sensor", s, m)
          BY <3>3 DEF MinutePath
        <5> QED BY <2>5, <5>1
      <4>2. cli.sensors[r[1]] = cli.sensors[q[1]]
        BY <4>1 DEF PathField
      <4> QED BY <2>4, <3>1, <4>2
    <3> QED BY <2>1, <3>2, <3>3
  <2> QED BY <2>3, <2>7, <2>8
<1> QED BY <1>1, ValidInvariant, PTL

-----------------------------------------------------------------------------
\* Every frame accepted so far was parsed from a whole payload.
FramesInv ==
  \A x \in frames :
    /\ IsPayload(x[1])
    /\ x[2] = ParseFrame(x[1]) /\ ParseFrame(x[1]) # MalformedShortFrame

LEMMA SameZeros ==
  ASSUME NEW f \in [1 .. PaddingLen -> 0 .. 255], NEW g \in [1 .. PaddingLen -> 0 .. 255],
         \A i \in 1 .. PaddingLen : f[i] = 0 /\ g[i] = 0
  PROVE  f = g
  BY WireAssumption

\* Long frames keep all of the payload; a short one what its zero end leaves.
LEMMA ParseFrameInjective ==
  ASSUME NEW p, NEW q, IsPayload(p), IsPayload(q),
         ParseFrame(p) # MalformedShortFrame, ParseFrame(p) = ParseFrame(q)
  PROVE  p = q
<1>1. /\ p = [df |-> p.df, head |-> p.head, tail |-> p.tail]
      /\ q = [df |-> q.df, head |-> q.head, tail |-> q.tail]
      /\ p.tail \in [1 .. PaddingLen -> 0 .. 255]
      /\ q.tail \in [1 .. PaddingLen -> 0 .. 255]
  BY DEF IsPayload
<1>2. CASE p.df >= 16
  <2>1. ParseFrame(p).form = "long" /\ ParseFrame(p).payload = p
    BY <1>2 DEF ParseFrame
  <2>2. q.df >= 16
    BY <2>1 DEF ParseFrame, MalformedShortFrame
  <2>3. ParseFrame(q).payload = q
    BY <2>2 DEF ParseFrame
  <2> QED BY <2>1, <2>3
<1>3. CASE ~(p.df >= 16)
  <2>1. /\ Padded(p) /\ ParseFrame(p).form = "short"
        /\ ParseFrame(p).df = p.df /\ ParseFrame(p).head = p.head
    BY <1>3 DEF ParseFrame
  <2>2. ~(q.df >= 16) /\ Padded(q)
    BY <2>1 DEF ParseFrame, MalformedShortFrame
  <2>3. ParseFrame(q).df = q.df /\ ParseFrame(q).head = q.head
    BY <2>2 DEF ParseFrame
  <2>4. p.tail = q.tail
    <3>1. \A i \in 1 .. PaddingLen : p.tail[i] = 0 /\ q.tail[i] = 0
      BY <1>1, <2>1, <2>2 DEF Padded
    <3> QED BY <1>1, <3>1, SameZeros
  <2> QED BY <1>1, <2>1, <2>3, <2>4
<1> QED BY <1>2, <1>3

\* What a message adds.
LEMMA ParseKeepsFrames ==
  ASSUME FramesInv, NEW body, Parse(body),
         Wanted(body) => \A r \in Range(body.records) : IsPayload(r.payload)
  PROVE  FramesInv'
<1>1. CASE ~Wanted(body)
  BY <1>1 DEF Parse, FramesInv
<1>2. CASE Wanted(body)
  <2>1. SUFFICES ASSUME NEW x \in frames', x \notin frames
                 PROVE  /\ IsPayload(x[1])
                        /\ x[2] = ParseFrame(x[1]) /\ ParseFrame(x[1]) # MalformedShortFrame
    BY DEF FramesInv
  <2>2. PICK r \in Range(body.records) :
          x = <<r.payload, ParseFrame(r.payload)>> /\ ParseFrame(r.payload) # MalformedShortFrame
    BY <1>2, <2>1 DEF Parse
  <2> QED BY <1>2, <2>2
<1> QED BY <1>1, <1>2

-----------------------------------------------------------------------------
(* The calendar. *)

\* Months follow each other without a gap.
LEMMA MonthLengths ==
  ASSUME NEW y \in Int, NEW m \in 1 .. 11, NEW d \in Int, d = DaysIn(y, m)
  PROVE  DayNumber(y, m + 1, 1) = DayNumber(y, m, d) + 1
<1>1. LeapYears(y - 1) \in Int /\ LeapYears(EpochYear - 1) \in Int
  BY WireAssumption DEF LeapYears
<1>2. DaysBefore[m] \in Int /\ DaysBefore[m + 1] \in Int
  BY DEF DaysBefore
<1>3. 365 * (y - EpochYear) \in Int
  BY WireAssumption
<1> QED BY <1>1, <1>2, <1>3 DEF DayNumber, DaysIn

\* A year adds its leap day to those before it.
LEMMA LeapYearsStep ==
  ASSUME NEW y \in Int
  PROVE  LeapYears(y) = LeapYears(y - 1) + (IF IsLeap(y) THEN 1 ELSE 0)
  BY DEF LeapYears, IsLeap

\* So do years.
LEMMA YearLengths ==
  ASSUME NEW y \in Int, NEW d \in Int, d = DaysIn(y, 12)
  PROVE  DayNumber(y + 1, 1, 1) = DayNumber(y, 12, d) + 1
<1>1. LeapYears(y - 1) \in Int /\ LeapYears(EpochYear - 1) \in Int
  BY WireAssumption DEF LeapYears
<1>2. LeapYears((y + 1) - 1) = LeapYears(y - 1) + (IF IsLeap(y) THEN 1 ELSE 0)
  BY LeapYearsStep
<1>3. DaysBefore[1] = 0 /\ DaysBefore[12] = 334 /\ DaysBefore[13] = 365
  BY DEF DaysBefore
<1>4. 365 * ((y + 1) - EpochYear) = 365 * (y - EpochYear) + 365
  BY WireAssumption
<1> QED BY <1>1, <1>2, <1>3, <1>4, WireAssumption DEF DayNumber, DaysIn

\* A clock that goes on through days, months and years.
ClockTimes ==
  [year : Int, month : 1 .. 12, day : Int, hour : 0 .. 23, min : 0 .. 59, sec : 0 .. 59,
   sub : 0 .. SecondTicks - 1]

\* The clock shows the time that has passed since it started.
ClockInv ==
  /\ started \in Starts /\ elapsed \in Nat
  /\ clock \in ClockTimes /\ IsMinute(clock)
  /\ Seconds(clock) * SecondTicks + clock.sub = StartTime(started) + elapsed

\* The day of a time is a whole number.
LEMMA DayNumbers ==
  ASSUME NEW y \in Int, NEW m \in 1 .. 12, NEW d \in Int
  PROVE  DayNumber(y, m, d) \in Int /\ DaysIn(y, m) \in Nat \ {0}
         /\ DayNumber(y, m, d + 1) = DayNumber(y, m, d) + 1
<1>1. LeapYears(y - 1) \in Int /\ LeapYears(EpochYear - 1) \in Int
  BY WireAssumption DEF LeapYears
<1>2. DaysBefore[m] \in Int /\ DaysBefore[m + 1] \in Int /\ DaysBefore[m + 1] > DaysBefore[m]
  BY DEF DaysBefore
<1>3. 365 * (y - EpochYear) \in Int
  BY WireAssumption
<1> QED BY <1>1, <1>2, <1>3 DEF DayNumber, DaysIn

\* A tick stays within the second, or begins the next one.
LEMMA AfterTickFacts ==
  ASSUME NEW t \in ClockTimes, IsMinute(t)
  PROVE  /\ AfterTick(t) \in ClockTimes /\ IsMinute(AfterTick(t))
         /\ Seconds(t) \in Int
         /\ \/ Seconds(AfterTick(t)) = Seconds(t) /\ AfterTick(t).sub = t.sub + 1
            \/ /\ Seconds(AfterTick(t)) = Seconds(t) + 1
               /\ AfterTick(t).sub = 0 /\ t.sub + 1 = SecondTicks
<1> DEFINE second == [t EXCEPT !.sub = 0]
           minute == [second EXCEPT !.sec = 0]
           hour   == [minute EXCEPT !.min = 0]
           day    == [hour EXCEPT !.hour = 0]
           month  == [day EXCEPT !.day = 1]
           year   == [month EXCEPT !.month = 1]
           u      == AfterTick(t)
           number == DayNumber(t.year, t.month, t.day)
           length == DaysIn(t.year, t.month)
<1>1. /\ t.year \in Int /\ t.month \in 1 .. 12 /\ t.day \in Int /\ t.hour \in 0 .. 23
      /\ t.min \in 0 .. 59 /\ t.sec \in 0 .. 59 /\ t.sub \in 0 .. SecondTicks - 1
      /\ SecondTicks \in Nat \ {0}
  BY WireAssumption DEF ClockTimes
<1>2. /\ t.month \in Int /\ 1 <= t.month /\ t.month <= 12
      /\ t.hour \in Int /\ 0 <= t.hour /\ t.hour <= 23
      /\ t.min \in Int /\ 0 <= t.min /\ t.min <= 59
      /\ t.sec \in Int /\ 0 <= t.sec /\ t.sec <= 59
      /\ t.sub \in Int /\ 0 <= t.sub /\ t.sub < SecondTicks
  BY <1>1
<1>3. /\ number \in Int /\ length \in Nat \ {0}
      /\ DayNumber(t.year, t.month, t.day + 1) = number + 1
  BY <1>1, DayNumbers
<1>4. t.day \in Int /\ 1 <= t.day /\ t.day <= length
  BY <1>1, <1>3 DEF IsMinute
<1>5. Seconds(t) = ((number * 24 + t.hour) * 60 + t.min) * 60 + t.sec
  BY DEF Seconds
<1> HIDE DEF second, minute, hour, day, month, year
<1>6. /\ second \in ClockTimes
      /\ second.year = t.year /\ second.month = t.month /\ second.day = t.day /\ second.hour = t.hour
      /\ second.min = t.min /\ second.sec = t.sec /\ second.sub = 0
  BY <1>1 DEF ClockTimes, second
<1>7. /\ minute \in ClockTimes
      /\ minute.year = t.year /\ minute.month = t.month /\ minute.day = t.day /\ minute.hour = t.hour
      /\ minute.min = t.min /\ minute.sec = 0 /\ minute.sub = 0
  BY ONLY <1>1, <1>6 DEF ClockTimes, minute
<1>8. /\ hour \in ClockTimes
      /\ hour.year = t.year /\ hour.month = t.month /\ hour.day = t.day /\ hour.hour = t.hour
      /\ hour.min = 0 /\ hour.sec = 0 /\ hour.sub = 0
  BY ONLY <1>1, <1>7 DEF ClockTimes, hour
<1>9. /\ day \in ClockTimes
      /\ day.year = t.year /\ day.month = t.month /\ day.day = t.day /\ day.hour = 0
      /\ day.min = 0 /\ day.sec = 0 /\ day.sub = 0
  BY ONLY <1>1, <1>8 DEF ClockTimes, day
<1>10. /\ month \in ClockTimes
      /\ month.year = t.year /\ month.month = t.month /\ month.day = 1 /\ month.hour = 0
      /\ month.min = 0 /\ month.sec = 0 /\ month.sub = 0
  BY ONLY <1>1, <1>9 DEF ClockTimes, month
<1>11. /\ year \in ClockTimes
      /\ year.year = t.year /\ year.month = 1 /\ year.day = 1 /\ year.hour = 0
      /\ year.min = 0 /\ year.sec = 0 /\ year.sub = 0
  BY ONLY <1>1, <1>10 DEF ClockTimes, year
<1> HIDE DEF number, length
<1>12. u = IF t.sub + 1 < SecondTicks THEN [t EXCEPT !.sub = @ + 1]
          ELSE IF t.sec < 59 THEN [second EXCEPT !.sec = @ + 1]
          ELSE IF t.min < 59 THEN [minute EXCEPT !.min = @ + 1]
          ELSE IF t.hour < 23 THEN [hour EXCEPT !.hour = @ + 1]
          ELSE IF t.day < length THEN [day EXCEPT !.day = @ + 1]
          ELSE IF t.month < 12 THEN [month EXCEPT !.month = @ + 1]
          ELSE [year EXCEPT !.year = @ + 1]
  BY DEF AfterTick, second, minute, hour, day, month, year, length
<1> HIDE DEF u
<1>13. SUFFICES /\ u \in ClockTimes /\ IsMinute(u)
                /\ Seconds(t) \in Int
                /\ \/ Seconds(u) = Seconds(t) /\ u.sub = t.sub + 1
                   \/ Seconds(u) = Seconds(t) + 1 /\ u.sub = 0 /\ t.sub + 1 = SecondTicks
  BY DEF u
<1>14. Seconds(t) \in Int
  BY ONLY <1>2, <1>3, <1>5
<1>15. CASE t.sub + 1 < SecondTicks
  <2>1. u = [t EXCEPT !.sub = @ + 1]
    BY ONLY <1>1, <1>2, <1>3, <1>4, <1>12, <1>15
  <2>2. t.sub + 1 \in 0 .. SecondTicks - 1
    BY <1>1, <1>2, <1>4, <1>1, <1>15
  <2>3. /\ u \in ClockTimes
        /\ u.year = t.year /\ u.month = t.month /\ u.day = t.day /\ u.hour = t.hour
        /\ u.min = t.min /\ u.sec = t.sec /\ u.sub = t.sub + 1
    BY <1>1, <2>1, <2>2 DEF ClockTimes
  <2>4. IsMinute(u)
    BY <1>1, <1>2, <2>2, <2>3 DEF IsMinute, ClockTimes
  <2>5. Seconds(u) = ((number * 24 + u.hour) * 60 + u.min) * 60 + u.sec
    BY <2>3 DEF Seconds, number
  <2>6. Seconds(u) = Seconds(t)
    BY ONLY <1>5, <2>3, <2>5
  <2> QED BY <1>14, <1>15, <2>3, <2>4, <2>6
<1>16. CASE /\ t.sub + 1 = SecondTicks /\ t.sec < 59
  <2>1. u = [second EXCEPT !.sec = @ + 1]
    BY ONLY <1>1, <1>2, <1>3, <1>4, <1>12, <1>16
  <2>2. second.sec + 1 \in 0 .. 59
    BY <1>1, <1>2, <1>4, <1>6, <1>16
  <2>3. /\ u \in ClockTimes
        /\ u.year = t.year /\ u.month = t.month /\ u.day = t.day /\ u.hour = t.hour
        /\ u.min = t.min /\ u.sec = t.sec + 1 /\ u.sub = 0
    BY ONLY <1>1, <1>6, <2>1, <2>2 DEF ClockTimes
  <2>4. IsMinute(u)
    BY <1>1, <1>2, <2>2, <2>3 DEF IsMinute, ClockTimes
  <2>5. Seconds(u) = ((number * 24 + u.hour) * 60 + u.min) * 60 + u.sec
    BY <2>3 DEF Seconds, number
  <2>6. Seconds(u) = Seconds(t) + 1
    BY ONLY <1>2, <1>3, <1>5, <2>3, <2>5, <1>16
  <2> QED BY <1>14, <1>16, <2>3, <2>4, <2>6
<1>17. CASE /\ t.sub + 1 = SecondTicks /\ t.sec = 59 /\ t.min < 59
  <2>1. u = [minute EXCEPT !.min = @ + 1]
    BY ONLY <1>1, <1>2, <1>3, <1>4, <1>12, <1>17
  <2>2. minute.min + 1 \in 0 .. 59
    BY <1>1, <1>2, <1>4, <1>7, <1>17
  <2>3. /\ u \in ClockTimes
        /\ u.year = t.year /\ u.month = t.month /\ u.day = t.day /\ u.hour = t.hour
        /\ u.min = t.min + 1 /\ u.sec = 0 /\ u.sub = 0
    BY ONLY <1>1, <1>7, <2>1, <2>2 DEF ClockTimes
  <2>4. IsMinute(u)
    BY <1>1, <1>2, <2>2, <2>3 DEF IsMinute, ClockTimes
  <2>5. Seconds(u) = ((number * 24 + u.hour) * 60 + u.min) * 60 + u.sec
    BY <2>3 DEF Seconds, number
  <2>6. Seconds(u) = Seconds(t) + 1
    BY ONLY <1>2, <1>3, <1>5, <2>3, <2>5, <1>17
  <2> QED BY <1>14, <1>17, <2>3, <2>4, <2>6
<1>18. CASE /\ t.sub + 1 = SecondTicks /\ t.sec = 59 /\ t.min = 59 /\ t.hour < 23
  <2>1. u = [hour EXCEPT !.hour = @ + 1]
    BY ONLY <1>1, <1>2, <1>3, <1>4, <1>12, <1>18
  <2>2. hour.hour + 1 \in 0 .. 23
    BY <1>1, <1>2, <1>4, <1>8, <1>18
  <2>3. /\ u \in ClockTimes
        /\ u.year = t.year /\ u.month = t.month /\ u.day = t.day /\ u.hour = t.hour + 1
        /\ u.min = 0 /\ u.sec = 0 /\ u.sub = 0
    BY ONLY <1>1, <1>8, <2>1, <2>2 DEF ClockTimes
  <2>4. IsMinute(u)
    BY <1>1, <1>2, <2>2, <2>3 DEF IsMinute, ClockTimes
  <2>5. Seconds(u) = ((number * 24 + u.hour) * 60 + u.min) * 60 + u.sec
    BY <2>3 DEF Seconds, number
  <2>6. Seconds(u) = Seconds(t) + 1
    BY ONLY <1>2, <1>3, <1>5, <2>3, <2>5, <1>18
  <2> QED BY <1>14, <1>18, <2>3, <2>4, <2>6
<1>19. CASE /\ t.sub + 1 = SecondTicks /\ t.sec = 59 /\ t.min = 59 /\ t.hour = 23
            /\ t.day < length
  <2>1. u = [day EXCEPT !.day = @ + 1]
    BY ONLY <1>1, <1>2, <1>3, <1>4, <1>12, <1>19
  <2>2. day.day + 1 \in Int
    BY <1>1, <1>2, <1>4, <1>9, <1>19
  <2>3. /\ u \in ClockTimes
        /\ u.year = t.year /\ u.month = t.month /\ u.day = t.day + 1 /\ u.hour = 0
        /\ u.min = 0 /\ u.sec = 0 /\ u.sub = 0
    BY ONLY <1>1, <1>9, <2>1, <2>2 DEF ClockTimes
  <2>4. IsMinute(u)
    <3>1. u.day \in 1 .. length
      BY <1>3, <1>4, <2>3, <1>19
    <3> QED BY <1>1, <2>3, <3>1 DEF IsMinute, length, ClockTimes
  <2>5. Seconds(u) = (((number + 1) * 24 + u.hour) * 60 + u.min) * 60 + u.sec
    BY <1>3, <2>3 DEF Seconds
  <2>6. Seconds(u) = Seconds(t) + 1
    BY ONLY <1>2, <1>3, <1>5, <2>3, <2>5, <1>19
  <2> QED BY <1>14, <1>19, <2>3, <2>4, <2>6
<1>20. CASE /\ t.sub + 1 = SecondTicks /\ t.sec = 59 /\ t.min = 59 /\ t.hour = 23
            /\ t.day = length /\ t.month < 12
  <2>1. u = [month EXCEPT !.month = @ + 1]
    BY ONLY <1>1, <1>2, <1>3, <1>4, <1>12, <1>20
  <2>2. month.month + 1 \in 1 .. 12
    BY <1>1, <1>2, <1>4, <1>10, <1>20
  <2>3. /\ u \in ClockTimes
        /\ u.year = t.year /\ u.month = t.month + 1 /\ u.day = 1 /\ u.hour = 0
        /\ u.min = 0 /\ u.sec = 0 /\ u.sub = 0
    BY ONLY <1>1, <1>10, <2>1, <2>2 DEF ClockTimes
  <2>4. t.year \in Int /\ t.month + 1 \in 1 .. 12
    BY <1>1, <1>2, <1>20
  <2>5. DayNumber(t.year, t.month + 1, 1) = number + 1
    <3>1. t.month \in 1 .. 11 /\ t.day = DaysIn(t.year, t.month)
      BY <1>1, <1>2, <1>20 DEF length
    <3> QED BY <1>1, <3>1, MonthLengths DEF number
  <2>6. DaysIn(t.year, t.month + 1) \in Nat \ {0}
    BY <1>1, <2>4, DayNumbers
  <2>7. IsMinute(u)
    <3>1. u.day \in 1 .. DaysIn(t.year, t.month + 1)
      BY <2>3, <2>6
    <3> QED BY <1>1, <2>3, <2>4, <3>1 DEF IsMinute, ClockTimes
  <2>8. Seconds(u) = (((number + 1) * 24 + u.hour) * 60 + u.min) * 60 + u.sec
    BY <2>3, <2>5 DEF Seconds
  <2>9. Seconds(u) = Seconds(t) + 1
    BY ONLY <1>2, <1>3, <1>5, <2>3, <2>8, <1>20
  <2> QED BY <1>14, <1>20, <2>3, <2>7, <2>9
<1>21. CASE /\ t.sub + 1 = SecondTicks /\ t.sec = 59 /\ t.min = 59 /\ t.hour = 23
            /\ t.day = length /\ t.month = 12
  <2>1. u = [year EXCEPT !.year = @ + 1]
    BY ONLY <1>1, <1>2, <1>3, <1>4, <1>12, <1>21
  <2>2. year.year + 1 \in Int
    BY <1>1, <1>2, <1>4, <1>11, <1>21
  <2>3. /\ u \in ClockTimes
        /\ u.year = t.year + 1 /\ u.month = 1 /\ u.day = 1 /\ u.hour = 0
        /\ u.min = 0 /\ u.sec = 0 /\ u.sub = 0
    BY ONLY <1>1, <1>11, <2>1, <2>2 DEF ClockTimes
  <2>4. t.year + 1 \in Int /\ 1 \in 1 .. 12
    BY <1>1, <1>2, <1>21
  <2>5. DayNumber(t.year + 1, 1, 1) = number + 1
    <3>1. t.month = 12 /\ t.day = DaysIn(t.year, 12)
      BY <1>21 DEF length
    <3> QED BY <1>1, <3>1, YearLengths DEF number
  <2>6. DaysIn(t.year + 1, 1) \in Nat \ {0}
    BY <1>1, <2>4, DayNumbers
  <2>7. IsMinute(u)
    <3>1. u.day \in 1 .. DaysIn(t.year + 1, 1)
      BY <2>3, <2>6
    <3> QED BY <1>1, <2>3, <2>4, <3>1 DEF IsMinute, ClockTimes
  <2>8. Seconds(u) = (((number + 1) * 24 + u.hour) * 60 + u.min) * 60 + u.sec
    BY <2>3, <2>5 DEF Seconds
  <2>9. Seconds(u) = Seconds(t) + 1
    BY ONLY <1>2, <1>3, <1>5, <2>3, <2>8, <1>21
  <2> QED BY <1>14, <1>21, <2>3, <2>7, <2>9
<1> QED BY <1>1, <1>2, <1>3, <1>4, <1>15, <1>16, <1>17, <1>18, <1>19, <1>20, <1>21

\* A tick of the clock keeps it right.
LEMMA TickKeepsClock ==
  ASSUME ClockInv, Tick
  PROVE  ClockInv'
<1> DEFINE a == Seconds(clock)
           b == Seconds(clock')
<1>1. clock' = AfterTick(clock) /\ elapsed' = elapsed + 1 /\ started' = started
  BY DEF Tick
<1>2. /\ clock' \in ClockTimes /\ IsMinute(clock') /\ a \in Int
      /\ \/ b = a /\ clock'.sub = clock.sub + 1
         \/ b = a + 1 /\ clock'.sub = 0 /\ clock.sub + 1 = SecondTicks
  BY <1>1, AfterTickFacts DEF ClockInv
<1>3. /\ a * SecondTicks + clock.sub = StartTime(started) + elapsed
      /\ elapsed \in Nat /\ StartTime(started) \in Int /\ clock.sub \in Int
  <2>1. started \in Starts /\ clock.sub \in Int
    BY WireAssumption DEF ClockInv, ClockTimes
  <2>2. Seconds(started) \in Int
    <3>1. /\ started.year \in Int /\ started.month \in 1 .. 12 /\ started.day \in Int
          /\ started.hour \in Int /\ started.min \in Int /\ started.sec \in Int
      BY <2>1, PublisherAssumption DEF CalendarTimes
    <3>2. DayNumber(started.year, started.month, started.day) \in Int
      BY <3>1, DayNumbers
    <3> QED BY <3>1, <3>2 DEF Seconds
  <2>3. StartTime(started) \in Int
    BY <2>1, <2>2, PublisherAssumption, WireAssumption
  <2> QED BY <2>1, <2>3 DEF ClockInv
<1> HIDE DEF a, b
<1>4. b * SecondTicks + clock'.sub = StartTime(started) + (elapsed + 1)
  <2>1. CASE b = a /\ clock'.sub = clock.sub + 1
    BY <1>2, <1>3, <2>1, WireAssumption
  <2>2. CASE b = a + 1 /\ clock'.sub = 0 /\ clock.sub + 1 = SecondTicks
    <3>1. (a + 1) * SecondTicks = a * SecondTicks + SecondTicks
      BY <1>2, WireAssumption
    <3> QED BY <1>2, <1>3, <2>2, <3>1, WireAssumption
  <2> QED BY <1>2, <2>1, <2>2
<1> QED BY <1>1, <1>2, <1>4 DEF ClockInv, b

-----------------------------------------------------------------------------
(* From the clock to the events. *)

\* A message with one record, which stands for the time in its header and record.
MessageOK(m) ==
  /\ m.body \in Bodies /\ IsMinute(m.body.time) /\ Len(m.body.records) = 1
  /\ m.times \in Seq(Int) /\ Len(m.times) = 1
  /\ ParseMinute(m.body.time) \in Int
  /\ ParseMinute(m.body.time) + m.body.records[1].rel = m.times[1]

Messages == [body : Bodies, times : Seq(Int)]

Composed == {m \in Messages : MessageOK(m)}

\* What the parser makes of a header's time.
LEMMA ParseMinuteIs ==
  ASSUME NEW t \in CalendarTimes, IsMinute(t)
  PROVE  /\ ParseMinute(t) = ((DayNumber(t.year, t.month, t.day) * 24 + t.hour) * 60 + t.min)
                               * MinuteTicks
         /\ (DayNumber(t.year, t.month, t.day) * 24 + t.hour) * 60 + t.min \in Int
<1>1. /\ t.year \in Int /\ t.month \in 1 .. 12 /\ t.day \in Int
      /\ t.hour \in Int /\ t.min \in Int /\ t.sec \in Int /\ ~(t.sec >= 60)
  BY DEF CalendarTimes
<1>2. ~ \E f \in DOMAIN t : t[f] = None
  <2>1. DOMAIN t = {"year", "month", "day", "hour", "min", "sec"} /\ t.month \in Int
    BY DEF CalendarTimes
  <2>2. SUFFICES ASSUME NEW f \in DOMAIN t PROVE t[f] \in Int
    BY WireAssumption
  <2> QED BY <1>1, <2>1
<1>3. DayNumber(t.year, t.month, t.day) \in Int
  BY <1>1, DayNumbers
<1> QED BY <1>1, <1>2, <1>3 DEF ParseMinute

\* A message composed by the clock stands for its time.
LEMMA MessageFacts ==
  ASSUME ClockInv, NEW code \in {AB("1"), AB("2"), AB("3")}, NEW delay \in Nat, NEW dbm \in Int,
         NEW payload \in {Position("even"), Position("odd")}
  PROVE  Message(code, clock, delay, dbm, payload) \in Composed
<1> DEFINE h == HeaderTime(clock)
           r == [rel |-> RelNow(clock) + delay, payload |-> payload,
                 signal |-> EncodeSignal(dbm)]
           body == [code |-> code, time |-> h, records |-> <<r>>]
           times == <<StartTime(started) + elapsed + delay>>
           m == [body |-> body, times |-> times]
           q == (DayNumber(h.year, h.month, h.day) * 24 + h.hour) * 60 + h.min
<1>1. m = Message(code, clock, delay, dbm, payload)
  BY DEF Message
<1>2. /\ clock.sec \in Int /\ clock.sub \in Int
      /\ clock \in ClockTimes /\ IsMinute(clock) /\ SecondTicks \in Nat \ {0}
      /\ started \in Starts /\ elapsed \in Nat
  BY WireAssumption DEF ClockInv, ClockTimes
<1>3. /\ h \in CalendarTimes
      /\ h.year = clock.year /\ h.month = clock.month /\ h.day = clock.day
      /\ h.hour = clock.hour /\ h.min = clock.min /\ h.sec = clock.sec
  <2>1. DOMAIN clock \ {"sub"} = {"year", "month", "day", "hour", "min", "sec"}
    BY <1>2 DEF ClockTimes
  <2>2. h = [f \in {"year", "month", "day", "hour", "min", "sec"} |-> clock[f]]
    BY <2>1 DEF HeaderTime
  <2>3. /\ h.year = clock.year /\ h.month = clock.month /\ h.day = clock.day
        /\ h.hour = clock.hour /\ h.min = clock.min /\ h.sec = clock.sec
    BY <2>2
  <2>4. /\ clock.year \in Int /\ clock.month \in 1 .. 12 /\ clock.day \in Int
        /\ clock.hour \in 0 .. 23 /\ clock.min \in 0 .. 59 /\ clock.sec \in 0 .. 59
    BY <1>2 DEF ClockTimes
  <2>5. h \in CalendarTimes
    BY <2>2, <2>4 DEF CalendarTimes
  <2> QED BY <2>3, <2>5
<1> HIDE DEF h
<1>4. IsMinute(h)
  BY <1>2, <1>3 DEF IsMinute
<1>5. ParseMinute(h) = q * MinuteTicks /\ q \in Int
  BY <1>3, <1>4, ParseMinuteIs
<1>6. Seconds(clock) = q * 60 + clock.sec
  BY <1>3 DEF Seconds
<1> HIDE DEF q
<1>7. /\ (q * 60 + clock.sec) * SecondTicks + clock.sub = StartTime(started) + elapsed
  BY <1>6 DEF ClockInv
<1>8. RelNow(clock) = clock.sec * SecondTicks + clock.sub /\ RelNow(clock) \in Int
  BY <1>2 DEF RelNow
<1>9. q * MinuteTicks + RelNow(clock) = StartTime(started) + elapsed
  <2>1. q * (60 * SecondTicks) + clock.sec * SecondTicks = (q * 60 + clock.sec) * SecondTicks
    BY <1>2, <1>5
  <2>2. /\ q * (60 * SecondTicks) \in Int /\ clock.sec * SecondTicks \in Int
    BY <1>2, <1>5
  <2> QED BY <1>2, <1>7, <1>8, <2>1, <2>2 DEF MinuteTicks
<1>10. q * MinuteTicks \in Int /\ StartTime(started) + elapsed \in Int
  <2>1. q * MinuteTicks \in Int
    BY <1>2, <1>5 DEF MinuteTicks
  <2> QED BY <1>8, <1>9, <2>1
<1>11. r \in Records
  <2>1. EncodeSignal(dbm) \in Int
    BY DEF EncodeSignal
  <2> QED BY <1>8, <2>1 DEF Records
<1>12. body \in Bodies
  <2> HIDE DEF r
  <2>1. <<r>> \in Seq(Records)
    BY <1>11
  <2> QED BY <1>3, <2>1 DEF Bodies
<1>13. times \in Seq(Int) /\ Len(times) = 1 /\ times[1] = StartTime(started) + elapsed + delay
  BY <1>10
<1>14. ParseMinute(h) + (RelNow(clock) + delay) = times[1]
  BY <1>5, <1>8, <1>9, <1>10, <1>13
<1>15. /\ m.body = body /\ m.times = times /\ body.time = h
       /\ Len(body.records) = 1 /\ body.records[1].rel = RelNow(clock) + delay
  OBVIOUS
<1>16. m \in Messages
  BY <1>12, <1>13 DEF Messages
<1> HIDE DEF m, body, times
<1>17. MessageOK(m)
  BY <1>4, <1>5, <1>10, <1>12, <1>13, <1>14, <1>15 DEF MessageOK
<1> QED BY <1>1, <1>16, <1>17 DEF Composed

\* A message of one record that has a frame is one event.
LEMMA OneEvent ==
  ASSUME NEW body, Len(body.records) = 1,
         ParseFrame(body.records[1].payload) # MalformedShortFrame
  PROVE  EventsOf(body) =
           <<ParseRecord(body.code, ParseMinute(body.time), body.records[1])>>
<1> DEFINE record(i) == ParseRecord(body.code, ParseMinute(body.time), body.records[i])
           ok(f) == f = [n \in 0 .. Len(body.records) |->
                           IF n = 0 THEN <<>>
                           ELSE IF record(n).frame = MalformedShortFrame THEN f[n - 1]
                           ELSE Append(f[n - 1], record(n))]
           e == record(1)
           g == [n \in 0 .. 1 |-> IF n = 0 THEN <<>> ELSE <<e>>]
<1>1. EventsOf(body) = (CHOOSE f : ok(f))[Len(body.records)]
  BY DEF EventsOf
<1>2. e.frame # MalformedShortFrame
  BY DEF ParseRecord
<1> HIDE DEF record
<1>3. ok(g)
  <2>1. 0 .. 1 = {0, 1}
    OBVIOUS
  <2>2. g[0] = <<>> /\ g[1] = <<e>> /\ Append(g[0], e) = <<e>>
    BY <2>1
  <2> QED BY <1>2, <2>1, <2>2
<1>4. ok(CHOOSE f : ok(f))
  <2> HIDE DEF ok, g
  <2> QED BY <1>3
<1> DEFINE c == CHOOSE f : ok(f)
<1>5. c[0] = <<>> /\ c[1] = Append(c[0], e)
  <2> HIDE DEF c
  <2>1. ok(c)
    BY <1>4 DEF c
  <2> QED BY <1>2, <2>1
<1> HIDE DEF c
<1>6. c[1] = <<e>>
  BY <1>5
<1> QED BY <1>1, <1>6 DEF c, record

\* The clock is right, what waits was composed by it, and the times of the last
\* message are those of its events.
IntakeInv ==
  /\ ValidRuns
  /\ ClockInv
  /\ pending \in Seq(Composed)
  /\ FramesInv
  /\ TimesExact
  /\ phase # "realtime" => last.times = <<>>

\* The event of a composed message is at its time, if its sensor is declared.
LEMMA PublishedIsExact ==
  ASSUME ValidRuns, phase = "realtime", NEW m \in Composed, Parse(m.body),
         last' = m, UNCHANGED cli
  PROVE  TimesExact'
<1> DEFINE body == m.body
           e == ParseRecord(body.code, ParseMinute(body.time), body.records[1])
<1>1. MessageOK(m) /\ body \in Bodies
  BY DEF Composed, MessageOK
<1>2. /\ Len(body.records) = 1 /\ body.records[1].payload \in {Position("even"), Position("odd")}
      /\ m.times \in Seq(Int) /\ Len(m.times) = 1
      /\ ParseMinute(body.time) + body.records[1].rel = m.times[1]
  <2>1. /\ Len(body.records) = 1 /\ body.records \in Seq(Records)
        /\ m.times \in Seq(Int) /\ Len(m.times) = 1
        /\ ParseMinute(body.time) + body.records[1].rel = m.times[1]
    BY <1>1 DEF MessageOK, Bodies
  <2>2. body.records[1] \in Records
    BY <2>1
  <2>3. \A r \in Records : r.payload \in {Position("even"), Position("odd")}
    BY DEF Records
  <2> QED BY <2>1, <2>2, <2>3
<1>3. ParseFrame(body.records[1].payload) # MalformedShortFrame
  BY <1>2 DEF ParseFrame, Position, MalformedShortFrame
<1>4. EventsOf(body) = <<e>>
  BY <1>2, <1>3, OneEvent
<1>5. CASE body.code \in Range(cli.sensors)
  <2>1. IsSensorId(body.code)
    BY <1>5 DEF ValidRuns, Running, Valid, SensorsOk, Range
  <2>2. body # None /\ ParseMinute(body.time) # None
    BY <1>1, PublisherAssumption, WireAssumption DEF MessageOK
  <2>3. Wanted(body)
    BY <1>5, <2>1, <2>2 DEF Wanted, HeaderReject
  <2>4. events' = <<e>>
    BY <1>4, <2>3 DEF Parse
  <2>5. e.ts = m.times[1]
    BY <1>2 DEF ParseRecord
  <2> HIDE DEF e
  <2>6. Len(events') = Len(last'.times) /\ \A i \in DOMAIN events' : events'[i].ts = last'.times[i]
    BY <1>2, <2>4, <2>5
  <2> QED BY <1>5, <2>6 DEF TimesExact
<1>6. CASE body.code \notin Range(cli.sensors)
  <2>1. events' = <<>>
    BY <1>6 DEF Parse, Wanted
  <2> QED BY <1>6, <2>1 DEF TimesExact
<1> QED BY <1>5, <1>6

LEMMA IntakeInitInv == IntakeInit => IntakeInv
<1> SUFFICES ASSUME IntakeInit PROVE IntakeInv
  OBVIOUS
<1>1. ValidRuns /\ phase = "parsed"
  BY DEF IntakeInit, ConfigInit, ValidRuns, Running
<1>2. pending = <<>> /\ frames = {} /\ last.times = <<>> /\ elapsed = 0 /\ started \in Starts
  BY DEF IntakeInit, PublisherInit, Nothing
<1>3. ClockInv
  <2>1. /\ started \in CalendarTimes /\ IsMinute(started)
        /\ StartTime(started) = Seconds(started) * SecondTicks
    BY <1>2, PublisherAssumption
  <2>2. clock = [f \in {"year", "month", "day", "hour", "min", "sec", "sub"} |->
                   IF f = "sub" THEN 0 ELSE started[f]]
    <3>1. DOMAIN started \cup {"sub"} = {"year", "month", "day", "hour", "min", "sec", "sub"}
      BY <2>1 DEF CalendarTimes
    <3> QED BY <3>1 DEF IntakeInit, PublisherInit
  <2>3. /\ clock.year = started.year /\ clock.month = started.month /\ clock.day = started.day
        /\ clock.hour = started.hour /\ clock.min = started.min /\ clock.sec = started.sec
        /\ clock.sub = 0
    BY <2>2
  <2>4. clock \in ClockTimes
    <3>1. /\ started.year \in Int /\ started.month \in 1 .. 12 /\ started.day \in Int
          /\ started.hour \in 0 .. 23 /\ started.min \in 0 .. 59 /\ started.sec \in 0 .. 59
      BY <2>1 DEF CalendarTimes
    <3>2. 0 \in 0 .. SecondTicks - 1
      BY WireAssumption
    <3> QED BY <2>2, <3>1, <3>2 DEF ClockTimes
  <2>5. IsMinute(clock) /\ Seconds(clock) = Seconds(started)
    BY <2>1, <2>3 DEF IsMinute, Seconds
  <2>6. Seconds(started) \in Int
    <3>1. /\ clock.year \in Int /\ clock.month \in 1 .. 12 /\ clock.day \in Int
          /\ clock.hour \in Int /\ clock.min \in Int /\ clock.sec \in Int
      BY <2>4 DEF ClockTimes
    <3>2. DayNumber(clock.year, clock.month, clock.day) \in Int
      BY <3>1, DayNumbers
    <3> QED BY <2>5, <3>1, <3>2 DEF Seconds
  <2>7. Seconds(clock) * SecondTicks + clock.sub = StartTime(started) + elapsed
    BY <1>2, <2>1, <2>3, <2>5, <2>6, WireAssumption
  <2> QED BY <1>2, <2>4, <2>5, <2>7 DEF ClockInv
<1>4. FramesInv /\ TimesExact
  BY <1>2 DEF FramesInv, TimesExact
<1> QED BY <1>1, <1>2, <1>3, <1>4 DEF IntakeInv

LEMMA IntakeNextInv == IntakeInv /\ [IntakeNext]_intakeVars => IntakeInv'
<1> SUFFICES ASSUME IntakeInv, [IntakeNext]_intakeVars PROVE IntakeInv'
  OBVIOUS
<1>1. CASE UNCHANGED intakeVars
  BY <1>1 DEF IntakeInv, ValidRuns, Running, ClockInv, FramesInv, TimesExact,
              intakeVars, configVars, publisherVars
<1>2. CASE ConfigNext /\ UNCHANGED publisherVars
  <2>1. ValidRuns'
    BY <1>2 DEF IntakeInv, ValidRuns, Running, Valid, ConfigNext, Refuse, RunMode
  <2>2. phase = "parsed" /\ UNCHANGED cli
    BY <1>2 DEF ConfigNext, Refuse, RunMode
  <2> QED BY <1>2, <2>1, <2>2 DEF IntakeInv, ClockInv, FramesInv, TimesExact, publisherVars
<1>3. CASE phase = "realtime" /\ PublisherNext /\ UNCHANGED configVars
  <2>1. ValidRuns' /\ UNCHANGED cli /\ phase' = "realtime"
    BY <1>3 DEF IntakeInv, ValidRuns, Running, configVars
  <2>2. CASE Tick
    <3>1. ClockInv'
      BY <2>2, TickKeepsClock DEF IntakeInv
    <3> QED BY <2>1, <2>2, <3>1 DEF Tick, IntakeInv, FramesInv, TimesExact
  <2>3. CASE Compose
    <3> DEFINE m1 == Message(AB("1"), clock, 0, -50, Position("even"))
               m2 == Message(AB("2"), clock, OddDelay, -55, Position("odd"))
               m3 == Message(AB("3"), clock, DupDelay, -60, Position("even"))
    <3>1. m1 \in Composed /\ m2 \in Composed /\ m3 \in Composed
      BY MessageFacts, PublisherAssumption DEF IntakeInv
    <3>2. pending' = <<m1, m2, m3>>
      BY <2>3 DEF Compose
    <3> HIDE DEF m1, m2, m3
    <3>3. pending' \in Seq(Composed)
      BY <3>1, <3>2
    <3> QED BY <2>1, <2>3, <3>3 DEF Compose, IntakeInv, ClockInv, FramesInv, TimesExact
  <2>4. CASE PublishNext
    <3> DEFINE m == Head(pending)
    <3>1. m \in Composed /\ pending' \in Seq(Composed)
      BY <2>4, HeadTailProperties DEF PublishNext, IntakeInv
    <3>2. Parse(m.body) /\ last' = m
      BY <2>4 DEF PublishNext
    <3> HIDE DEF m
    <3>3. TimesExact'
      BY <1>3, <2>1, <3>1, <3>2, PublishedIsExact DEF IntakeInv
    <3>4. FramesInv'
      <4>1. m.body.records \in Seq(Records)
        BY <3>1 DEF Composed, MessageOK, Bodies
      <4>2. \A r \in Range(m.body.records) : r \in Records
        BY <4>1 DEF Range
      <4>3. \A r \in Records : IsPayload(r.payload)
        <5>1. [i \in 1 .. PaddingLen |-> 1] \in [1 .. PaddingLen -> 0 .. 255]
          BY WireAssumption
        <5>2. IsPayload(Position("even")) /\ IsPayload(Position("odd"))
          BY <5>1 DEF Position, IsPayload
        <5> QED BY <5>2 DEF Records
      <4> QED BY <3>2, <4>2, <4>3, ParseKeepsFrames DEF IntakeInv
    <3> QED BY <2>1, <2>4, <3>1, <3>3, <3>4 DEF PublishNext, IntakeInv, ClockInv
  <2>5. CASE OtherPublishes
    <3>1. PICK body \in OtherBodies : Parse(body) /\ last' = [Nothing EXCEPT !.body = body]
      BY <2>5 DEF OtherPublishes
    <3>2. last'.times = <<>>
      BY <3>1 DEF Nothing
    <3>3. FramesInv'
      <4>1. Wanted(body) => body # None
        BY DEF Wanted, HeaderReject
      <4> QED BY <3>1, <4>1, ParseKeepsFrames, PublisherAssumption DEF IntakeInv
    <3> QED BY <2>1, <2>5, <3>2, <3>3 DEF OtherPublishes, IntakeInv, ClockInv, TimesExact
  <2> QED BY <1>3, <2>2, <2>3, <2>4, <2>5 DEF PublisherNext
<1> QED BY <1>1, <1>2, <1>3 DEF IntakeNext

LEMMA IntakeInvariant == IntakeSpec => []IntakeInv
  BY IntakeInitInv, IntakeNextInv, PTL DEF IntakeSpec

\* Every record of the publisher becomes an event at the instant it was
\* composed for, if its sensor is declared, and none otherwise: whatever the
\* units of a second, and through the ends of minutes, days, months, leap days
\* and years, however long the clock goes on.
THEOREM TimesAreExact == IntakeSpec => []TimesExact
<1>1. IntakeInv => TimesExact
  BY DEF IntakeInv
<1> QED BY <1>1, IntakeInvariant, PTL

\* No two payloads become one frame, whatever is received.
THEOREM FramesStayDistinct == IntakeSpec => []FramesDistinct
<1>1. IntakeInv => FramesDistinct
  <2>1. SUFFICES ASSUME FramesInv, NEW x \in frames, NEW y \in frames, x[2] = y[2]
                 PROVE  x[1] = y[1]
    BY DEF IntakeInv, FramesDistinct
  <2> QED BY <2>1, ParseFrameInjective DEF FramesInv
<1> QED BY <1>1, IntakeInvariant, PTL
=============================================================================
