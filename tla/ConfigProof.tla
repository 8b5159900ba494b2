----------------------------- MODULE ConfigProof ---------------------------
(***************************************************************************)
(* Proofs about ConfigFile: the parser finds what the file says, whatever  *)
(* the file; and the library is what the file says it is.                  *)
(***************************************************************************)
EXTENDS ConfigFile, TLAPS, FiniteSetTheorems, WellFoundedInduction

----------------------------------------------------------------------------
(* Least and greatest elements, and the first k, of sets of line numbers. *)

(* A set of naturals that is not empty has a least element, which the loops of
   lmk_cfg_apply take next. *)
LEMMA LeastIs ==
  ASSUME NEW S \in SUBSET Nat, S # {}
  PROVE  Least(S) \in S /\ \A y \in S : Least(S) <= y
<1>1. PICK x \in S : \A y \in S : ~(<<y, x>> \in OpToRel(<, Nat))
  BY NatLessThanWellFounded, WFMin
<1>2. ASSUME NEW y \in S PROVE x <= y
  <2>1. ~(<<y, x>> \in OpToRel(<, Nat))
    BY <1>1
  <2>2. x \in Nat /\ y \in Nat
    BY <1>2
  <2>3. ~(y < x)
    BY <2>1, <2>2 DEF OpToRel
  <2> QED BY <2>2, <2>3
<1> QED BY <1>2 DEF Least

(* A set of line numbers that is not empty has a greatest element. *)
LEMMA MaxIn ==
  ASSUME NEW m \in Nat, NEW S \in SUBSET (1 .. m), S # {}
  PROVE  MaxOf(S) \in S /\ \A y \in S : y <= MaxOf(S)
<1> DEFINE T == {m - x : x \in S}
<1>0. \A x \in S : x \in 1 .. m /\ m - x \in Nat
  OBVIOUS
<1>1. T \in SUBSET Nat /\ T # {}
  BY <1>0
<1>2. Least(T) \in T /\ \A y \in T : Least(T) <= y
  BY <1>1, LeastIs
<1>3. PICK x \in S : Least(T) = m - x
  BY <1>2
<1>4. \A y \in S : y <= x
  <2> TAKE y \in S
  <2>1. m - x <= m - y
    BY <1>2, <1>3
  <2> QED BY <2>1
<1> QED BY <1>4 DEF MaxOf

(* MaxOf of a set of line numbers is one of them or 0. *)
LEMMA MaxRange ==
  ASSUME NEW m \in Nat, NEW S \in SUBSET (1 .. m)
  PROVE  MaxOf(S) \in 0 .. m
<1>1. CASE S = {}
  BY <1>1 DEF MaxOf
<1>2. CASE S # {}
  <2>1. MaxOf(S) \in S
    BY <1>2, MaxIn
  <2>2. MaxOf(S) \in 1 .. m
    BY <2>1
  <2> QED BY <2>2
<1> QED BY <1>1, <1>2

(* An element that bounds the set is its greatest. *)
LEMMA MaxIs ==
  ASSUME NEW S \in SUBSET Int, NEW x \in S, \A y \in S : y <= x
  PROVE  MaxOf(S) = x
<1>1. \E z \in S : \A y \in S : y <= z
  OBVIOUS
<1>2. MaxOf(S) \in S /\ \A y \in S : y <= MaxOf(S)
  BY <1>1 DEF MaxOf
<1>3. x <= MaxOf(S) /\ MaxOf(S) <= x /\ x \in Int /\ MaxOf(S) \in Int
  BY <1>2
<1> QED BY <1>3

(* A line after all the others is the greatest. *)
LEMMA MaxGrows ==
  ASSUME NEW m \in Nat, NEW S \in SUBSET (1 .. m)
  PROVE  MaxOf(S \cup {m + 1}) = m + 1
BY MaxIs

(* There is room among the first k as long as there are fewer than k: the
   counter of an array against the number of entries seen so far. *)
LEMMA FirstRoom ==
  ASSUME NEW m \in Nat, NEW S \in SUBSET (1 .. m), NEW k \in Nat
  PROVE  /\ IsFiniteSet(S) /\ Cardinality(S) \in Nat
         /\ First(S, k) \subseteq S
         /\ Cardinality(First(S, k)) \in Nat
         /\ Cardinality(First(S, k)) < k <=> Cardinality(S) < k
<1>0. IsFiniteSet(1 .. m)
  BY FS_Interval
<1>1. IsFiniteSet(S) /\ Cardinality(S) \in Nat
  BY <1>0, FS_Subset, FS_CardinalityType
<1>2. First(S, k) \subseteq S
  BY DEF First
<1>3. /\ IsFiniteSet(First(S, k)) /\ Cardinality(First(S, k)) \in Nat
      /\ Cardinality(First(S, k)) <= Cardinality(S)
  BY <1>1, <1>2, FS_Subset, FS_CardinalityType
<1>4. ASSUME Cardinality(First(S, k)) < k, ~(Cardinality(S) < k) PROVE FALSE
  <2> DEFINE R == S \ First(S, k)
  <2>1. R # {}
    <3> SUFFICES ASSUME R = {} PROVE FALSE OBVIOUS
    <3>1. First(S, k) = S BY <1>2
    <3> QED BY <3>1, <1>4
  <2>2. R \in SUBSET Nat
    <3>1. \A x \in S : x \in Nat
      OBVIOUS
    <3> QED BY <3>1
  <2>3. PICK a \in R : \A y \in R : a <= y
    BY <2>1, <2>2, LeastIs
  <2>4. Before(S, a) \subseteq First(S, k)
    <3> SUFFICES ASSUME NEW y \in S, y < a PROVE y \in First(S, k)
      BY DEF Before
    <3>1. y \notin R
      BY <2>2, <2>3
    <3> QED BY <3>1
  <2>5. Cardinality(Before(S, a)) <= Cardinality(First(S, k)) /\ Cardinality(Before(S, a)) \in Nat
    BY <2>4, <1>3, FS_Subset, FS_CardinalityType
  <2>6. Cardinality(Before(S, a)) < k
    BY <2>5, <1>3, <1>4
  <2>7. a \in First(S, k)
    BY <2>6 DEF First
  <2> QED BY <2>7
<1> QED BY <1>1, <1>2, <1>3, <1>4

(* One more entry is kept if there is room for it. *)
LEMMA FirstGrows ==
  ASSUME NEW m \in Nat, NEW S \in SUBSET (1 .. m), NEW k \in Nat
  PROVE  First(S \cup {m + 1}, k) =
           IF Cardinality(First(S, k)) < k THEN First(S, k) \cup {m + 1} ELSE First(S, k)
<1>0. \A x \in S : x \in Int /\ x < m + 1
  OBVIOUS
<1>1. Before(S \cup {m + 1}, m + 1) = S
  <2>1. m + 1 \in Int /\ ~(m + 1 < m + 1)
    OBVIOUS
  <2> HIDE DEF Before
  <2>2. ASSUME NEW y PROVE y \in Before(S \cup {m + 1}, m + 1) <=> y \in S
    BY <1>0, <2>1 DEF Before
  <2> QED BY <2>2
<1>2. \A x \in S : Before(S \cup {m + 1}, x) = Before(S, x)
  BY DEF Before
<1>3. Cardinality(First(S, k)) < k <=> Cardinality(S) < k
  BY FirstRoom
<1>4. m + 1 \notin S
  OBVIOUS
<1>5. First(S \cup {m + 1}, k) =
        First(S, k) \cup (IF Cardinality(S) < k THEN {m + 1} ELSE {})
  BY <1>1, <1>2, <1>4 DEF First
<1> QED BY <1>3, <1>5

LEMMA FirstNone ==
  ASSUME NEW k PROVE First({}, k) = {}
BY DEF First

----------------------------------------------------------------------------
(* What one more line adds to what the file says. *)

LEMMA HeadersStep ==
  ASSUME NEW m \in Nat
  PROVE  /\ Headers(m) \in SUBSET (1 .. m)
         /\ Headers(m + 1) = IF file[m + 1].header THEN Headers(m) \cup {m + 1} ELSE Headers(m)
<1>1. 1 .. (m + 1) = (1 .. m) \cup {m + 1}
  OBVIOUS
<1> QED BY <1>1 DEF Headers

(* The header a line comes under is above it or the line itself. *)
LEMMA OwnerStep ==
  ASSUME NEW m \in Nat
  PROVE  /\ Owner(m) \in 0 .. m
         /\ Owner(m) # 0 => Owner(m) \in Headers(m)
         /\ Owner(m + 1) = IF file[m + 1].header THEN m + 1 ELSE Owner(m)
<1>1. Headers(m) \in SUBSET (1 .. m)
  BY HeadersStep
<1>2. Owner(m) \in 0 .. m
  BY <1>1, MaxRange DEF Owner
<1>3. Owner(m) # 0 => Owner(m) \in Headers(m)
  <2>1. CASE Headers(m) = {}
    BY <2>1 DEF Owner, MaxOf
  <2>2. CASE Headers(m) # {}
    BY <2>2, <1>1, MaxIn DEF Owner
  <2> QED BY <2>1, <2>2
<1>4. CASE file[m + 1].header
  <2>1. Headers(m + 1) = Headers(m) \cup {m + 1}
    BY <1>4, HeadersStep
  <2> QED BY <1>1, <1>2, <1>3, <1>4, <2>1, MaxGrows DEF Owner
<1>5. CASE ~file[m + 1].header
  <2>1. Headers(m + 1) = Headers(m)
    BY <1>5, HeadersStep
  <2> QED BY <1>2, <1>3, <1>5, <2>1 DEF Owner
<1> QED BY <1>4, <1>5

LEMMA SectionsStep ==
  ASSUME NEW m \in Nat, NEW kind
  PROVE  /\ Sections(kind, m) \in SUBSET (1 .. m)
         /\ Sections(kind, m + 1) =
              IF file[m + 1].header /\ file[m + 1].key = kind /\ file[m + 1].val # ""
              THEN Sections(kind, m) \cup {m + 1} ELSE Sections(kind, m)
<1>1. Headers(m) \in SUBSET (1 .. m)
  BY HeadersStep
<1>2. Headers(m + 1) = IF file[m + 1].header THEN Headers(m) \cup {m + 1} ELSE Headers(m)
  BY HeadersStep
<1> QED BY <1>1, <1>2 DEF Sections

LEMMA KeysStep ==
  ASSUME NEW m \in Nat, NEW h, NEW key
  PROVE  /\ Keys(h, key, m) \in SUBSET (1 .. m)
         /\ Keys(h, key, m + 1) =
              IF ~file[m + 1].header /\ file[m + 1].key = key /\ Owner(m) = h
              THEN Keys(h, key, m) \cup {m + 1} ELSE Keys(h, key, m)
<1>1. 1 .. (m + 1) = (1 .. m) \cup {m + 1}
  OBVIOUS
<1>2. ~file[m + 1].header => Owner(m + 1) = Owner(m)
  BY OwnerStep
<1> HIDE DEF Owner
<1> QED BY <1>1, <1>2 DEF Keys

(* No line above a header is under it. *)
LEMMA KeysNew ==
  ASSUME NEW m \in Nat, NEW key
  PROVE  Keys(m + 1, key, m) = {}
<1> SUFFICES ASSUME NEW j \in 1 .. m, Owner(j) = m + 1 PROVE FALSE
  BY DEF Keys
<1>1. j \in Nat
  OBVIOUS
<1>2. Owner(j) \in 0 .. j
  BY <1>1, OwnerStep
<1> QED BY <1>2

LEMMA TypeLinesStep ==
  ASSUME NEW m \in Nat, NEW h
  PROVE  /\ TypeLines(h, m) \in SUBSET (1 .. m)
         /\ TypeLines(h, m + 1) =
              IF ~file[m + 1].header /\ file[m + 1].key = "type" /\ Owner(m) = h /\ file[m + 1].val \in Types
              THEN TypeLines(h, m) \cup {m + 1} ELSE TypeLines(h, m)
<1>1. Keys(h, "type", m) \in SUBSET (1 .. m)
  BY KeysStep
<1>2. Keys(h, "type", m + 1) =
        IF ~file[m + 1].header /\ file[m + 1].key = "type" /\ Owner(m) = h
        THEN Keys(h, "type", m) \cup {m + 1} ELSE Keys(h, "type", m)
  BY KeysStep
<1> QED BY <1>1, <1>2 DEF TypeLines

LEMMA NameLinesStep ==
  ASSUME NEW m \in Nat, NEW h
  PROVE  /\ NameLines(h, m) \in SUBSET (1 .. m)
         /\ NameLines(h, m + 1) =
              IF ~file[m + 1].header /\ file[m + 1].key = "handlers" /\ Owner(m) = h /\ file[m + 1].val # ""
              THEN NameLines(h, m) \cup {m + 1} ELSE NameLines(h, m)
<1>1. Keys(h, "handlers", m) \in SUBSET (1 .. m)
  BY KeysStep
<1>2. Keys(h, "handlers", m + 1) =
        IF ~file[m + 1].header /\ file[m + 1].key = "handlers" /\ Owner(m) = h
        THEN Keys(h, "handlers", m) \cup {m + 1} ELSE Keys(h, "handlers", m)
  BY KeysStep
<1>3. NameLines(h, m) \in SUBSET (1 .. m)
  BY <1>1 DEF NameLines
<1> HIDE DEF Keys
<1>4. NameLines(h, m + 1) =
        IF ~file[m + 1].header /\ file[m + 1].key = "handlers" /\ Owner(m) = h /\ file[m + 1].val # ""
        THEN NameLines(h, m) \cup {m + 1} ELSE NameLines(h, m)
  BY <1>2 DEF NameLines
<1> QED BY <1>3, <1>4

LEMMA RingLinesStep ==
  ASSUME NEW m \in Nat
  PROVE  /\ RingLines(m) \in SUBSET (1 .. m)
         /\ RingLines(m + 1) =
              IF /\ ~file[m + 1].header /\ file[m + 1].key = "ring_buffer_size"
                 /\ Owner(m) # 0 /\ file[Owner(m)].key = "global"
              THEN RingLines(m) \cup {m + 1} ELSE RingLines(m)
<1>1. 1 .. (m + 1) = (1 .. m) \cup {m + 1}
  OBVIOUS
<1>2. ~file[m + 1].header => Owner(m + 1) = Owner(m)
  BY OwnerStep
<1> HIDE DEF Owner
<1> QED BY <1>1, <1>2 DEF RingLines

(* The last value of a key, when the key is met once more. *)
LEMMA LastValStep ==
  ASSUME NEW m \in Nat, NEW S \in SUBSET (1 .. m), NEW d
  PROVE  LastVal(S \cup {m + 1}, d) = file[m + 1].val
BY MaxGrows DEF LastVal

(* What a section says once one more line is read. *)
LEMMA ReadHandlerStep ==
  ASSUME NEW m \in Nat, NEW h,
         MaxListeners \in Nat
  PROVE  ReadHandler(h, m + 1) =
           IF ~file[m + 1].header /\ Owner(m) = h THEN SetHandlerKey(ReadHandler(h, m), m + 1)
           ELSE ReadHandler(h, m)
<1> DEFINE here == ~file[m + 1].header /\ Owner(m) = h
           key == file[m + 1].key
           val == file[m + 1].val
           old == ReadHandler(h, m)
           new == ReadHandler(h, m + 1)
<1>1. new.name = old.name
  BY DEF ReadHandler
<1>2. new.type = IF here /\ key = "type" /\ val \in Types THEN val ELSE old.type
  <2>1. new.type = LastVal(TypeLines(h, m + 1), "none") /\ old.type = LastVal(TypeLines(h, m), "none")
    BY DEF ReadHandler
  <2>2. TypeLines(h, m) \in SUBSET (1 .. m)
    BY TypeLinesStep
  <2>3. TypeLines(h, m + 1) = IF here /\ key = "type" /\ val \in Types
                              THEN TypeLines(h, m) \cup {m + 1} ELSE TypeLines(h, m)
    BY TypeLinesStep
  <2>4. LastVal(TypeLines(h, m) \cup {m + 1}, "none") = val
    BY <2>2, LastValStep
  <2> HIDE DEF here, key, val, old, new
  <2> QED BY <2>1, <2>3, <2>4
<1>3. new.level = IF here /\ key = "level" THEN ParseLevel(val) ELSE old.level
  <2>1. new.level = LastLevel(Keys(h, "level", m + 1)) /\ old.level = LastLevel(Keys(h, "level", m))
    BY DEF ReadHandler
  <2>2. Keys(h, "level", m) \in SUBSET (1 .. m)
    BY KeysStep
  <2>3. Keys(h, "level", m + 1) = IF here /\ key = "level"
                                  THEN Keys(h, "level", m) \cup {m + 1} ELSE Keys(h, "level", m)
    BY KeysStep
  <2>4. LastLevel(Keys(h, "level", m) \cup {m + 1}) = ParseLevel(val)
    BY <2>2, LastValStep DEF LastLevel
  <2> HIDE DEF here, key, val, old, new
  <2> QED BY <2>1, <2>3, <2>4
<1>4. new.filename = IF here /\ key = "filename" THEN val ELSE old.filename
  <2>1. /\ new.filename = LastVal(Keys(h, "filename", m + 1), "")
        /\ old.filename = LastVal(Keys(h, "filename", m), "")
    BY DEF ReadHandler
  <2>2. Keys(h, "filename", m) \in SUBSET (1 .. m)
    BY KeysStep
  <2>3. Keys(h, "filename", m + 1) = IF here /\ key = "filename"
                                     THEN Keys(h, "filename", m) \cup {m + 1} ELSE Keys(h, "filename", m)
    BY KeysStep
  <2>4. LastVal(Keys(h, "filename", m) \cup {m + 1}, "") = val
    BY <2>2, LastValStep
  <2> HIDE DEF here, key, val, old, new
  <2> QED BY <2>1, <2>3, <2>4
<1>5. new.listeners = IF here /\ key = "listener" /\ Cardinality(old.listeners) < MaxListeners
                      THEN old.listeners \cup {m + 1} ELSE old.listeners
  <2>1. /\ new.listeners = First(Keys(h, "listener", m + 1), MaxListeners)
        /\ old.listeners = First(Keys(h, "listener", m), MaxListeners)
    BY DEF ReadHandler
  <2>2. Keys(h, "listener", m) \in SUBSET (1 .. m)
    BY KeysStep
  <2>3. Keys(h, "listener", m + 1) = IF here /\ key = "listener"
                                     THEN Keys(h, "listener", m) \cup {m + 1} ELSE Keys(h, "listener", m)
    BY KeysStep
  <2>4. First(Keys(h, "listener", m) \cup {m + 1}, MaxListeners) =
          IF Cardinality(First(Keys(h, "listener", m), MaxListeners)) < MaxListeners
          THEN First(Keys(h, "listener", m), MaxListeners) \cup {m + 1}
          ELSE First(Keys(h, "listener", m), MaxListeners)
    BY <2>2, FirstGrows
  <2> HIDE DEF here, key, val, old, new
  <2> QED BY <2>1, <2>3, <2>4
<1>6. /\ new = [name |-> new.name, type |-> new.type, level |-> new.level,
                filename |-> new.filename, listeners |-> new.listeners]
      /\ old = [name |-> old.name, type |-> old.type, level |-> old.level,
                filename |-> old.filename, listeners |-> old.listeners]
  BY DEF ReadHandler
<1>7. SetHandlerKey(old, m + 1) =
        [name |-> old.name,
         type |-> IF key = "type" /\ val \in Types THEN val ELSE old.type,
         level |-> IF key = "level" THEN ParseLevel(val) ELSE old.level,
         filename |-> IF key = "filename" THEN val ELSE old.filename,
         listeners |-> IF key = "listener" /\ Cardinality(old.listeners) < MaxListeners
                       THEN old.listeners \cup {m + 1} ELSE old.listeners]
  BY DEF SetHandlerKey
<1> HIDE DEF key, val, old, new
<1>8. CASE here
  <2> QED BY <1>1, <1>2, <1>3, <1>4, <1>5, <1>6, <1>7, <1>8 DEF old, new
<1>9. CASE ~here
  <2>1. new = old
    BY <1>1, <1>2, <1>3, <1>4, <1>5, <1>6, <1>9
  <2> QED BY <2>1, <1>9 DEF old, new
<1> QED BY <1>8, <1>9

LEMMA ReadLoggerStep ==
  ASSUME NEW m \in Nat, NEW h,
         MaxHandlersPerLogger \in Nat
  PROVE  ReadLogger(h, m + 1) =
           IF ~file[m + 1].header /\ Owner(m) = h THEN SetLoggerKey(ReadLogger(h, m), m + 1)
           ELSE ReadLogger(h, m)
<1> DEFINE here == ~file[m + 1].header /\ Owner(m) = h
           key == file[m + 1].key
           val == file[m + 1].val
           old == ReadLogger(h, m)
           new == ReadLogger(h, m + 1)
<1>1. new.name = old.name
  BY DEF ReadLogger
<1>2. new.level = IF here /\ key = "level" THEN ParseLevel(val) ELSE old.level
  <2>1. new.level = LastLevel(Keys(h, "level", m + 1)) /\ old.level = LastLevel(Keys(h, "level", m))
    BY DEF ReadLogger
  <2>2. Keys(h, "level", m) \in SUBSET (1 .. m)
    BY KeysStep
  <2>3. Keys(h, "level", m + 1) = IF here /\ key = "level"
                                  THEN Keys(h, "level", m) \cup {m + 1} ELSE Keys(h, "level", m)
    BY KeysStep
  <2>4. LastLevel(Keys(h, "level", m) \cup {m + 1}) = ParseLevel(val)
    BY <2>2, LastValStep DEF LastLevel
  <2> HIDE DEF here, key, val, old, new
  <2> QED BY <2>1, <2>3, <2>4
<1>3. new.handlers = IF here /\ key = "handlers" /\ val # "" /\ Cardinality(old.handlers) < MaxHandlersPerLogger
                     THEN old.handlers \cup {m + 1} ELSE old.handlers
  <2>1. /\ new.handlers = First(NameLines(h, m + 1), MaxHandlersPerLogger)
        /\ old.handlers = First(NameLines(h, m), MaxHandlersPerLogger)
    BY DEF ReadLogger
  <2>2. NameLines(h, m) \in SUBSET (1 .. m)
    BY NameLinesStep
  <2>3. NameLines(h, m + 1) = IF here /\ key = "handlers" /\ val # ""
                              THEN NameLines(h, m) \cup {m + 1} ELSE NameLines(h, m)
    BY NameLinesStep
  <2>4. First(NameLines(h, m) \cup {m + 1}, MaxHandlersPerLogger) =
          IF Cardinality(First(NameLines(h, m), MaxHandlersPerLogger)) < MaxHandlersPerLogger
          THEN First(NameLines(h, m), MaxHandlersPerLogger) \cup {m + 1}
          ELSE First(NameLines(h, m), MaxHandlersPerLogger)
    BY <2>2, FirstGrows
  <2> HIDE DEF here, key, val, old, new
  <2> QED BY <2>1, <2>3, <2>4
<1>4. /\ new = [name |-> new.name, level |-> new.level, handlers |-> new.handlers]
      /\ old = [name |-> old.name, level |-> old.level, handlers |-> old.handlers]
  BY DEF ReadLogger
<1>5. SetLoggerKey(old, m + 1) =
        [name |-> old.name,
         level |-> IF key = "level" THEN ParseLevel(val) ELSE old.level,
         handlers |-> IF key = "handlers" /\ val # "" /\ Cardinality(old.handlers) < MaxHandlersPerLogger
                      THEN old.handlers \cup {m + 1} ELSE old.handlers]
  BY DEF SetLoggerKey
<1> HIDE DEF key, val, old, new
<1>6. CASE here
  <2> QED BY <1>1, <1>2, <1>3, <1>4, <1>5, <1>6 DEF old, new
<1>7. CASE ~here
  <2>1. new = old
    BY <1>1, <1>2, <1>3, <1>4, <1>7
  <2> QED BY <2>1, <1>7 DEF old, new
<1> QED BY <1>6, <1>7

----------------------------------------------------------------------------
(* The parser. *)

(* The reading of the file depends on the file alone, which no step changes. *)
LEMMA ReadSame ==
  ASSUME file' = file
  PROVE  /\ \A m : Owner(m)' = Owner(m)
         /\ \A m : Read(m)' = Read(m)
         /\ Says' = Says
<1>1. \A m : Owner(m)' = Owner(m)
  BY DEF Owner, Headers, MaxOf
<1>2. \A m : Read(m)' = Read(m)
  BY DEF Read, ReadHandler, ReadLogger, RingLines, Sections, Keys, TypeLines, NameLines, LastLevel, LastVal, First, Before, Owner, Headers, MaxOf, ParseLevel, Levels, Types
<1>3. Says' = Says
  BY DEF Says, Read, ReadHandler, ReadLogger, RingLines, Sections, Keys, TypeLines, NameLines, LastLevel, LastVal, First, Before, Owner, Headers, MaxOf, ParseLevel, Levels, Types
<1> QED BY <1>1, <1>2, <1>3

(* What the parser holds when it has read m lines: the section of the last
   header, the structure it opened if there was room for it, and lmk_cfg. *)
ParsedTo(m) ==
  /\ n = m
  /\ section = IF Owner(m) = 0 THEN "none" ELSE SectionOf(file[Owner(m)].key)
  /\ cur = IF Owner(m) \in DOMAIN cfg.handlers \cup DOMAIN cfg.loggers THEN Owner(m) ELSE 0
  /\ cfg = Read(m)
ParserInv == \E m \in 0 .. Len(file) : ParsedTo(m)

(* The sections that the parser has kept. *)
LEMMA KeptSections ==
  ASSUME NEW m \in Nat, ConfigAssumption
  PROVE  /\ DOMAIN Read(m).handlers = First(Sections("handler", m), MaxHandlers)
         /\ DOMAIN Read(m).loggers = First(Sections("logger", m), MaxLoggers)
         /\ \A h \in DOMAIN Read(m).handlers :
              /\ h \in 1 .. m /\ file[h].header /\ file[h].key = "handler"
              /\ Read(m).handlers[h] = ReadHandler(h, m)
         /\ \A h \in DOMAIN Read(m).loggers :
              /\ h \in 1 .. m /\ file[h].header /\ file[h].key = "logger"
              /\ Read(m).loggers[h] = ReadLogger(h, m)
<1>1. /\ DOMAIN Read(m).handlers = First(Sections("handler", m), MaxHandlers)
      /\ DOMAIN Read(m).loggers = First(Sections("logger", m), MaxLoggers)
  BY DEF Read
<1>2. \A kind, k : First(Sections(kind, m), k) \subseteq Sections(kind, m)
  BY DEF First
<1>3. \A kind : \A h \in Sections(kind, m) : h \in 1 .. m /\ file[h].header /\ file[h].key = kind
  BY DEF Sections, Headers
<1>4. /\ \A h \in DOMAIN Read(m).handlers : Read(m).handlers[h] = ReadHandler(h, m)
      /\ \A h \in DOMAIN Read(m).loggers : Read(m).loggers[h] = ReadLogger(h, m)
  BY DEF Read
<1>5. \A h \in DOMAIN Read(m).handlers : h \in 1 .. m /\ file[h].header /\ file[h].key = "handler"
  BY <1>1, <1>2, <1>3, Zenon
<1>6. \A h \in DOMAIN Read(m).loggers : h \in 1 .. m /\ file[h].header /\ file[h].key = "logger"
  BY <1>1, <1>2, <1>3, Zenon
<1> QED BY <1>1, <1>4, <1>5, <1>6

(* A header: a section is opened or the keys that follow are ignored. *)
LEMMA HeaderReads ==
  ASSUME ConfigAssumption, NEW m \in Nat, cfg = Read(m), file[m + 1].header
  PROVE  WithSection(m + 1) = Read(m + 1)
<1> DEFINE j == m + 1
<1>0. /\ MaxHandlers \in Nat /\ MaxLoggers \in Nat
      /\ MaxListeners \in Nat /\ MaxHandlersPerLogger \in Nat
  BY DEF ConfigAssumption
<1>1. Read(j).ring = cfg.ring
  <2>1. RingLines(j) = RingLines(m)
    BY RingLinesStep
  <2> QED BY <2>1 DEF Read
<1>2. \A h : ReadHandler(h, j) = ReadHandler(h, m) /\ ReadLogger(h, j) = ReadLogger(h, m)
  BY <1>0, ReadHandlerStep, ReadLoggerStep
<1>3. \A key : Keys(j, key, j) = {}
  BY KeysNew, KeysStep
<1>4. TypeLines(j, j) = {} /\ NameLines(j, j) = {}
  BY <1>3 DEF TypeLines, NameLines
<1>5. ReadHandler(j, j) = NewHandler(file[j].val) /\ ReadLogger(j, j) = NewLogger(file[j].val)
  <2>1. First({}, MaxListeners) = {} /\ First({}, MaxHandlersPerLogger) = {}
    BY FirstNone
  <2>2. LastLevel({}) = "unset" /\ LastVal({}, "") = "" /\ LastVal({}, "none") = "none"
    BY DEF LastLevel, LastVal, ParseLevel
  <2> HIDE DEF j
  <2> QED BY <1>3, <1>4, <2>1, <2>2 DEF ReadHandler, ReadLogger, NewHandler, NewLogger
<1>6. First(Sections("handler", j), MaxHandlers) =
        IF OpensHandler(j) THEN DOMAIN cfg.handlers \cup {j} ELSE DOMAIN cfg.handlers
  <2>1. DOMAIN cfg.handlers = First(Sections("handler", m), MaxHandlers)
    BY KeptSections
  <2>2. Sections("handler", m) \in SUBSET (1 .. m)
    BY SectionsStep
  <2>3. Sections("handler", j) = IF file[j].key = "handler" /\ file[j].val # ""
                                 THEN Sections("handler", m) \cup {j} ELSE Sections("handler", m)
    BY SectionsStep
  <2>4. First(Sections("handler", m) \cup {j}, MaxHandlers) =
          IF Cardinality(First(Sections("handler", m), MaxHandlers)) < MaxHandlers
          THEN First(Sections("handler", m), MaxHandlers) \cup {j}
          ELSE First(Sections("handler", m), MaxHandlers)
    BY <1>0, <2>2, FirstGrows, Zenon
  <2> HIDE DEF j
  <2> QED BY <2>1, <2>3, <2>4 DEF OpensHandler
<1>7. First(Sections("logger", j), MaxLoggers) =
        IF OpensLogger(j) THEN DOMAIN cfg.loggers \cup {j} ELSE DOMAIN cfg.loggers
  <2>1. DOMAIN cfg.loggers = First(Sections("logger", m), MaxLoggers)
    BY KeptSections
  <2>2. Sections("logger", m) \in SUBSET (1 .. m)
    BY SectionsStep
  <2>3. Sections("logger", j) = IF file[j].key = "logger" /\ file[j].val # ""
                                THEN Sections("logger", m) \cup {j} ELSE Sections("logger", m)
    BY SectionsStep
  <2>4. First(Sections("logger", m) \cup {j}, MaxLoggers) =
          IF Cardinality(First(Sections("logger", m), MaxLoggers)) < MaxLoggers
          THEN First(Sections("logger", m), MaxLoggers) \cup {j}
          ELSE First(Sections("logger", m), MaxLoggers)
    BY <1>0, <2>2, FirstGrows, Zenon
  <2> HIDE DEF j
  <2> QED BY <2>1, <2>3, <2>4 DEF OpensLogger
<1>8. j \notin DOMAIN cfg.handlers /\ j \notin DOMAIN cfg.loggers
  <2>1. \A h \in 1 .. m : h # j
    OBVIOUS
  <2> QED BY <2>1, KeptSections
<1>9. /\ \A h \in DOMAIN cfg.handlers : cfg.handlers[h] = ReadHandler(h, j)
      /\ \A h \in DOMAIN cfg.loggers : cfg.loggers[h] = ReadLogger(h, j)
  <2>1. /\ \A h \in DOMAIN cfg.handlers : cfg.handlers[h] = ReadHandler(h, m)
        /\ \A h \in DOMAIN cfg.loggers : cfg.loggers[h] = ReadLogger(h, m)
    BY KeptSections
  <2> HIDE DEF j
  <2> QED BY <1>2, <2>1, Zenon
<1> HIDE DEF j
<1>10. Read(j).handlers = IF OpensHandler(j) THEN Put(cfg.handlers, j, NewHandler(file[j].val)) ELSE cfg.handlers
  <2>1. Read(j).handlers = [h \in First(Sections("handler", j), MaxHandlers) |-> ReadHandler(h, j)]
    BY DEF Read
  <2>2. cfg.handlers = [h \in DOMAIN cfg.handlers |-> cfg.handlers[h]]
    BY DEF Read
  <2>3. CASE OpensHandler(j)
    BY <1>5, <1>6, <1>8, <1>9, <2>1, <2>3 DEF Put
  <2>4. CASE ~OpensHandler(j)
    BY <1>6, <1>9, <2>1, <2>2, <2>4
  <2> QED BY <2>3, <2>4
<1>11. Read(j).loggers = IF OpensLogger(j) THEN Put(cfg.loggers, j, NewLogger(file[j].val)) ELSE cfg.loggers
  <2>1. Read(j).loggers = [h \in First(Sections("logger", j), MaxLoggers) |-> ReadLogger(h, j)]
    BY DEF Read
  <2>2. cfg.loggers = [h \in DOMAIN cfg.loggers |-> cfg.loggers[h]]
    BY DEF Read
  <2>3. CASE OpensLogger(j)
    BY <1>5, <1>7, <1>8, <1>9, <2>1, <2>3 DEF Put
  <2>4. CASE ~OpensLogger(j)
    BY <1>7, <1>9, <2>1, <2>2, <2>4
  <2> QED BY <2>3, <2>4
<1>12. Read(j) = [ring |-> Read(j).ring, handlers |-> Read(j).handlers, loggers |-> Read(j).loggers]
  BY DEF Read
<1>13. WithSection(j) = Read(j)
  BY <1>1, <1>10, <1>11, <1>12 DEF WithSection
<1> QED BY <1>13 DEF j

(* The current structure is that of the section the next line comes under. *)
LEMMA CurrentSection ==
  ASSUME ConfigAssumption, NEW m \in Nat, ParsedTo(m)
  PROVE  /\ section = "global" <=> Owner(m) # 0 /\ file[Owner(m)].key = "global"
         /\ section = "handler" /\ cur # 0 <=> Owner(m) \in DOMAIN cfg.handlers
         /\ section = "logger" /\ cur # 0 <=> Owner(m) \in DOMAIN cfg.loggers
         /\ cur # 0 => cur = Owner(m)
<1>1. /\ section = IF Owner(m) = 0 THEN "none" ELSE SectionOf(file[Owner(m)].key)
      /\ cur = IF Owner(m) \in DOMAIN cfg.handlers \cup DOMAIN cfg.loggers THEN Owner(m) ELSE 0
  BY DEF ParsedTo
<1>2. /\ Owner(m) \in DOMAIN cfg.handlers => Owner(m) # 0 /\ file[Owner(m)].key = "handler"
      /\ Owner(m) \in DOMAIN cfg.loggers => Owner(m) # 0 /\ file[Owner(m)].key = "logger"
  <2>1. cfg = Read(m)
    BY DEF ParsedTo
  <2> QED BY <2>1, KeptSections
<1> QED BY <1>1, <1>2 DEF SectionOf

(* An assignment: it goes to the section it comes under. *)
LEMMA KeyReads ==
  ASSUME ConfigAssumption, NEW m \in Nat, ParsedTo(m), ~file[m + 1].header, SetKey(m + 1)
  PROVE  cfg' = Read(m + 1)
<1> DEFINE j == m + 1
<1>0. /\ MaxHandlers \in Nat /\ MaxLoggers \in Nat
      /\ MaxListeners \in Nat /\ MaxHandlersPerLogger \in Nat
  BY DEF ConfigAssumption
<1>1. cfg = Read(m)
  BY DEF ParsedTo
<1>2. Read(j).ring = IF section = "global" /\ file[j].key = "ring_buffer_size" THEN file[j].num ELSE cfg.ring
  <2>1. RingLines(m) \in SUBSET (1 .. m)
    BY RingLinesStep
  <2>2. RingLines(j) = IF section = "global" /\ file[j].key = "ring_buffer_size"
                       THEN RingLines(m) \cup {j} ELSE RingLines(m)
    BY RingLinesStep, CurrentSection
  <2>3. MaxOf(RingLines(m) \cup {j}) = j
    BY <2>1, MaxGrows
  <2>4. Read(j).ring = IF RingLines(j) = {} THEN 0 ELSE file[MaxOf(RingLines(j))].num
    BY DEF Read
  <2>5. cfg.ring = IF RingLines(m) = {} THEN 0 ELSE file[MaxOf(RingLines(m))].num
    BY <1>1 DEF Read
  <2> HIDE DEF j
  <2> QED BY <2>2, <2>3, <2>4, <2>5
<1>3. /\ Sections("handler", j) = Sections("handler", m)
      /\ Sections("logger", j) = Sections("logger", m)
  BY SectionsStep
<1>4. DOMAIN Read(j).handlers = DOMAIN cfg.handlers /\ DOMAIN Read(j).loggers = DOMAIN cfg.loggers
  BY <1>1, <1>3 DEF Read
<1>5. \A h \in DOMAIN cfg.handlers :
        Read(j).handlers[h] = IF h = Owner(m) THEN SetHandlerKey(cfg.handlers[h], j) ELSE cfg.handlers[h]
  <2> TAKE h \in DOMAIN cfg.handlers
  <2>1. Read(j).handlers[h] = ReadHandler(h, j) /\ cfg.handlers[h] = ReadHandler(h, m)
    BY <1>1, <1>4 DEF Read
  <2>2. ReadHandler(h, j) = IF Owner(m) = h THEN SetHandlerKey(ReadHandler(h, m), j) ELSE ReadHandler(h, m)
    BY <1>0, ReadHandlerStep
  <2> HIDE DEF j
  <2> QED BY <2>1, <2>2, Zenon
<1>6. \A h \in DOMAIN cfg.loggers :
        Read(j).loggers[h] = IF h = Owner(m) THEN SetLoggerKey(cfg.loggers[h], j) ELSE cfg.loggers[h]
  <2> TAKE h \in DOMAIN cfg.loggers
  <2>1. Read(j).loggers[h] = ReadLogger(h, j) /\ cfg.loggers[h] = ReadLogger(h, m)
    BY <1>1, <1>4 DEF Read
  <2>2. ReadLogger(h, j) = IF Owner(m) = h THEN SetLoggerKey(ReadLogger(h, m), j) ELSE ReadLogger(h, m)
    BY <1>0, ReadLoggerStep
  <2> HIDE DEF j
  <2> QED BY <2>1, <2>2, Zenon
<1>7. /\ cfg.handlers = [h \in DOMAIN cfg.handlers |-> cfg.handlers[h]]
      /\ cfg.loggers = [h \in DOMAIN cfg.loggers |-> cfg.loggers[h]]
      /\ Read(j).handlers = [h \in DOMAIN Read(j).handlers |-> Read(j).handlers[h]]
      /\ Read(j).loggers = [h \in DOMAIN Read(j).loggers |-> Read(j).loggers[h]]
  BY <1>1 DEF Read
<1> HIDE DEF j
<1>8. Read(j).handlers = IF section = "handler" /\ cur # 0
                         THEN Put(cfg.handlers, cur, SetHandlerKey(cfg.handlers[cur], j)) ELSE cfg.handlers
  <2>1. CASE section = "handler" /\ cur # 0
    <3>1. cur = Owner(m) /\ cur \in DOMAIN cfg.handlers
      BY <2>1, CurrentSection
    <3>2. \A h \in DOMAIN cfg.handlers :
            Read(j).handlers[h] = IF h = cur THEN SetHandlerKey(cfg.handlers[cur], j) ELSE cfg.handlers[h]
      BY <1>5, <3>1
    <3>3. DOMAIN cfg.handlers \cup {cur} = DOMAIN cfg.handlers
      BY <3>1
    <3> QED BY <2>1, <1>4, <1>7, <3>2, <3>3 DEF Put
  <2>2. CASE ~(section = "handler" /\ cur # 0)
    <3>1. Owner(m) \notin DOMAIN cfg.handlers
      BY <2>2, CurrentSection
    <3>2. \A h \in DOMAIN cfg.handlers : Read(j).handlers[h] = cfg.handlers[h]
      BY <1>5, <3>1
    <3> QED BY <2>2, <1>4, <1>7, <3>2
  <2> QED BY <2>1, <2>2
<1>9. Read(j).loggers = IF section = "logger" /\ cur # 0
                        THEN Put(cfg.loggers, cur, SetLoggerKey(cfg.loggers[cur], j)) ELSE cfg.loggers
  <2>1. CASE section = "logger" /\ cur # 0
    <3>1. cur = Owner(m) /\ cur \in DOMAIN cfg.loggers
      BY <2>1, CurrentSection
    <3>2. \A h \in DOMAIN cfg.loggers :
            Read(j).loggers[h] = IF h = cur THEN SetLoggerKey(cfg.loggers[cur], j) ELSE cfg.loggers[h]
      BY <1>6, <3>1
    <3>3. DOMAIN cfg.loggers \cup {cur} = DOMAIN cfg.loggers
      BY <3>1
    <3> QED BY <2>1, <1>4, <1>7, <3>2, <3>3 DEF Put
  <2>2. CASE ~(section = "logger" /\ cur # 0)
    <3>1. Owner(m) \notin DOMAIN cfg.loggers
      BY <2>2, CurrentSection
    <3>2. \A h \in DOMAIN cfg.loggers : Read(j).loggers[h] = cfg.loggers[h]
      BY <1>6, <3>1
    <3> QED BY <2>2, <1>4, <1>7, <3>2
  <2> QED BY <2>1, <2>2
<1>10. Read(j) = [ring |-> Read(j).ring, handlers |-> Read(j).handlers, loggers |-> Read(j).loggers]
  BY DEF Read
<1>11. SetKey(j)
  BY DEF j
<1>12. cfg' = Read(j)
  BY <1>2, <1>8, <1>9, <1>10, <1>11 DEF SetKey
<1> QED BY <1>12 DEF j

(* One line of the file. *)
LEMMA ParseLineReads ==
  ASSUME ConfigAssumption, NEW m \in 0 .. Len(file), ParsedTo(m), ParseLine
  PROVE  m + 1 \in 0 .. Len(file) /\ ParsedTo(m + 1)'
<1> DEFINE j == m + 1
<1>0. file' = file /\ m \in Nat /\ n = m /\ n' = j
  BY DEF ParseLine, ParsedTo
<1>1. m + 1 \in 0 .. Len(file)
  BY <1>0 DEF ParseLine
<1>2. Owner(j) = IF file[j].header THEN j ELSE Owner(m)
  BY <1>0, OwnerStep
<1>3. CASE file[j].header
  <2>1. OpenSection(j)
    BY <1>0, <1>3 DEF ParseLine
  <2>2. cfg' = Read(j)
    BY <1>0, <1>3, <2>1, HeaderReads DEF OpenSection, ParsedTo
  <2>3. cur' = IF j \in DOMAIN cfg'.handlers \cup DOMAIN cfg'.loggers THEN j ELSE 0
    <3>1. j \notin DOMAIN cfg.handlers /\ j \notin DOMAIN cfg.loggers
      <4>1. \A h \in 1 .. m : h # j
        BY <1>0
      <4> QED BY <4>1, <1>0, KeptSections DEF ParsedTo
    <3>2. /\ j \in DOMAIN cfg'.handlers <=> OpensHandler(j)
          /\ j \in DOMAIN cfg'.loggers <=> OpensLogger(j)
      BY <2>1, <3>1 DEF OpenSection, WithSection, Put
    <3> QED BY <2>1, <3>2 DEF OpenSection
  <2>4. j # 0
    BY <1>0
  <2>5. section' = SectionOf(file[j].key)
    BY <2>1 DEF OpenSection
  <2> HIDE DEF j
  <2>6. Owner(j)' = j /\ Read(j)' = Read(j)
    BY <1>0, <1>2, <1>3, ReadSame
  <2>7. ParsedTo(j)'
    BY <1>0, <2>2, <2>3, <2>4, <2>5, <2>6 DEF ParsedTo
  <2> QED BY <1>1, <2>7 DEF j
<1>4. CASE ~file[j].header
  <2>1. SetKey(j)
    BY <1>0, <1>4 DEF ParseLine
  <2>2. cfg' = Read(j)
    BY <1>0, <1>4, <2>1, KeyReads
  <2>3. DOMAIN cfg'.handlers = DOMAIN cfg.handlers /\ DOMAIN cfg'.loggers = DOMAIN cfg.loggers
    <3>1. section = "handler" /\ cur # 0 => cur \in DOMAIN cfg.handlers
      BY <1>0, CurrentSection
    <3>2. section = "logger" /\ cur # 0 => cur \in DOMAIN cfg.loggers
      BY <1>0, CurrentSection
    <3> QED BY <2>1, <3>1, <3>2 DEF SetKey, Put
  <2>4. section' = section /\ cur' = cur
    BY <2>1 DEF SetKey
  <2> HIDE DEF j
  <2>5. Owner(j)' = Owner(m) /\ Read(j)' = Read(j)
    BY <1>0, <1>2, <1>4, ReadSame
  <2>6. ParsedTo(j)'
    BY <1>0, <2>2, <2>3, <2>4, <2>5 DEF ParsedTo
  <2> QED BY <1>1, <2>6 DEF j
<1> QED BY <1>3, <1>4

----------------------------------------------------------------------------
(* The library.  s is what the file says, f the file, k the library now and l
   as it was when the application began; S are the sections applied so far. *)
SizeOf(s) == IF s.ring > 0 THEN s.ring ELSE DefaultRingSize

MadeBy(s, S) == {HandlerName(s.handlers[h]) : h \in {x \in S : MakesHandler(s.handlers[x])}}
HandlerSetters(s, S, x) ==
  {h \in S : /\ MakesHandler(s.handlers[h]) /\ HandlerName(s.handlers[h]) = x
             /\ s.handlers[h].level # "unset"}
HandlerLevel(s, S, x, l) ==
  IF HandlerSetters(s, S, x) # {} THEN s.handlers[MaxOf(HandlerSetters(s, S, x))].level
  ELSE IF x \in DOMAIN l.handlers THEN l.handlers[x].level ELSE "trace"

HandlersFrom(s, k, l, S) ==
  /\ DOMAIN k.handlers = DOMAIN l.handlers \cup MadeBy(s, S)
  /\ \A x \in DOMAIN k.handlers :
       /\ k.handlers[x].level = HandlerLevel(s, S, x, l)
       /\ k.handlers[x].ring = NextPow2(SizeOf(s))
       /\ x \in DOMAIN l.handlers => k.handlers[x].type = l.handlers[x].type

NamesIn(f, cl) == {f[j].val : j \in cl.handlers}
NamedBy(f, s, S, x) == UNION {NamesIn(f, s.loggers[g]) : g \in {y \in S : s.loggers[y].name = x}}
LoggerSetters(s, S, x) == {g \in S : s.loggers[g].name = x /\ s.loggers[g].level # "unset"}
LoggerLevel(s, S, x, l) ==
  IF LoggerSetters(s, S, x) # {} THEN s.loggers[MaxOf(LoggerSetters(s, S, x))].level
  ELSE IF x \in DOMAIN l.loggers THEN l.loggers[x].level ELSE "info"
RefsIn(l, x) == IF x \in DOMAIN l.loggers THEN DOMAIN l.loggers[x].refs ELSE {}

LoggersFrom(f, s, k, l, S) ==
  /\ DOMAIN k.loggers = DOMAIN l.loggers \cup {s.loggers[g].name : g \in S}
  /\ \A x \in DOMAIN k.loggers :
       /\ k.loggers[x].level = LoggerLevel(s, S, x, l)
       /\ k.loggers[x].refs = [y \in RefsIn(l, x) \cup (NamedBy(f, s, S, x) \cap DOMAIN k.handlers) |-> 1]

(* The library is what the file says. *)
Applied(f, s, k) ==
  /\ k.ring = SizeOf(s)
  /\ HandlersFrom(s, k, NoLib, DOMAIN s.handlers)
  /\ LoggersFrom(f, s, k, NoLib, DOMAIN s.loggers)

(* Between applications it is that, or has no handlers and no loggers yet. *)
Rest(f, s, k, c) ==
  /\ c => Applied(f, s, k)
  /\ ~c => k.handlers = Empty /\ k.loggers = Empty

HandlerRec == [type : Types, level : Levels, ring : {NextPow2(v) : v \in Int}, listeners : Nat]
LibOK(l) ==
  /\ l \in [initialized : BOOLEAN, ring : Int, handlers : {l.handlers}, loggers : {l.loggers}]
  /\ l.handlers \in [DOMAIN l.handlers -> HandlerRec]
  /\ l.loggers = [x \in DOMAIN l.loggers |-> l.loggers[x]]
  /\ \A x \in DOMAIN l.loggers : l.loggers[x] \in [level : Levels, refs : {l.loggers[x].refs}]

ConfigTypeOK ==
  /\ file \in Files
  /\ LibOK(lib) /\ LibOK(before)
  /\ configured \in BOOLEAN /\ again \in BOOLEAN
  /\ pc \in {"idle", "init", "open", "parse", "handlers", "loggers", "close"}

(* The sections still to be applied come after those that have been. *)
InOrder(D) == todo \subseteq D /\ \A h \in D \ todo, t \in todo : h < t

Applying ==
  /\ Rest(file, Says, before, again)
  /\ again = configured
  /\ lib.initialized = before.initialized
  /\ pc = "parse" => lib = before
  /\ pc \in {"handlers", "loggers"} =>
       /\ cfg = Says /\ n = Len(file)
       /\ lib.ring = SizeOf(Says)
  /\ pc = "handlers" =>
       /\ InOrder(DOMAIN Says.handlers)
       /\ lib.loggers = before.loggers
       /\ HandlersFrom(Says, lib, before, DOMAIN Says.handlers \ todo)
  /\ pc = "loggers" =>
       /\ InOrder(DOMAIN Says.loggers)
       /\ HandlersFrom(Says, lib, before, DOMAIN Says.handlers)
       /\ LoggersFrom(file, Says, lib, before, DOMAIN Says.loggers \ todo)

(* The file is opened after lmk_init has set its flag only. *)
Initialized == configured \/ pc \notin {"idle", "init"} => lib.initialized

ConfigInv ==
  /\ ConfigTypeOK
  /\ ParserInv
  /\ Initialized
  /\ pc \in {"idle", "init", "open", "close"} => Rest(file, Says, lib, configured)
  /\ pc \in {"parse", "handlers", "loggers"} => Applying
  /\ ReapplyKeeps

(* The library before lmk_init. *)
LEMMA NoLibType ==
  /\ LibOK(NoLib) /\ LibOK([NoLib EXCEPT !.initialized = TRUE])
  /\ DOMAIN NoLib.handlers = {} /\ DOMAIN NoLib.loggers = {}
<1>1. DOMAIN Empty = {} /\ Empty \in [{} -> HandlerRec] /\ Empty = [x \in DOMAIN Empty |-> Empty[x]]
  BY DEF Empty
<1> DEFINE X == [initialized : BOOLEAN, ring : {0}, handlers : {Empty}, loggers : {Empty}]
<1>2. ASSUME NEW l \in X PROVE LibOK(l)
  <2> HIDE DEF Empty
  <2>1. l.handlers = Empty /\ l.loggers = Empty
    OBVIOUS
  <2>2. l \in [initialized : BOOLEAN, ring : Int, handlers : {l.handlers}, loggers : {l.loggers}]
    BY <2>1
  <2> QED BY <1>1, <2>1, <2>2 DEF LibOK
<1>3. NoLib \in X
  BY DEF NoLib
<1>4. [NoLib EXCEPT !.initialized = TRUE] \in X
  <2> HIDE DEF NoLib
  <2> QED BY <1>3
<1> HIDE DEF X
<1>5. LibOK(NoLib) /\ LibOK([NoLib EXCEPT !.initialized = TRUE])
  BY <1>2, <1>3, <1>4
<1> QED BY <1>1, <1>5 DEF NoLib

(* What the file says is made of its lines, and every level that it sets is one. *)
LEMMA SaysTypes ==
  ASSUME ConfigAssumption, file \in Files
  PROVE  /\ Len(file) \in Nat
         /\ Says.ring \in Int /\ Says.ring <= MaxSize
         /\ DOMAIN Says.handlers \in SUBSET (1 .. Len(file))
         /\ DOMAIN Says.loggers \in SUBSET (1 .. Len(file))
         /\ \A h \in DOMAIN Says.handlers :
              /\ Says.handlers[h].level \in Levels \cup {"unset"}
              /\ Says.handlers[h].listeners \in SUBSET (1 .. Len(file))
         /\ \A g \in DOMAIN Says.loggers : Says.loggers[g].level \in Levels \cup {"unset"}
<1> DEFINE m == Len(file)
<1>1. file \in Seq(Line)
  BY DEF ConfigAssumption
<1>2. m \in Nat /\ \A j \in 1 .. m : file[j] \in Line
  BY <1>1
<1>3. \A j \in 1 .. m : file[j].num \in Int /\ file[j].num <= MaxSize
  BY <1>2 DEF Line
<1>4. Says.ring \in Int /\ Says.ring <= MaxSize
  <2>1. Says.ring = IF RingLines(m) = {} THEN 0 ELSE file[MaxOf(RingLines(m))].num
    BY DEF Says, Read
  <2>2. RingLines(m) \in SUBSET (1 .. m)
    BY <1>2, RingLinesStep
  <2>3. CASE RingLines(m) = {}
    <3>1. MaxSize \in Nat
      BY DEF ConfigAssumption
    <3> QED BY <2>1, <2>3, <3>1
  <2>4. CASE RingLines(m) # {}
    <3>1. MaxOf(RingLines(m)) \in 1 .. m
      BY <1>2, <2>2, <2>4, MaxIn
    <3> HIDE DEF m
    <3> QED BY <1>3, <2>1, <2>4, <3>1
  <2> QED BY <2>3, <2>4
<1>5. /\ \A h \in DOMAIN Says.handlers : h \in 1 .. m /\ Says.handlers[h] = ReadHandler(h, m)
      /\ \A g \in DOMAIN Says.loggers : g \in 1 .. m /\ Says.loggers[g] = ReadLogger(g, m)
  BY <1>2, KeptSections DEF Says
<1>6. \A v : ParseLevel(v) \in Levels \cup {"unset"}
  BY DEF ParseLevel
<1>7. ASSUME NEW h \in DOMAIN Says.handlers
      PROVE  /\ Says.handlers[h].level \in Levels \cup {"unset"}
             /\ Says.handlers[h].listeners \in SUBSET (1 .. m)
  <2>1. Keys(h, "listener", m) \in SUBSET (1 .. m)
    BY <1>2, KeysStep
  <2>2. ReadHandler(h, m).level \in Levels \cup {"unset"}
    BY <1>6 DEF ReadHandler, LastLevel
  <2>3. ReadHandler(h, m).listeners \subseteq Keys(h, "listener", m)
    BY DEF ReadHandler, First
  <2> HIDE DEF m
  <2> QED BY <1>5, <2>1, <2>2, <2>3
<1>8. ASSUME NEW g \in DOMAIN Says.loggers PROVE Says.loggers[g].level \in Levels \cup {"unset"}
  <2>1. ReadLogger(g, m).level \in Levels \cup {"unset"}
    BY <1>6 DEF ReadLogger, LastLevel
  <2> HIDE DEF m
  <2> QED BY <1>5, <2>1
<1>9. DOMAIN Says.handlers \in SUBSET (1 .. m) /\ DOMAIN Says.loggers \in SUBSET (1 .. m)
  BY <1>5
<1> QED BY <1>2, <1>4, <1>7, <1>8, <1>9

(* A section after all those applied so far sets the level last. *)
LEMMA MaxAppend ==
  ASSUME NEW S \in SUBSET Nat, NEW h \in Nat, \A g \in S : g < h
  PROVE  MaxOf(S \cup {h}) = h
<1>1. \A y \in S \cup {h} : y <= h
  OBVIOUS
<1>2. S \cup {h} \in SUBSET Int
  OBVIOUS
<1> QED BY <1>1, <1>2, MaxIs

(* One section of a handler. *)
LEMMA HandlerApplied ==
  ASSUME NEW s, NEW k, NEW l, NEW S \in SUBSET Nat, NEW h \in Nat, NEW k2, NEW v,
         \A g \in S : g < h,
         HandlersFrom(s, k, l, S),
         MakesHandler(s.handlers[h]),
         k2.handlers = Put(k.handlers, HandlerName(s.handlers[h]), v),
         v.level = IF s.handlers[h].level # "unset" THEN s.handlers[h].level
                   ELSE IF HandlerName(s.handlers[h]) \in DOMAIN k.handlers
                   THEN k.handlers[HandlerName(s.handlers[h])].level ELSE "trace",
         v.ring = NextPow2(SizeOf(s)),
         HandlerName(s.handlers[h]) \in DOMAIN k.handlers =>
           v.type = k.handlers[HandlerName(s.handlers[h])].type
  PROVE  HandlersFrom(s, k2, l, S \cup {h})
<1> DEFINE nm == HandlerName(s.handlers[h])
           lev == s.handlers[h].level
<1>1. MadeBy(s, S \cup {h}) = MadeBy(s, S) \cup {nm}
  BY DEF MadeBy
<1>2. DOMAIN k2.handlers = DOMAIN k.handlers \cup {nm}
  BY DEF Put
<1>3. DOMAIN k2.handlers = DOMAIN l.handlers \cup MadeBy(s, S \cup {h})
  BY <1>1, <1>2 DEF HandlersFrom
<1>4. ASSUME NEW x, x # nm PROVE HandlerSetters(s, S \cup {h}, x) = HandlerSetters(s, S, x)
  BY <1>4 DEF HandlerSetters
<1>5. HandlerSetters(s, S \cup {h}, nm) =
        IF lev # "unset" THEN HandlerSetters(s, S, nm) \cup {h} ELSE HandlerSetters(s, S, nm)
  BY DEF HandlerSetters
<1>6. MaxOf(HandlerSetters(s, S, nm) \cup {h}) = h
  <2>1. HandlerSetters(s, S, nm) \in SUBSET S
    BY DEF HandlerSetters
  <2>2. HandlerSetters(s, S, nm) \in SUBSET Nat /\ \A g \in HandlerSetters(s, S, nm) : g < h
    BY <2>1
  <2> QED BY <2>2, MaxAppend
<1>7. HandlerLevel(s, S \cup {h}, nm, l) = IF lev # "unset" THEN lev ELSE HandlerLevel(s, S, nm, l)
  <2> HIDE DEF nm
  <2> QED BY <1>5, <1>6 DEF HandlerLevel
<1>8. nm \notin DOMAIN k.handlers => HandlerLevel(s, S, nm, l) = "trace"
  <2> SUFFICES ASSUME nm \notin DOMAIN k.handlers PROVE HandlerLevel(s, S, nm, l) = "trace"
    OBVIOUS
  <2>1. nm \notin DOMAIN l.handlers /\ nm \notin MadeBy(s, S)
    BY DEF HandlersFrom
  <2>2. HandlerSetters(s, S, nm) = {}
    BY <2>1 DEF MadeBy, HandlerSetters
  <2> QED BY <2>1, <2>2 DEF HandlerLevel
<1>9. nm \in DOMAIN k.handlers => k.handlers[nm].level = HandlerLevel(s, S, nm, l)
  BY DEF HandlersFrom
<1>10. v.level = HandlerLevel(s, S \cup {h}, nm, l)
  <2> HIDE DEF HandlersFrom
  <2> QED BY <1>7, <1>8, <1>9
<1>11. nm \in DOMAIN l.handlers => v.type = l.handlers[nm].type
  BY DEF HandlersFrom
<1>12. ASSUME NEW x \in DOMAIN k2.handlers, x # nm
       PROVE  /\ k2.handlers[x].level = HandlerLevel(s, S \cup {h}, x, l)
              /\ k2.handlers[x].ring = NextPow2(SizeOf(s))
              /\ x \in DOMAIN l.handlers => k2.handlers[x].type = l.handlers[x].type
  <2>1. x \in DOMAIN k.handlers /\ k2.handlers[x] = k.handlers[x]
    BY <1>2, <1>12 DEF Put
  <2>2. HandlerLevel(s, S \cup {h}, x, l) = HandlerLevel(s, S, x, l)
    BY <1>4, <1>12 DEF HandlerLevel
  <2> QED BY <2>1, <2>2 DEF HandlersFrom
<1>13. k2.handlers[nm] = v
  BY DEF Put
<1> HIDE DEF nm
<1>14. \A x \in DOMAIN k2.handlers :
         /\ k2.handlers[x].level = HandlerLevel(s, S \cup {h}, x, l)
         /\ k2.handlers[x].ring = NextPow2(SizeOf(s))
         /\ x \in DOMAIN l.handlers => k2.handlers[x].type = l.handlers[x].type
  BY <1>10, <1>11, <1>12, <1>13
<1> QED BY <1>3, <1>14 DEF HandlersFrom

(* A section that makes no handler. *)
LEMMA HandlerSkipped ==
  ASSUME NEW s, NEW k, NEW l, NEW S, NEW h,
         HandlersFrom(s, k, l, S), ~MakesHandler(s.handlers[h])
  PROVE  HandlersFrom(s, k, l, S \cup {h})
<1>1. MadeBy(s, S \cup {h}) = MadeBy(s, S)
  BY DEF MadeBy
<1>2. \A x : HandlerSetters(s, S \cup {h}, x) = HandlerSetters(s, S, x)
  BY DEF HandlerSetters
<1>3. \A x : HandlerLevel(s, S \cup {h}, x, l) = HandlerLevel(s, S, x, l)
  BY <1>2 DEF HandlerLevel
<1> QED BY <1>1, <1>3 DEF HandlersFrom

(* One section of a logger. *)
LEMMA LoggerApplied ==
  ASSUME NEW f, NEW s, NEW k, NEW l, NEW S \in SUBSET Nat, NEW h \in Nat, NEW k2, NEW v,
         \A g \in S : g < h,
         LoggersFrom(f, s, k, l, S),
         k2.handlers = k.handlers,
         k2.loggers = Put(k.loggers, s.loggers[h].name, v),
         v.level = IF s.loggers[h].level # "unset" THEN s.loggers[h].level
                   ELSE IF s.loggers[h].name \in DOMAIN k.loggers
                   THEN k.loggers[s.loggers[h].name].level ELSE "info",
         v.refs = Attached(IF s.loggers[h].name \in DOMAIN k.loggers
                           THEN k.loggers[s.loggers[h].name].refs ELSE Empty,
                           NamesIn(f, s.loggers[h]) \cap DOMAIN k.handlers)
  PROVE  LoggersFrom(f, s, k2, l, S \cup {h})
<1> DEFINE nm == s.loggers[h].name
           lev == s.loggers[h].level
           named == NamesIn(f, s.loggers[h])
<1>1. {s.loggers[g].name : g \in S \cup {h}} = {s.loggers[g].name : g \in S} \cup {nm}
  OBVIOUS
<1>2. DOMAIN k2.loggers = DOMAIN k.loggers \cup {nm}
  BY DEF Put
<1>3. DOMAIN k2.loggers = DOMAIN l.loggers \cup {s.loggers[g].name : g \in S \cup {h}}
  BY <1>1, <1>2 DEF LoggersFrom
<1>4. ASSUME NEW x, x # nm
      PROVE  /\ LoggerSetters(s, S \cup {h}, x) = LoggerSetters(s, S, x)
             /\ NamedBy(f, s, S \cup {h}, x) = NamedBy(f, s, S, x)
  BY <1>4 DEF LoggerSetters, NamedBy
<1>5. LoggerSetters(s, S \cup {h}, nm) =
        IF lev # "unset" THEN LoggerSetters(s, S, nm) \cup {h} ELSE LoggerSetters(s, S, nm)
  BY DEF LoggerSetters
<1>6. MaxOf(LoggerSetters(s, S, nm) \cup {h}) = h
  <2>1. LoggerSetters(s, S, nm) \in SUBSET S
    BY DEF LoggerSetters
  <2>2. LoggerSetters(s, S, nm) \in SUBSET Nat /\ \A g \in LoggerSetters(s, S, nm) : g < h
    BY <2>1
  <2> QED BY <2>2, MaxAppend
<1>7. LoggerLevel(s, S \cup {h}, nm, l) = IF lev # "unset" THEN lev ELSE LoggerLevel(s, S, nm, l)
  <2> HIDE DEF nm
  <2> QED BY <1>5, <1>6 DEF LoggerLevel
<1>8. NamedBy(f, s, S \cup {h}, nm) = NamedBy(f, s, S, nm) \cup named
  BY DEF NamedBy
<1>9. nm \notin DOMAIN k.loggers =>
        LoggerLevel(s, S, nm, l) = "info" /\ RefsIn(l, nm) = {} /\ NamedBy(f, s, S, nm) = {}
  <2> SUFFICES ASSUME nm \notin DOMAIN k.loggers
               PROVE  LoggerLevel(s, S, nm, l) = "info" /\ RefsIn(l, nm) = {} /\ NamedBy(f, s, S, nm) = {}
    OBVIOUS
  <2>1. nm \notin DOMAIN l.loggers /\ \A g \in S : s.loggers[g].name # nm
    BY DEF LoggersFrom
  <2>2. LoggerSetters(s, S, nm) = {} /\ NamedBy(f, s, S, nm) = {}
    BY <2>1 DEF LoggerSetters, NamedBy
  <2> QED BY <2>1, <2>2 DEF LoggerLevel, RefsIn
<1>10. nm \in DOMAIN k.loggers =>
         /\ k.loggers[nm].level = LoggerLevel(s, S, nm, l)
         /\ k.loggers[nm].refs = [y \in RefsIn(l, nm) \cup (NamedBy(f, s, S, nm) \cap DOMAIN k.handlers) |-> 1]
  BY DEF LoggersFrom
<1>11. v.level = LoggerLevel(s, S \cup {h}, nm, l)
  <2> HIDE DEF LoggersFrom
  <2> QED BY <1>7, <1>9, <1>10
<1>12. v.refs = [y \in RefsIn(l, nm) \cup (NamedBy(f, s, S \cup {h}, nm) \cap DOMAIN k2.handlers) |-> 1]
  <2> HIDE DEF named
  <2>1. CASE nm \in DOMAIN k.loggers
    <3>1. v.refs = Attached([y \in RefsIn(l, nm) \cup (NamedBy(f, s, S, nm) \cap DOMAIN k.handlers) |-> 1],
                            named \cap DOMAIN k.handlers)
      BY <1>10, <2>1 DEF named
    <3> HIDE DEF nm
    <3> QED BY <1>8, <3>1 DEF Attached
  <2>2. CASE nm \notin DOMAIN k.loggers
    <3>1. v.refs = Attached(Empty, named \cap DOMAIN k.handlers)
      BY <2>2 DEF named
    <3>2. v.refs = [y \in named \cap DOMAIN k.handlers |-> 1]
      BY <3>1 DEF Attached, Empty
    <3> HIDE DEF nm
    <3>3. RefsIn(l, nm) \cup (NamedBy(f, s, S \cup {h}, nm) \cap DOMAIN k2.handlers) = named \cap DOMAIN k.handlers
      BY <1>8, <1>9, <2>2
    <3> QED BY <3>2, <3>3
  <2> QED BY <2>1, <2>2
<1>13. ASSUME NEW x \in DOMAIN k2.loggers, x # nm
       PROVE  /\ k2.loggers[x].level = LoggerLevel(s, S \cup {h}, x, l)
              /\ k2.loggers[x].refs =
                   [y \in RefsIn(l, x) \cup (NamedBy(f, s, S \cup {h}, x) \cap DOMAIN k2.handlers) |-> 1]
  <2>1. x \in DOMAIN k.loggers /\ k2.loggers[x] = k.loggers[x]
    BY <1>2, <1>13 DEF Put
  <2>2. LoggerLevel(s, S \cup {h}, x, l) = LoggerLevel(s, S, x, l)
    BY <1>4, <1>13 DEF LoggerLevel
  <2>3. NamedBy(f, s, S \cup {h}, x) = NamedBy(f, s, S, x)
    BY <1>4, <1>13
  <2> QED BY <2>1, <2>2, <2>3 DEF LoggersFrom
<1>14. k2.loggers[nm] = v
  BY DEF Put
<1> HIDE DEF nm
<1>15. \A x \in DOMAIN k2.loggers :
         /\ k2.loggers[x].level = LoggerLevel(s, S \cup {h}, x, l)
         /\ k2.loggers[x].refs =
              [y \in RefsIn(l, x) \cup (NamedBy(f, s, S \cup {h}, x) \cap DOMAIN k2.handlers) |-> 1]
  BY <1>11, <1>12, <1>13, <1>14
<1> QED BY <1>3, <1>15 DEF LoggersFrom

(* No logger refers to a handler twice. *)
AttachedOnce(k) == \A x \in DOMAIN k.loggers : k.loggers[x].refs = [y \in DOMAIN k.loggers[x].refs |-> 1]

(* Nothing has been applied yet. *)
LEMMA NothingApplied ==
  ASSUME NEW f, NEW s, NEW k, NEW l
  PROVE  /\ /\ k.handlers = l.handlers
            /\ \A x \in DOMAIN l.handlers : l.handlers[x].ring = NextPow2(SizeOf(s))
            => HandlersFrom(s, k, l, {})
         /\ /\ k.loggers = l.loggers
            /\ AttachedOnce(l)
            => LoggersFrom(f, s, k, l, {})
<1>1. MadeBy(s, {}) = {} /\ \A x : HandlerSetters(s, {}, x) = {}
  BY DEF MadeBy, HandlerSetters
<1>2. \A x : LoggerSetters(s, {}, x) = {} /\ NamedBy(f, s, {}, x) = {}
  BY DEF LoggerSetters, NamedBy
<1>3. {s.loggers[g].name : g \in {}} = {}
  OBVIOUS
<1>4. ASSUME k.handlers = l.handlers,
             \A x \in DOMAIN l.handlers : l.handlers[x].ring = NextPow2(SizeOf(s))
      PROVE  HandlersFrom(s, k, l, {})
  BY <1>1, <1>4 DEF HandlersFrom, HandlerLevel
<1>5. ASSUME k.loggers = l.loggers,
             AttachedOnce(l)
      PROVE  LoggersFrom(f, s, k, l, {})
  <2>1. \A x \in DOMAIN l.loggers : RefsIn(l, x) = DOMAIN l.loggers[x].refs
    BY DEF RefsIn
  <2>2. ASSUME NEW x \in DOMAIN k.loggers
        PROVE  k.loggers[x].refs = [y \in RefsIn(l, x) \cup (NamedBy(f, s, {}, x) \cap DOMAIN k.handlers) |-> 1]
    BY <1>2, <1>5, <2>1 DEF AttachedOnce
  <2>3. \A x \in DOMAIN k.loggers : k.loggers[x].level = LoggerLevel(s, {}, x, l)
    BY <1>2, <1>5 DEF LoggerLevel
  <2> QED BY <1>3, <1>5, <2>2, <2>3 DEF LoggersFrom
<1> QED BY <1>4, <1>5

(* The first application, to a library without handlers and loggers. *)
LEMMA FirstApplication ==
  ASSUME NEW f, NEW s, NEW k, NEW l,
         l.handlers = Empty, l.loggers = Empty, k.ring = SizeOf(s),
         HandlersFrom(s, k, l, DOMAIN s.handlers), LoggersFrom(f, s, k, l, DOMAIN s.loggers)
  PROVE  Applied(f, s, k)
<1>1. NoLib.handlers = l.handlers /\ NoLib.loggers = l.loggers
  BY DEF NoLib
<1>2. HandlersFrom(s, k, NoLib, DOMAIN s.handlers)
  BY <1>1 DEF HandlersFrom, HandlerLevel
<1>3. LoggersFrom(f, s, k, NoLib, DOMAIN s.loggers)
  BY <1>1 DEF LoggersFrom, LoggerLevel, RefsIn
<1> QED BY <1>2, <1>3 DEF Applied

(* Applying the file again to a library that is what the file says: nothing is
   made, and every level is set back to what it was. *)
LEMMA NextApplication ==
  ASSUME NEW f, NEW s, NEW k, NEW l, Applied(f, s, l), k.ring = SizeOf(s),
         HandlersFrom(s, k, l, DOMAIN s.handlers), LoggersFrom(f, s, k, l, DOMAIN s.loggers)
  PROVE  /\ DOMAIN k.handlers = DOMAIN l.handlers
         /\ \A x \in DOMAIN l.handlers :
              /\ k.handlers[x].level = l.handlers[x].level
              /\ k.handlers[x].ring = l.handlers[x].ring
              /\ k.handlers[x].type = l.handlers[x].type
         /\ DOMAIN k.loggers = DOMAIN l.loggers
         /\ \A x \in DOMAIN l.loggers :
              /\ k.loggers[x].level = l.loggers[x].level
              /\ k.loggers[x].refs = l.loggers[x].refs
         /\ Applied(f, s, k)
<1> DEFINE H == DOMAIN s.handlers
           G == DOMAIN s.loggers
<1>1. DOMAIN NoLib.handlers = {} /\ DOMAIN NoLib.loggers = {}
  BY NoLibType
<1>2. /\ HandlersFrom(s, l, NoLib, H) /\ LoggersFrom(f, s, l, NoLib, G)
      /\ l.ring = SizeOf(s)
  BY DEF Applied
<1>3. DOMAIN l.handlers = MadeBy(s, H)
  BY <1>1, <1>2 DEF HandlersFrom
<1>4. DOMAIN k.handlers = DOMAIN l.handlers
  BY <1>3 DEF HandlersFrom
<1>5. ASSUME NEW x \in DOMAIN l.handlers
      PROVE  /\ k.handlers[x].level = l.handlers[x].level
             /\ k.handlers[x].ring = l.handlers[x].ring
             /\ k.handlers[x].type = l.handlers[x].type
  <2>1. l.handlers[x].level = HandlerLevel(s, H, x, NoLib) /\ l.handlers[x].ring = NextPow2(SizeOf(s))
    BY <1>2 DEF HandlersFrom
  <2>2. /\ k.handlers[x].level = HandlerLevel(s, H, x, l) /\ k.handlers[x].ring = NextPow2(SizeOf(s))
        /\ k.handlers[x].type = l.handlers[x].type
    BY <1>4 DEF HandlersFrom
  <2>3. HandlerLevel(s, H, x, l) = IF HandlerSetters(s, H, x) # {} THEN HandlerLevel(s, H, x, NoLib)
                                   ELSE l.handlers[x].level
    BY DEF HandlerLevel
  <2> QED BY <2>1, <2>2, <2>3
<1>6. DOMAIN l.loggers = {s.loggers[g].name : g \in G}
  BY <1>1, <1>2 DEF LoggersFrom
<1>7. DOMAIN k.loggers = DOMAIN l.loggers
  BY <1>6 DEF LoggersFrom
<1>8. ASSUME NEW x \in DOMAIN l.loggers
      PROVE  /\ k.loggers[x].level = l.loggers[x].level
             /\ k.loggers[x].refs = l.loggers[x].refs
             /\ RefsIn(l, x) \cup (NamedBy(f, s, G, x) \cap DOMAIN k.handlers) =
                  RefsIn(NoLib, x) \cup (NamedBy(f, s, G, x) \cap DOMAIN k.handlers)
  <2>1. /\ l.loggers[x].level = LoggerLevel(s, G, x, NoLib)
        /\ l.loggers[x].refs = [y \in RefsIn(NoLib, x) \cup (NamedBy(f, s, G, x) \cap DOMAIN l.handlers) |-> 1]
    BY <1>2 DEF LoggersFrom
  <2>2. /\ k.loggers[x].level = LoggerLevel(s, G, x, l)
        /\ k.loggers[x].refs = [y \in RefsIn(l, x) \cup (NamedBy(f, s, G, x) \cap DOMAIN k.handlers) |-> 1]
    BY <1>7 DEF LoggersFrom
  <2>3. LoggerLevel(s, G, x, l) = IF LoggerSetters(s, G, x) # {} THEN LoggerLevel(s, G, x, NoLib)
                                  ELSE l.loggers[x].level
    BY DEF LoggerLevel
  <2>4. RefsIn(NoLib, x) = {}
    BY <1>1 DEF RefsIn
  <2>5. RefsIn(l, x) = NamedBy(f, s, G, x) \cap DOMAIN l.handlers
    BY <2>1, <2>4 DEF RefsIn
  <2>6. RefsIn(l, x) \cup (NamedBy(f, s, G, x) \cap DOMAIN k.handlers) =
          RefsIn(NoLib, x) \cup (NamedBy(f, s, G, x) \cap DOMAIN k.handlers)
    BY <1>4, <2>4, <2>5
  <2> QED BY <1>4, <2>1, <2>2, <2>3, <2>6
<1>9. HandlersFrom(s, k, NoLib, H)
  <2>1. DOMAIN k.handlers = DOMAIN NoLib.handlers \cup MadeBy(s, H)
    BY <1>1, <1>3, <1>4
  <2>2. \A x \in DOMAIN k.handlers : k.handlers[x].level = HandlerLevel(s, H, x, NoLib)
    BY <1>2, <1>4, <1>5 DEF HandlersFrom
  <2>3. \A x \in DOMAIN k.handlers : k.handlers[x].ring = NextPow2(SizeOf(s))
    BY DEF HandlersFrom
  <2> QED BY <1>1, <2>1, <2>2, <2>3 DEF HandlersFrom
<1>10. LoggersFrom(f, s, k, NoLib, G)
  <2>1. DOMAIN k.loggers = DOMAIN NoLib.loggers \cup {s.loggers[g].name : g \in G}
    BY <1>1, <1>6, <1>7
  <2>2. \A x \in DOMAIN k.loggers : k.loggers[x].level = LoggerLevel(s, G, x, NoLib)
    BY <1>2, <1>7, <1>8 DEF LoggersFrom
  <2>3. ASSUME NEW x \in DOMAIN k.loggers
        PROVE  k.loggers[x].refs =
                 [y \in RefsIn(NoLib, x) \cup (NamedBy(f, s, G, x) \cap DOMAIN k.handlers) |-> 1]
    <3>1. k.loggers[x].refs = [y \in RefsIn(l, x) \cup (NamedBy(f, s, G, x) \cap DOMAIN k.handlers) |-> 1]
      BY DEF LoggersFrom
    <3> QED BY <1>7, <1>8, <3>1
  <2> QED BY <2>1, <2>2, <2>3 DEF LoggersFrom
<1> QED BY <1>4, <1>5, <1>7, <1>8, <1>9, <1>10 DEF Applied

(* Setting the sizes changes nothing else. *)
LEMMA SizedIs ==
  ASSUME ConfigAssumption, NEW l, LibOK(l), NEW ring \in Int
  PROVE  /\ LibOK(Sized(l, ring))
         /\ Sized(l, ring).handlers = l.handlers /\ Sized(l, ring).loggers = l.loggers
         /\ Sized(l, ring).initialized = l.initialized
         /\ Sized(l, ring).ring = IF ring > 0 THEN ring ELSE DefaultRingSize
<1>1. /\ l \in [initialized : BOOLEAN, ring : Int, handlers : {l.handlers}, loggers : {l.loggers}]
      /\ l.handlers \in [DOMAIN l.handlers -> HandlerRec]
      /\ l.loggers = [x \in DOMAIN l.loggers |-> l.loggers[x]]
      /\ \A x \in DOMAIN l.loggers : l.loggers[x] \in [level : Levels, refs : {l.loggers[x].refs}]
  BY DEF LibOK
<1>2. (IF ring > 0 THEN ring ELSE DefaultRingSize) \in Int
  BY DEF ConfigAssumption
<1>3. PICK r \in Int : r = IF ring > 0 THEN ring ELSE DefaultRingSize
  BY <1>2
<1>4. PICK k : k = Sized(l, ring)
  OBVIOUS
<1>5. k = [l EXCEPT !.ring = r]
  BY <1>3, <1>4 DEF Sized
<1>6. /\ k.handlers = l.handlers /\ k.loggers = l.loggers
      /\ k.initialized = l.initialized /\ k.ring = r
  BY <1>1, <1>5
<1>7. k \in [initialized : BOOLEAN, ring : Int, handlers : {k.handlers}, loggers : {k.loggers}]
  BY <1>1, <1>5, <1>6
<1>8. LibOK(k)
  BY <1>1, <1>6, <1>7 DEF LibOK
<1> QED BY <1>3, <1>4, <1>6, <1>8

(* Libraries that differ in their listeners only. *)
LEMMA SameUnheard ==
  ASSUME NEW k, NEW l, LibOK(k), LibOK(l),
         k.initialized = l.initialized, k.ring = l.ring,
         DOMAIN k.handlers = DOMAIN l.handlers,
         \A x \in DOMAIN l.handlers :
           /\ k.handlers[x].level = l.handlers[x].level
           /\ k.handlers[x].ring = l.handlers[x].ring
           /\ k.handlers[x].type = l.handlers[x].type,
         DOMAIN k.loggers = DOMAIN l.loggers,
         \A x \in DOMAIN l.loggers :
           /\ k.loggers[x].level = l.loggers[x].level
           /\ k.loggers[x].refs = l.loggers[x].refs
  PROVE  Unheard(k) = Unheard(l)
<1> DEFINE F(j) == [x \in DOMAIN j.handlers |-> [j.handlers[x] EXCEPT !.listeners = 0]]
<1>1. ASSUME NEW x \in DOMAIN l.handlers
      PROVE  [k.handlers[x] EXCEPT !.listeners = 0] = [l.handlers[x] EXCEPT !.listeners = 0]
  <2>1. k.handlers[x] \in HandlerRec /\ l.handlers[x] \in HandlerRec
    BY DEF LibOK
  <2>2. ASSUME NEW a \in HandlerRec, NEW b \in HandlerRec,
               a.level = b.level, a.ring = b.ring, a.type = b.type
        PROVE  [a EXCEPT !.listeners = 0] = [b EXCEPT !.listeners = 0]
    BY <2>2 DEF HandlerRec
  <2> QED BY <2>1, <2>2
<1>2. F(k) = F(l)
  BY <1>1
<1>3. k.loggers = l.loggers
  <2>1. ASSUME NEW x \in DOMAIN l.loggers PROVE k.loggers[x] = l.loggers[x]
    <3>1. /\ k.loggers[x] \in [level : Levels, refs : {k.loggers[x].refs}]
          /\ l.loggers[x] \in [level : Levels, refs : {l.loggers[x].refs}]
      BY DEF LibOK
    <3> QED BY <3>1
  <2>2. /\ k.loggers = [x \in DOMAIN k.loggers |-> k.loggers[x]]
        /\ l.loggers = [x \in DOMAIN l.loggers |-> l.loggers[x]]
    BY DEF LibOK
  <2> QED BY <2>1, <2>2
<1>4. /\ k \in [initialized : BOOLEAN, ring : Int, handlers : {k.handlers}, loggers : {k.loggers}]
      /\ l \in [initialized : BOOLEAN, ring : Int, handlers : {l.handlers}, loggers : {l.loggers}]
  BY DEF LibOK
<1> HIDE DEF F
<1>5. [k EXCEPT !.handlers = F(l)] = [l EXCEPT !.handlers = F(l)]
  BY <1>3, <1>4
<1>6. Unheard(k) = [k EXCEPT !.handlers = F(k)] /\ Unheard(l) = [l EXCEPT !.handlers = F(l)]
  BY DEF Unheard, F
<1> QED BY <1>2, <1>5, <1>6

----------------------------------------------------------------------------
(* ConfigInv is inductive. *)
LEMMA ParserSame ==
  ASSUME ParserInv, file' = file, UNCHANGED parser
  PROVE  ParserInv'
<1>1. PICK m \in 0 .. Len(file) : ParsedTo(m)
  BY DEF ParserInv
<1>2. Owner(m)' = Owner(m) /\ Read(m)' = Read(m)
  BY ReadSame
<1>3. ParsedTo(m)'
  BY <1>1, <1>2 DEF ParsedTo, parser
<1>4. m \in 0 .. Len(file')
  BY <1>1
<1> QED BY <1>3, <1>4 DEF ParserInv

LEMMA ReadNothing ==
  Owner(0) = 0 /\ Read(0) = EmptyCfg
<1>1. Headers(0) = {} /\ Owner(0) = 0
  BY DEF Headers, Owner, MaxOf
<1>2. RingLines(0) = {} /\ \A kind, k : First(Sections(kind, 0), k) = {}
  <2>1. 1 .. 0 = {}
    OBVIOUS
  <2>2. RingLines(0) = {}
    BY <2>1 DEF RingLines
  <2>3. \A kind : Sections(kind, 0) = {}
    BY <1>1 DEF Sections
  <2> QED BY <2>2, <2>3, FirstNone
<1>3. Read(0).handlers = Empty /\ Read(0).loggers = Empty /\ Read(0).ring = 0
  BY <1>2 DEF Read, Empty
<1>4. Read(0) = [ring |-> Read(0).ring, handlers |-> Read(0).handlers, loggers |-> Read(0).loggers]
  BY DEF Read
<1>5. Read(0) = EmptyCfg
  BY <1>3, <1>4 DEF EmptyCfg
<1> QED BY <1>1, <1>5

LEMMA ConfigInvInit ==
  ASSUME ConfigAssumption, ConfigInit
  PROVE  ConfigInv
<1>1. ConfigTypeOK
  BY NoLibType DEF ConfigInit, ConfigTypeOK
<1>2. ParserInv
  <2>1. 0 \in 0 .. Len(file)
    BY SaysTypes DEF ConfigInit
  <2>2. ParsedTo(0)
    BY ReadNothing DEF ParsedTo, ConfigInit, EmptyCfg, Empty
  <2> QED BY <2>1, <2>2 DEF ParserInv
<1>3. lib.handlers = Empty /\ lib.loggers = Empty
  BY DEF ConfigInit, NoLib
<1> QED BY <1>1, <1>2, <1>3 DEF ConfigInit, ConfigInv, Rest, ReapplyKeeps, Initialized

(* The calls, and the steps at which the library stays as it is. *)
LEMMA CallStep ==
  ASSUME ConfigAssumption, ConfigInv, NEW c, Call(c)
  PROVE  ConfigInv'
<1>1. ParserInv'
  BY ParserSame DEF ConfigInv, Call
<1>2. Says' = Says
  BY ReadSame DEF Call
<1>3. ConfigTypeOK'
  BY DEF ConfigInv, ConfigTypeOK, Call
<1>4. Rest(file, Says, lib, configured)'
  BY <1>2 DEF ConfigInv, Call
<1> QED BY <1>1, <1>3, <1>4 DEF ConfigInv, Call, ReapplyKeeps, Initialized

LEMMA InitOnceStep ==
  ASSUME ConfigAssumption, ConfigInv, InitOnce
  PROVE  ConfigInv'
<1>1. ParserInv'
  BY ParserSame DEF ConfigInv, InitOnce
<1>2. Says' = Says
  BY ReadSame DEF InitOnce
<1>3. pc' \in {"idle", "open"}
  BY DEF InitOnce, AfterInit
<1>4. ConfigTypeOK'
  BY <1>3 DEF ConfigInv, ConfigTypeOK, InitOnce
<1>5. Rest(file, Says, lib, configured)'
  BY <1>2 DEF ConfigInv, InitOnce
<1> QED BY <1>1, <1>3, <1>4, <1>5 DEF ConfigInv, InitOnce, ReapplyKeeps, Initialized

LEMMA LmkInitStep ==
  ASSUME ConfigAssumption, ConfigInv, LmkInit
  PROVE  ConfigInv'
<1>1. ParserInv'
  BY ParserSame DEF ConfigInv, LmkInit
<1>2. ~configured'
  BY DEF ConfigInv, LmkInit, Initialized
<1>3. LibOK(lib)'
  BY NoLibType DEF LmkInit
<1>4. ConfigTypeOK'
  BY <1>3 DEF ConfigInv, ConfigTypeOK, LmkInit
<1>5. lib'.handlers = Empty /\ lib'.loggers = Empty
  BY DEF LmkInit, NoLib
<1>6. Rest(file, Says, lib, configured)'
  BY <1>2, <1>5 DEF Rest
<1>7. lib'.initialized
  BY DEF LmkInit, NoLib
<1> QED BY <1>1, <1>2, <1>4, <1>6, <1>7 DEF ConfigInv, LmkInit, ReapplyKeeps, Initialized

(* lmk_destroy. *)
LEMMA LmkDestroyStep ==
  ASSUME ConfigAssumption, ConfigInv, LmkDestroy
  PROVE  ConfigInv'
<1>1. ParserInv'
  BY ParserSame DEF ConfigInv, LmkDestroy
<1>2. ConfigTypeOK'
  BY NoLibType DEF ConfigInv, ConfigTypeOK, LmkDestroy
<1>3. lib'.handlers = Empty /\ lib'.loggers = Empty
  BY DEF LmkDestroy, NoLib
<1>4. Rest(file, Says, lib, configured)'
  BY <1>3 DEF Rest, LmkDestroy
<1> QED BY <1>1, <1>2, <1>4 DEF ConfigInv, LmkDestroy, ReapplyKeeps, Initialized

(* The library is remembered when the file is opened. *)
LEMMA OpenFileStep ==
  ASSUME ConfigAssumption, ConfigInv, OpenFile
  PROVE  ConfigInv'
<1>1. ParserInv'
  BY ParserSame DEF ConfigInv, OpenFile
<1>2. Says' = Says
  BY ReadSame DEF OpenFile
<1>3. pc' \in {"parse", "close"}
  BY DEF OpenFile
<1>4. ConfigTypeOK'
  BY <1>3 DEF ConfigInv, ConfigTypeOK, OpenFile
<1>5. Rest(file, Says, lib, configured)' /\ Rest(file, Says, before, again)'
  BY <1>2 DEF ConfigInv, OpenFile
<1>6. lib' = before' /\ again' = configured'
  BY DEF OpenFile
<1>7. Initialized'
  BY DEF ConfigInv, OpenFile, Initialized
<1>8. ReapplyKeeps'
  BY <1>6 DEF ReapplyKeeps
<1>9. pc' = "parse" => Applying'
  BY <1>5, <1>6 DEF Applying
<1> QED BY <1>1, <1>3, <1>4, <1>5, <1>7, <1>8, <1>9 DEF ConfigInv

(* The return from lmk_parse_and_apply.  A size that has been configured is kept. *)
LEMMA CloseStep ==
  ASSUME ConfigAssumption, ConfigInv, Close
  PROVE  ConfigInv'
<1>0. file' = file /\ file \in Files /\ configured' = configured
  BY DEF Close, ConfigInv, ConfigTypeOK
<1>1. ParserInv'
  <2>1. 0 \in 0 .. Len(file')
    BY <1>0, SaysTypes
  <2>2. Owner(0)' = 0 /\ Read(0)' = EmptyCfg
    BY <1>0, ReadSame, ReadNothing
  <2>3. ParsedTo(0)'
    BY <2>2 DEF ParsedTo, Close, EmptyCfg, Empty
  <2> QED BY <2>1, <2>3 DEF ParserInv
<1>2. Says' = Says
  BY <1>0, ReadSame
<1>3. pc' \in {"idle", "open"}
  BY DEF Close, AfterInit
<1>4. LibOK(lib) /\ Rest(file, Says, lib, configured)
  BY DEF ConfigInv, ConfigTypeOK, Close
<1>5. lib' = lib \/ lib' = Sized(lib, lib.ring)
  BY DEF Close
<1>6. /\ LibOK(lib')
      /\ lib'.handlers = lib.handlers /\ lib'.loggers = lib.loggers
      /\ lib'.initialized = lib.initialized
      /\ lib.ring > 0 => lib'.ring = lib.ring
  <2>1. CASE lib' = lib
    BY <1>4, <2>1
  <2>2. CASE lib' = Sized(lib, lib.ring)
    <3>1. lib.ring \in Int
      BY <1>4 DEF LibOK
    <3> QED BY <1>4, <2>2, <3>1, SizedIs
  <2> QED BY <1>5, <2>1, <2>2
<1>7. configured => lib'.ring = lib.ring
  <2> SUFFICES ASSUME configured PROVE lib.ring > 0
    BY <1>6
  <2>1. lib.ring = SizeOf(Says)
    BY <1>4 DEF Rest, Applied
  <2>2. Says.ring \in Int /\ DefaultRingSize \in Nat \ {0}
    BY <1>0, SaysTypes DEF ConfigAssumption
  <2> QED BY <2>1, <2>2 DEF SizeOf
<1>8. Rest(file, Says, lib, configured)'
  <2>1. ASSUME configured PROVE Applied(file, Says, lib')
    <3>1. Applied(file, Says, lib)
      BY <1>4, <2>1 DEF Rest
    <3> QED BY <1>6, <1>7, <2>1, <3>1 DEF Applied, HandlersFrom, LoggersFrom
  <2>2. ASSUME ~configured PROVE lib'.handlers = Empty /\ lib'.loggers = Empty
    BY <1>4, <1>6, <2>2 DEF Rest
  <2> QED BY <1>0, <1>2, <2>1, <2>2 DEF Rest
<1>9. ConfigTypeOK'
  BY <1>0, <1>3, <1>6, NoLibType DEF ConfigInv, ConfigTypeOK, Close
<1>10. Initialized'
  BY <1>0, <1>6 DEF ConfigInv, Initialized, Close
<1> QED BY <1>1, <1>3, <1>8, <1>9, <1>10 DEF ConfigInv, ReapplyKeeps

(* One line of the file. *)
LEMMA ParseLineStep ==
  ASSUME ConfigAssumption, ConfigInv, ParseLine
  PROVE  ConfigInv'
<1>1. ParserInv'
  <2>1. PICK m \in 0 .. Len(file) : ParsedTo(m)
    BY DEF ConfigInv, ParserInv
  <2>2. m + 1 \in 0 .. Len(file) /\ ParsedTo(m + 1)'
    BY <2>1, ParseLineReads
  <2>3. PICK j \in 0 .. Len(file) : j = m + 1
    BY <2>2
  <2>4. ParsedTo(j)' /\ file' = file
    BY <2>2, <2>3 DEF ParseLine
  <2> QED BY <2>4 DEF ParserInv
<1>2. Says' = Says
  BY ReadSame DEF ParseLine
<1>3. ConfigTypeOK'
  BY DEF ConfigInv, ConfigTypeOK, ParseLine
<1>4. Applying /\ Rest(file, Says, before, again)
  BY DEF ConfigInv, ParseLine, Applying
<1>5. pc' = "parse" /\ UNCHANGED <<file, lib, before, again, configured>>
  BY DEF ParseLine
<1>6. Applying'
  BY <1>2, <1>4, <1>5 DEF Applying, ParseLine
<1> QED BY <1>1, <1>3, <1>5, <1>6 DEF ConfigInv, ParseLine, ReapplyKeeps, Initialized

(* The handlers of a library at rest have rings of the configured size. *)
LEMMA RestRings ==
  ASSUME NEW f, NEW s, NEW k, NEW c \in BOOLEAN, Rest(f, s, k, c)
  PROVE  /\ \A x \in DOMAIN k.handlers : k.handlers[x].ring = NextPow2(SizeOf(s))
         /\ AttachedOnce(k)
<1>1. CASE c
  <2>1. HandlersFrom(s, k, NoLib, DOMAIN s.handlers) /\ LoggersFrom(f, s, k, NoLib, DOMAIN s.loggers)
    BY <1>1 DEF Rest, Applied
  <2>2. \A x \in DOMAIN k.handlers : k.handlers[x].ring = NextPow2(SizeOf(s))
    BY <2>1 DEF HandlersFrom
  <2>3. ASSUME NEW x \in DOMAIN k.loggers
        PROVE  k.loggers[x].refs = [y \in DOMAIN k.loggers[x].refs |-> 1]
    <3>1. PICK D : k.loggers[x].refs = [y \in D |-> 1]
      BY <2>1 DEF LoggersFrom
    <3> QED BY <3>1
  <2> QED BY <2>2, <2>3 DEF AttachedOnce
<1>2. CASE ~c
  BY <1>2 DEF Rest, Empty, AttachedOnce
<1> QED BY <1>1, <1>2

(* The end of the file: the sizes are set and the handlers come next. *)
LEMMA ParseEndStep ==
  ASSUME ConfigAssumption, ConfigInv, ParseEnd
  PROVE  ConfigInv'
<1>0. file' = file /\ file \in Files /\ configured' = configured /\ again' = again /\ before' = before
  BY DEF ParseEnd, ConfigInv, ConfigTypeOK
<1>1. ParserInv'
  BY ParserSame DEF ConfigInv, ParseEnd
<1>2. Says' = Says
  BY <1>0, ReadSame
<1>3. cfg = Says /\ cfg' = cfg /\ n' = n /\ n = Len(file)
  BY DEF ConfigInv, ParserInv, ParsedTo, ParseEnd, parser, Says
<1>4. Applying /\ Rest(file, Says, before, again) /\ lib = before /\ again = configured
  BY DEF ConfigInv, ParseEnd, Applying
<1>5. LibOK(lib) /\ again \in BOOLEAN
  BY DEF ConfigInv, ConfigTypeOK
<1>6. /\ LibOK(lib')
      /\ lib'.handlers = lib.handlers /\ lib'.loggers = lib.loggers
      /\ lib'.initialized = lib.initialized
      /\ lib'.ring = SizeOf(Says)
  <2>1. Says.ring \in Int
    BY <1>0, SaysTypes
  <2>2. lib' = Sized(lib, Says.ring)
    BY <1>3 DEF ParseEnd
  <2> QED BY <1>5, <2>1, <2>2, SizedIs DEF SizeOf
<1>7. todo' = DOMAIN Says.handlers /\ pc' = "handlers"
  BY <1>3 DEF ParseEnd
<1>8. HandlersFrom(Says, lib', before, DOMAIN Says.handlers \ todo')
  <2>1. DOMAIN Says.handlers \ todo' = {}
    BY <1>7
  <2>2. \A x \in DOMAIN before.handlers : before.handlers[x].ring = NextPow2(SizeOf(Says))
    BY <1>4, <1>5, RestRings
  <2>3. HandlersFrom(Says, lib', before, {})
    BY <1>4, <1>6, <2>2, NothingApplied
  <2> QED BY <2>1, <2>3
<1>9. InOrder(DOMAIN Says.handlers)'
  BY <1>2, <1>7 DEF InOrder
<1>10. Applying'
  BY <1>0, <1>2, <1>3, <1>4, <1>6, <1>7, <1>8, <1>9 DEF Applying
<1>11. ConfigTypeOK'
  BY <1>0, <1>6, <1>7 DEF ConfigInv, ConfigTypeOK, ParseEnd
<1>12. Initialized'
  BY <1>0, <1>6 DEF ConfigInv, Initialized, ParseEnd
<1> QED BY <1>1, <1>7, <1>10, <1>11, <1>12 DEF ConfigInv, ReapplyKeeps

(* The loops of lmk_cfg_apply take the sections in the order of the file. *)
LEMMA LeastNext ==
  ASSUME NEW D \in SUBSET Nat, InOrder(D), todo # {}, todo' = todo \ {Least(todo)}
  PROVE  /\ Least(todo) \in D /\ Least(todo) \in Nat
         /\ \A g \in D \ todo : g < Least(todo)
         /\ D \ todo' = (D \ todo) \cup {Least(todo)}
         /\ todo' \subseteq D /\ \A h \in D \ todo', t \in todo' : h < t
<1>1. todo \in SUBSET Nat
  BY DEF InOrder
<1>2. PICK h \in todo : h = Least(todo) /\ \A y \in todo : h <= y
  BY <1>1, LeastIs
<1>3. h \in D /\ h \in Nat /\ \A g \in D \ todo : g < h
  BY <1>2 DEF InOrder
<1>4. D \ todo' = (D \ todo) \cup {h} /\ todo' \subseteq D
  BY <1>2, <1>3 DEF InOrder
<1>5. ASSUME NEW g \in D \ todo', NEW t \in todo' PROVE g < t
  <2>1. t \in todo /\ t # h /\ t \in Nat /\ g \in Nat
    BY <1>1, <1>2
  <2>2. CASE g = h
    BY <1>2, <2>1, <2>2
  <2>3. CASE g \in D \ todo
    BY <2>1, <2>3 DEF InOrder
  <2> QED BY <1>4, <2>2, <2>3
<1> QED BY <1>2, <1>3, <1>4, <1>5

(* A handler put into the library, whose record is a well-formed one. *)
WithHandler(l, x, v) == [l EXCEPT !.handlers = Put(@, x, v)]

LEMMA HandlerPut ==
  ASSUME NEW l, LibOK(l), NEW x, NEW v \in HandlerRec, NEW k, k = WithHandler(l, x, v)
  PROVE  /\ LibOK(k)
         /\ k.handlers = Put(l.handlers, x, v) /\ k.loggers = l.loggers
         /\ k.initialized = l.initialized /\ k.ring = l.ring
<1>1. /\ l \in [initialized : BOOLEAN, ring : Int, handlers : {l.handlers}, loggers : {l.loggers}]
      /\ l.handlers \in [DOMAIN l.handlers -> HandlerRec]
      /\ l.loggers = [y \in DOMAIN l.loggers |-> l.loggers[y]]
      /\ \A y \in DOMAIN l.loggers : l.loggers[y] \in [level : Levels, refs : {l.loggers[y].refs}]
  BY DEF LibOK
<1>2. PICK h : h = Put(l.handlers, x, v)
  OBVIOUS
<1>3. h \in [DOMAIN h -> HandlerRec]
  BY <1>1, <1>2 DEF Put
<1>4. k = [l EXCEPT !.handlers = h]
  BY <1>2 DEF WithHandler
<1>5. /\ k.handlers = h /\ k.loggers = l.loggers
      /\ k.initialized = l.initialized /\ k.ring = l.ring
  BY <1>1, <1>4
<1>6. k \in [initialized : BOOLEAN, ring : Int, handlers : {k.handlers}, loggers : {k.loggers}]
  BY <1>1, <1>4, <1>5
<1>7. LibOK(k)
  BY <1>1, <1>3, <1>5, <1>6 DEF LibOK
<1> QED BY <1>2, <1>5, <1>7

(* A logger put into the library. *)
WithLogger(l, x, v) == [l EXCEPT !.loggers = Put(@, x, v)]

LEMMA LoggerPut ==
  ASSUME NEW l, LibOK(l), NEW x, NEW v, v.level \in Levels, v = [level |-> v.level, refs |-> v.refs],
         NEW k, k = WithLogger(l, x, v)
  PROVE  /\ LibOK(k)
         /\ k.loggers = Put(l.loggers, x, v)
         /\ k.handlers = l.handlers
         /\ k.initialized = l.initialized /\ k.ring = l.ring
<1>1. /\ l \in [initialized : BOOLEAN, ring : Int, handlers : {l.handlers}, loggers : {l.loggers}]
      /\ l.handlers \in [DOMAIN l.handlers -> HandlerRec]
      /\ l.loggers = [y \in DOMAIN l.loggers |-> l.loggers[y]]
      /\ \A y \in DOMAIN l.loggers : l.loggers[y] \in [level : Levels, refs : {l.loggers[y].refs}]
  BY DEF LibOK
<1>2. PICK h : h = Put(l.loggers, x, v)
  OBVIOUS
<1>3. /\ h = [y \in DOMAIN h |-> h[y]]
      /\ \A y \in DOMAIN h : h[y] = IF y = x THEN v ELSE l.loggers[y]
      /\ DOMAIN h = DOMAIN l.loggers \cup {x}
  BY <1>2 DEF Put
<1>4. ASSUME NEW y \in DOMAIN h PROVE h[y] \in [level : Levels, refs : {h[y].refs}]
  <2>1. CASE y = x
    <3>1. v \in [level : Levels, refs : {v.refs}]
      OBVIOUS
    <3>2. h[y] = v
      BY <1>3, <2>1
    <3> QED BY <3>1, <3>2
  <2>2. CASE y # x
    <3>1. y \in DOMAIN l.loggers /\ h[y] = l.loggers[y]
      BY <1>3, <2>2
    <3> QED BY <1>1, <3>1
  <2> QED BY <2>1, <2>2
<1>5. k = [l EXCEPT !.loggers = h]
  BY <1>2 DEF WithLogger
<1>6. /\ k.loggers = h /\ k.handlers = l.handlers
      /\ k.initialized = l.initialized /\ k.ring = l.ring
  BY <1>1, <1>5
<1>7. k \in [initialized : BOOLEAN, ring : Int, handlers : {k.handlers}, loggers : {k.loggers}]
  BY <1>1, <1>5, <1>6
<1>8. LibOK(k)
  BY <1>1, <1>3, <1>4, <1>6, <1>7 DEF LibOK
<1> QED BY <1>2, <1>6, <1>8

(* The handler that a section gets or makes, and what the section sets of it. *)
LEMMA HandlerSetUp ==
  ASSUME ConfigAssumption, file \in Files, LibOK(lib), lib.ring = SizeOf(Says),
         NEW h \in DOMAIN Says.handlers, MakesHandler(Says.handlers[h]),
         \A x \in DOMAIN lib.handlers : lib.handlers[x].ring = NextPow2(SizeOf(Says)),
         NEW v, v = SetUp(GetHandler(Says.handlers[h]), Says.handlers[h])
  PROVE  /\ v \in HandlerRec
         /\ v.level = IF Says.handlers[h].level # "unset" THEN Says.handlers[h].level
                      ELSE IF HandlerName(Says.handlers[h]) \in DOMAIN lib.handlers
                      THEN lib.handlers[HandlerName(Says.handlers[h])].level ELSE "trace"
         /\ v.ring = NextPow2(SizeOf(Says))
         /\ HandlerName(Says.handlers[h]) \in DOMAIN lib.handlers =>
              v.type = lib.handlers[HandlerName(Says.handlers[h])].type
<1>1. PICK ch : ch = Says.handlers[h]
  OBVIOUS
<1>2. /\ ch.level \in Levels \cup {"unset"} /\ ch.type \in Types
      /\ ch.listeners \in SUBSET (1 .. Len(file)) /\ Len(file) \in Nat
  BY <1>1, SaysTypes DEF MakesHandler
<1>3. lib.ring \in Int /\ lib.handlers \in [DOMAIN lib.handlers -> HandlerRec]
  BY DEF LibOK
<1>4. PICK g : g = GetHandler(ch)
  OBVIOUS
<1>5. /\ g \in HandlerRec
      /\ g.ring = NextPow2(SizeOf(Says))
      /\ g.level = IF HandlerName(ch) \in DOMAIN lib.handlers THEN lib.handlers[HandlerName(ch)].level ELSE "trace"
      /\ HandlerName(ch) \in DOMAIN lib.handlers => g.type = lib.handlers[HandlerName(ch)].type
  <2>1. CASE HandlerName(ch) \in DOMAIN lib.handlers
    <3>1. g = lib.handlers[HandlerName(ch)]
      BY <1>4, <2>1 DEF GetHandler, HasHandler
    <3> QED BY <1>3, <2>1, <3>1
  <2>2. CASE HandlerName(ch) \notin DOMAIN lib.handlers
    <3>1. g = [type |-> ch.type, level |-> "trace", ring |-> NextPow2(lib.ring), listeners |-> 0]
      BY <1>4, <2>2 DEF GetHandler, HasHandler
    <3>2. "trace" \in Levels /\ NextPow2(lib.ring) \in {NextPow2(i) : i \in Int}
      BY <1>3 DEF Levels
    <3>3. g \in HandlerRec
      BY <1>2, <3>1, <3>2 DEF HandlerRec
    <3> QED BY <2>2, <3>1, <3>3
  <2> QED BY <2>1, <2>2
<1>6. Cardinality({j \in ch.listeners : file[j].num > 0}) \in Nat
  <2>1. {j \in ch.listeners : file[j].num > 0} \in SUBSET (1 .. Len(file))
    BY <1>2
  <2>2. IsFiniteSet(1 .. Len(file))
    BY <1>2, FS_Interval
  <2>3. IsFiniteSet({j \in ch.listeners : file[j].num > 0})
    BY <2>1, <2>2, FS_Subset
  <2> QED BY <2>3, FS_CardinalityType
<1>7. PICK c \in Nat : c = IF ch.type = "socket" /\ g.type = "socket"
                           THEN g.listeners + Cardinality({j \in ch.listeners : file[j].num > 0})
                           ELSE g.listeners
  <2>1. g.listeners \in Nat
    BY <1>5 DEF HandlerRec
  <2>2. PICK d \in Nat : d = Cardinality({j \in ch.listeners : file[j].num > 0})
    BY <1>6, Zenon
  <2>3. g.listeners + d \in Nat
    BY <2>1, <2>2
  <2>4. CASE ch.type = "socket" /\ g.type = "socket"
    BY <2>2, <2>3, <2>4, Zenon
  <2>5. CASE ~(ch.type = "socket" /\ g.type = "socket")
    BY <2>1, <2>5, Zenon
  <2> QED BY <2>4, <2>5, Zenon
<1>8. PICK lev \in Levels : lev = IF ch.level # "unset" THEN ch.level ELSE g.level
  <2>1. g.level \in Levels
    BY <1>5 DEF HandlerRec
  <2> QED BY <1>2, <2>1
<1>9. v = [type |-> g.type, level |-> lev, ring |-> g.ring, listeners |-> c]
  BY <1>1, <1>4, <1>7, <1>8 DEF SetUp
<1>10. v \in HandlerRec
  BY <1>5, <1>9 DEF HandlerRec
<1> QED BY <1>1, <1>5, <1>8, <1>9, <1>10

(* One section of a handler is applied. *)
LEMMA ApplyHandlerStep ==
  ASSUME ConfigAssumption, ConfigInv, ApplyHandler
  PROVE  ConfigInv'
<1>0. /\ file' = file /\ file \in Files /\ configured' = configured /\ again' = again
      /\ before' = before /\ cfg' = cfg /\ n' = n /\ pc' = "handlers" /\ pc = "handlers"
  BY DEF ApplyHandler, ConfigInv, ConfigTypeOK, parser
<1>1. ParserInv'
  BY ParserSame DEF ConfigInv, ApplyHandler
<1>2. Says' = Says
  BY <1>0, ReadSame
<1>3. Applying /\ LibOK(lib)
  BY <1>0 DEF ConfigInv, ConfigTypeOK
<1>4. /\ cfg = Says /\ n = Len(file) /\ lib.ring = SizeOf(Says)
      /\ InOrder(DOMAIN Says.handlers) /\ lib.loggers = before.loggers
      /\ HandlersFrom(Says, lib, before, DOMAIN Says.handlers \ todo)
      /\ lib.initialized = before.initialized
  BY <1>0, <1>3 DEF Applying
<1>5. DOMAIN Says.handlers \in SUBSET Nat
  BY <1>0, SaysTypes
<1>6. todo # {} /\ todo' = todo \ {Least(todo)}
  BY DEF ApplyHandler
<1>7. PICK h \in DOMAIN Says.handlers :
        /\ h = Least(todo) /\ h \in Nat
        /\ \A g \in DOMAIN Says.handlers \ todo : g < h
        /\ DOMAIN Says.handlers \ todo' = (DOMAIN Says.handlers \ todo) \cup {h}
  BY <1>4, <1>5, <1>6, LeastNext
<1>8. InOrder(DOMAIN Says.handlers)'
  <2>1. /\ todo' \subseteq DOMAIN Says.handlers
        /\ \A g \in DOMAIN Says.handlers \ todo', t \in todo' : g < t
    BY <1>4, <1>5, <1>6, LeastNext
  <2> QED BY <1>2, <2>1 DEF InOrder
<1>9. DOMAIN Says.handlers \ todo \in SUBSET Nat
  BY <1>5
<1>10. /\ LibOK(lib')
       /\ HandlersFrom(Says, lib', before, DOMAIN Says.handlers \ todo')
       /\ lib'.loggers = lib.loggers /\ lib'.initialized = lib.initialized /\ lib'.ring = lib.ring
  <2>1. CASE MakesHandler(Says.handlers[h])
    <3>1. PICK v : v = SetUp(GetHandler(Says.handlers[h]), Says.handlers[h])
      OBVIOUS
    <3>2. \A x \in DOMAIN lib.handlers : lib.handlers[x].ring = NextPow2(SizeOf(Says))
      BY <1>4 DEF HandlersFrom
    <3>3. /\ v \in HandlerRec
          /\ v.level = IF Says.handlers[h].level # "unset" THEN Says.handlers[h].level
                       ELSE IF HandlerName(Says.handlers[h]) \in DOMAIN lib.handlers
                       THEN lib.handlers[HandlerName(Says.handlers[h])].level ELSE "trace"
          /\ v.ring = NextPow2(SizeOf(Says))
          /\ HandlerName(Says.handlers[h]) \in DOMAIN lib.handlers =>
               v.type = lib.handlers[HandlerName(Says.handlers[h])].type
      BY <1>0, <1>3, <1>4, <2>1, <3>1, <3>2, HandlerSetUp
    <3>4. lib' = WithHandler(lib, HandlerName(Says.handlers[h]), v)
      BY <1>4, <1>7, <2>1, <3>1 DEF ApplyHandler, WithHandler
    <3>5. /\ LibOK(lib')
          /\ lib'.handlers = Put(lib.handlers, HandlerName(Says.handlers[h]), v)
          /\ lib'.loggers = lib.loggers /\ lib'.initialized = lib.initialized /\ lib'.ring = lib.ring
      BY <1>3, <3>3, <3>4, HandlerPut
    <3>6. HandlersFrom(Says, lib', before, (DOMAIN Says.handlers \ todo) \cup {h})
      BY <1>4, <1>7, <1>9, <2>1, <3>3, <3>5, HandlerApplied
    <3> QED BY <1>7, <3>5, <3>6
  <2>2. CASE ~MakesHandler(Says.handlers[h])
    <3>1. lib' = lib
      BY <1>4, <1>7, <2>2 DEF ApplyHandler
    <3>2. HandlersFrom(Says, lib, before, (DOMAIN Says.handlers \ todo) \cup {h})
      BY <1>4, <2>2, HandlerSkipped
    <3> QED BY <1>3, <1>7, <3>1, <3>2
  <2> QED BY <2>1, <2>2
<1>11. Rest(file, Says, before, again) /\ again = configured
  BY <1>3 DEF Applying
<1>12. Applying'
  BY <1>0, <1>2, <1>4, <1>8, <1>10, <1>11 DEF Applying
<1>13. ConfigTypeOK'
  BY <1>0, <1>10 DEF ConfigInv, ConfigTypeOK
<1>14. Initialized'
  BY <1>0, <1>10 DEF ConfigInv, Initialized
<1> QED BY <1>0, <1>1, <1>12, <1>13, <1>14 DEF ConfigInv, ReapplyKeeps

(* All the handlers have been applied and the loggers come next. *)
LEMMA HandlersDoneStep ==
  ASSUME ConfigAssumption, ConfigInv, HandlersDone
  PROVE  ConfigInv'
<1>0. /\ file' = file /\ file \in Files /\ configured' = configured /\ again' = again /\ again \in BOOLEAN
      /\ before' = before /\ cfg' = cfg /\ n' = n /\ lib' = lib /\ pc' = "loggers" /\ pc = "handlers"
  BY DEF HandlersDone, ConfigInv, ConfigTypeOK, parser
<1>1. ParserInv'
  BY ParserSame DEF ConfigInv, HandlersDone
<1>2. Says' = Says
  BY <1>0, ReadSame
<1>3. /\ Rest(file, Says, before, again) /\ again = configured
      /\ cfg = Says /\ n = Len(file) /\ lib.ring = SizeOf(Says)
      /\ lib.loggers = before.loggers
      /\ HandlersFrom(Says, lib, before, DOMAIN Says.handlers \ todo)
      /\ lib.initialized = before.initialized
  BY <1>0 DEF ConfigInv, Applying
<1>4. DOMAIN Says.handlers \ todo = DOMAIN Says.handlers
  BY DEF HandlersDone
<1>5. HandlersFrom(Says, lib, before, DOMAIN Says.handlers)
  BY <1>3, <1>4
<1>6. todo' = DOMAIN Says.loggers
  BY <1>3 DEF HandlersDone
<1>7. LoggersFrom(file, Says, lib, before, DOMAIN Says.loggers \ todo')
  <2>1. DOMAIN Says.loggers \ todo' = {}
    BY <1>6
  <2>2. AttachedOnce(before)
    BY <1>0, <1>3, RestRings
  <2>3. LoggersFrom(file, Says, lib, before, {})
    BY <1>3, <2>2, NothingApplied
  <2> QED BY <2>1, <2>3
<1>8. InOrder(DOMAIN Says.loggers)'
  BY <1>2, <1>6 DEF InOrder
<1>9. Applying'
  BY <1>0, <1>2, <1>3, <1>5, <1>7, <1>8 DEF Applying
<1>10. ConfigTypeOK'
  BY <1>0 DEF ConfigInv, ConfigTypeOK
<1>11. Initialized'
  BY <1>0 DEF ConfigInv, Initialized
<1> QED BY <1>0, <1>1, <1>9, <1>10, <1>11 DEF ConfigInv, ReapplyKeeps

(* One section of a logger is applied. *)
LEMMA ApplyLoggerStep ==
  ASSUME ConfigAssumption, ConfigInv, ApplyLogger
  PROVE  ConfigInv'
<1>0. /\ file' = file /\ file \in Files /\ configured' = configured /\ again' = again
      /\ before' = before /\ cfg' = cfg /\ n' = n /\ pc' = "loggers" /\ pc = "loggers"
  BY DEF ApplyLogger, ConfigInv, ConfigTypeOK, parser
<1>1. ParserInv'
  BY ParserSame DEF ConfigInv, ApplyLogger
<1>2. Says' = Says
  BY <1>0, ReadSame
<1>3. LibOK(lib)
  BY DEF ConfigInv, ConfigTypeOK
<1>4. /\ Rest(file, Says, before, again) /\ again = configured
      /\ cfg = Says /\ n = Len(file) /\ lib.ring = SizeOf(Says)
      /\ InOrder(DOMAIN Says.loggers)
      /\ HandlersFrom(Says, lib, before, DOMAIN Says.handlers)
      /\ LoggersFrom(file, Says, lib, before, DOMAIN Says.loggers \ todo)
      /\ lib.initialized = before.initialized
  BY <1>0 DEF ConfigInv, Applying
<1>5. DOMAIN Says.loggers \in SUBSET Nat
  BY <1>0, SaysTypes
<1>6. todo # {} /\ todo' = todo \ {Least(todo)}
  BY DEF ApplyLogger
<1>7. PICK h \in DOMAIN Says.loggers :
        /\ h = Least(todo) /\ h \in Nat
        /\ \A g \in DOMAIN Says.loggers \ todo : g < h
        /\ DOMAIN Says.loggers \ todo' = (DOMAIN Says.loggers \ todo) \cup {h}
  BY <1>4, <1>5, <1>6, LeastNext
<1>8. InOrder(DOMAIN Says.loggers)'
  <2>1. /\ todo' \subseteq DOMAIN Says.loggers
        /\ \A g \in DOMAIN Says.loggers \ todo', t \in todo' : g < t
    BY <1>4, <1>5, <1>6, LeastNext
  <2> QED BY <1>2, <2>1 DEF InOrder
<1>9. DOMAIN Says.loggers \ todo \in SUBSET Nat
  BY <1>5
<1>10. PICK cl : cl = Says.loggers[h]
  OBVIOUS
<1>11. PICK logger : logger = GetLogger(cl)
  OBVIOUS
<1>12. /\ logger.level \in Levels
       /\ logger.level = IF cl.name \in DOMAIN lib.loggers THEN lib.loggers[cl.name].level ELSE "info"
       /\ logger.refs = IF cl.name \in DOMAIN lib.loggers THEN lib.loggers[cl.name].refs ELSE Empty
  <2>1. \A x \in DOMAIN lib.loggers : lib.loggers[x].level \in Levels
    BY <1>3 DEF LibOK
  <2>2. CASE cl.name \in DOMAIN lib.loggers
    BY <1>11, <2>1, <2>2 DEF GetLogger, HasLogger
  <2>3. CASE cl.name \notin DOMAIN lib.loggers
    <3>1. logger = [level |-> "info", refs |-> Empty]
      BY <1>11, <2>3 DEF GetLogger, HasLogger
    <3> QED BY <2>3, <3>1 DEF Levels
  <2> QED BY <2>2, <2>3
<1>13. PICK lev \in Levels : lev = IF cl.level # "unset" THEN cl.level ELSE logger.level
  <2>1. cl.level \in Levels \cup {"unset"}
    BY <1>0, <1>10, SaysTypes
  <2> QED BY <1>12, <2>1
<1>14. PICK refs : refs = Attached(logger.refs, NamesIn(file, cl) \cap DOMAIN lib.handlers)
  OBVIOUS
<1>15. PICK v : v = [level |-> lev, refs |-> refs]
  OBVIOUS
<1>16. v.level = lev /\ v.refs = refs /\ v = [level |-> v.level, refs |-> v.refs]
  BY <1>15
<1>17. lib' = WithLogger(lib, cl.name, v)
  <2>1. {x \in Names(cl) : HasHandler(x)} = NamesIn(file, cl) \cap DOMAIN lib.handlers
    BY DEF Names, NamesIn, HasHandler
  <2> QED BY <2>1, <1>4, <1>7, <1>10, <1>11, <1>13, <1>14, <1>15 DEF ApplyLogger, WithLogger
<1>18. /\ LibOK(lib')
       /\ lib'.loggers = Put(lib.loggers, cl.name, v)
       /\ lib'.handlers = lib.handlers
       /\ lib'.initialized = lib.initialized /\ lib'.ring = lib.ring
  BY <1>3, <1>13, <1>16, <1>17, LoggerPut
<1>19. LoggersFrom(file, Says, lib', before, (DOMAIN Says.loggers \ todo) \cup {h})
  <2>1. v.level = IF Says.loggers[h].level # "unset" THEN Says.loggers[h].level
                  ELSE IF Says.loggers[h].name \in DOMAIN lib.loggers
                  THEN lib.loggers[Says.loggers[h].name].level ELSE "info"
    BY <1>10, <1>12, <1>13, <1>16
  <2>2. v.refs = Attached(IF Says.loggers[h].name \in DOMAIN lib.loggers
                          THEN lib.loggers[Says.loggers[h].name].refs ELSE Empty,
                          NamesIn(file, Says.loggers[h]) \cap DOMAIN lib.handlers)
    BY <1>10, <1>12, <1>14, <1>16, Zenon
  <2>3. lib'.loggers = Put(lib.loggers, Says.loggers[h].name, v) /\ lib'.handlers = lib.handlers
    BY <1>10, <1>18
  <2>4. h \in Nat /\ \A g \in DOMAIN Says.loggers \ todo : g < h
    BY <1>7
  <2> QED BY <1>4, <1>9, <2>1, <2>2, <2>3, <2>4, LoggerApplied, Zenon
<1>20. HandlersFrom(Says, lib', before, DOMAIN Says.handlers)
  BY <1>4, <1>18 DEF HandlersFrom
<1>21. Applying'
  BY <1>0, <1>2, <1>4, <1>7, <1>8, <1>18, <1>19, <1>20 DEF Applying
<1>22. ConfigTypeOK'
  BY <1>0, <1>18 DEF ConfigInv, ConfigTypeOK
<1>23. Initialized'
  BY <1>0, <1>18 DEF ConfigInv, Initialized
<1> QED BY <1>0, <1>1, <1>21, <1>22, <1>23 DEF ConfigInv, ReapplyKeeps

(* The end of an application: the library is what the file says, and was so
   before it when it is not the first one. *)
LEMMA LoggersDoneStep ==
  ASSUME ConfigAssumption, ConfigInv, LoggersDone
  PROVE  ConfigInv'
<1>0. /\ file' = file /\ file \in Files /\ configured' /\ again' = again /\ again \in BOOLEAN
      /\ before' = before /\ lib' = lib /\ pc' = "close" /\ pc = "loggers"
      /\ LibOK(lib) /\ LibOK(before)
  BY DEF LoggersDone, ConfigInv, ConfigTypeOK
<1>1. ParserInv'
  BY ParserSame DEF ConfigInv, LoggersDone
<1>2. Says' = Says
  BY <1>0, ReadSame
<1>3. /\ Rest(file, Says, before, again)
      /\ lib.ring = SizeOf(Says)
      /\ HandlersFrom(Says, lib, before, DOMAIN Says.handlers)
      /\ LoggersFrom(file, Says, lib, before, DOMAIN Says.loggers \ todo)
      /\ lib.initialized = before.initialized
  BY <1>0 DEF ConfigInv, Applying
<1>4. LoggersFrom(file, Says, lib, before, DOMAIN Says.loggers)
  <2>1. DOMAIN Says.loggers \ todo = DOMAIN Says.loggers
    BY DEF LoggersDone
  <2> QED BY <1>3, <2>1
<1>5. Applied(file, Says, lib) /\ (again => Unheard(lib) = Unheard(before))
  <2>1. CASE again
    <3>1. Applied(file, Says, before)
      BY <1>3, <2>1 DEF Rest
    <3>2. before.ring = SizeOf(Says)
      BY <3>1 DEF Applied
    <3>3. /\ DOMAIN lib.handlers = DOMAIN before.handlers
          /\ \A x \in DOMAIN before.handlers :
               /\ lib.handlers[x].level = before.handlers[x].level
               /\ lib.handlers[x].ring = before.handlers[x].ring
               /\ lib.handlers[x].type = before.handlers[x].type
          /\ DOMAIN lib.loggers = DOMAIN before.loggers
          /\ \A x \in DOMAIN before.loggers :
               /\ lib.loggers[x].level = before.loggers[x].level
               /\ lib.loggers[x].refs = before.loggers[x].refs
          /\ Applied(file, Says, lib)
      BY <1>3, <1>4, <3>1, NextApplication
    <3>4. Unheard(lib) = Unheard(before)
      BY <1>0, <1>3, <3>2, <3>3, SameUnheard
    <3> QED BY <3>3, <3>4
  <2>2. CASE ~again
    <3>1. before.handlers = Empty /\ before.loggers = Empty
      BY <1>3, <2>2 DEF Rest
    <3> QED BY <1>3, <1>4, <2>2, <3>1, FirstApplication
  <2> QED BY <2>1, <2>2
<1>6. Rest(file, Says, lib, configured)'
  BY <1>0, <1>2, <1>5 DEF Rest
<1>7. ReapplyKeeps'
  <2>1. Unheard(lib)' = Unheard(lib) /\ Unheard(before)' = Unheard(before)
    BY <1>0 DEF Unheard
  <2> QED BY <1>0, <1>5, <2>1 DEF ReapplyKeeps
<1>8. ConfigTypeOK'
  BY <1>0 DEF ConfigInv, ConfigTypeOK, LoggersDone
<1>9. Initialized'
  BY <1>0 DEF ConfigInv, Initialized
<1> QED BY <1>0, <1>1, <1>6, <1>7, <1>8, <1>9 DEF ConfigInv

----------------------------------------------------------------------------
LEMMA ConfigInvNext ==
  ASSUME ConfigAssumption, ConfigInv, [ConfigNext]_vars
  PROVE  ConfigInv'
<1>1. CASE \E c \in {"init", "null", "file", "missing"} : Call(c)
  BY <1>1, CallStep
<1>2. CASE InitOnce
  BY <1>2, InitOnceStep
<1>3. CASE LmkInit
  BY <1>3, LmkInitStep
<1>4. CASE OpenFile
  BY <1>4, OpenFileStep
<1>5. CASE ParseLine
  BY <1>5, ParseLineStep
<1>6. CASE ParseEnd
  BY <1>6, ParseEndStep
<1>7. CASE ApplyHandler
  BY <1>7, ApplyHandlerStep
<1>8. CASE HandlersDone
  BY <1>8, HandlersDoneStep
<1>9. CASE ApplyLogger
  BY <1>9, ApplyLoggerStep
<1>10. CASE LoggersDone
  BY <1>10, LoggersDoneStep
<1>11. CASE Close
  BY <1>11, CloseStep
<1>12. CASE LmkDestroy
  BY <1>12, LmkDestroyStep
<1>13. CASE UNCHANGED vars
  <2>1. ParserInv'
    BY <1>13, ParserSame DEF ConfigInv, vars
  <2>2. /\ file' = file /\ lib' = lib /\ before' = before /\ again' = again
        /\ configured' = configured /\ pc' = pc /\ todo' = todo /\ cfg' = cfg /\ n' = n
    BY <1>13 DEF vars, parser
  <2>3. Says' = Says
    BY <2>2, ReadSame
  <2>4. ConfigTypeOK' /\ Initialized' /\ ReapplyKeeps'
    BY <2>2 DEF ConfigInv, ConfigTypeOK, Initialized, ReapplyKeeps, Unheard
  <2>5. pc \in {"parse", "handlers", "loggers"} => Applying'
    BY <2>2, <2>3 DEF ConfigInv, Applying, InOrder
  <2>6. pc \in {"idle", "init", "open", "close"} => Rest(file, Says, lib, configured)'
    BY <2>2, <2>3 DEF ConfigInv
  <2> QED BY <2>1, <2>2, <2>4, <2>5, <2>6 DEF ConfigInv
<1> QED BY <1>1, <1>2, <1>3, <1>4, <1>5, <1>6, <1>7, <1>8, <1>9, <1>10, <1>11, <1>12, <1>13 DEF ConfigNext

(* At every step, whatever the file: the parser holds what the lines it has read
   say; the library is what the file says as soon as the file has been applied;
   and while it is being applied, the sections in todo are all that is missing. *)
THEOREM ConfigInvariant == ConfigSpec => []ConfigInv
<1>1. ConfigInit => ConfigInv
  BY ConfigAssumption, ConfigInvInit
<1>2. ConfigInv /\ [ConfigNext]_vars => ConfigInv'
  BY ConfigAssumption, ConfigInvNext
<1> QED BY <1>1, <1>2, PTL DEF ConfigSpec

(* For every file and all the limits of lmk_cfg, the loop of lmk_cfg_parse_file
   finds at every line what the sections so far say. *)
THEOREM ParserReadsTheFile == ConfigSpec => []ParseMatches
<1>1. ConfigInv => ParseMatches
  BY DEF ConfigInv, ParserInv, ParsedTo, ParseMatches, Applying
<1> QED BY <1>1, ConfigInvariant, PTL

(* The loggers of a library k are those that the file names, attached as it says. *)
AsNamed(f, s, k) ==
  /\ DOMAIN k.loggers = {s.loggers[g].name : g \in DOMAIN s.loggers}
  /\ \A x \in DOMAIN k.loggers :
       k.loggers[x].refs = [y \in NamedBy(f, s, DOMAIN s.loggers, x) \cap MadeBy(s, DOMAIN s.handlers) |-> 1]

LEMMA AppliedNames ==
  ASSUME NEW f, NEW s, NEW k, Applied(f, s, k)
  PROVE  AsNamed(f, s, k) /\ DOMAIN k.handlers = MadeBy(s, DOMAIN s.handlers)
<1>1. DOMAIN NoLib.handlers = {} /\ DOMAIN NoLib.loggers = {}
  BY NoLibType
<1>2. DOMAIN k.handlers = MadeBy(s, DOMAIN s.handlers)
  BY <1>1 DEF Applied, HandlersFrom
<1>3. DOMAIN k.loggers = {s.loggers[g].name : g \in DOMAIN s.loggers}
  BY <1>1 DEF Applied, LoggersFrom
<1>4. ASSUME NEW x \in DOMAIN k.loggers
      PROVE  k.loggers[x].refs =
               [y \in NamedBy(f, s, DOMAIN s.loggers, x) \cap MadeBy(s, DOMAIN s.handlers) |-> 1]
  <2>1. RefsIn(NoLib, x) = {}
    BY <1>1 DEF RefsIn
  <2>2. k.loggers[x].refs =
          [y \in RefsIn(NoLib, x) \cup (NamedBy(f, s, DOMAIN s.loggers, x) \cap DOMAIN k.handlers) |-> 1]
    BY DEF Applied, LoggersFrom
  <2>3. RefsIn(NoLib, x) \cup (NamedBy(f, s, DOMAIN s.loggers, x) \cap DOMAIN k.handlers) =
          NamedBy(f, s, DOMAIN s.loggers, x) \cap MadeBy(s, DOMAIN s.handlers)
    BY <1>2, <2>1
  <2> QED BY <2>2, <2>3
<1> QED BY <1>2, <1>3, <1>4 DEF AsNamed

(* So also while the sections of the loggers are being applied again. *)
LEMMA ReappliedNames ==
  ASSUME NEW f, NEW s, NEW k, NEW l, NEW S, S \subseteq DOMAIN s.loggers,
         Applied(f, s, l), HandlersFrom(s, k, l, DOMAIN s.handlers), LoggersFrom(f, s, k, l, S)
  PROVE  AsNamed(f, s, k)
<1> DEFINE G == DOMAIN s.loggers
           M == MadeBy(s, DOMAIN s.handlers)
<1>1. AsNamed(f, s, l) /\ DOMAIN l.handlers = M
  BY AppliedNames
<1>2. DOMAIN k.handlers = M
  BY <1>1 DEF HandlersFrom
<1>3. DOMAIN k.loggers = {s.loggers[g].name : g \in G} /\ DOMAIN l.loggers = DOMAIN k.loggers
  BY <1>1 DEF LoggersFrom, AsNamed
<1>4. ASSUME NEW x \in DOMAIN k.loggers
      PROVE  k.loggers[x].refs = [y \in NamedBy(f, s, G, x) \cap M |-> 1]
  <2>1. l.loggers[x].refs = [y \in NamedBy(f, s, G, x) \cap M |-> 1]
    BY <1>1, <1>3 DEF AsNamed
  <2>2. DOMAIN l.loggers[x].refs = NamedBy(f, s, G, x) \cap M
    BY <2>1
  <2>3. RefsIn(l, x) = NamedBy(f, s, G, x) \cap M
    BY <1>3, <2>2 DEF RefsIn
  <2>4. NamedBy(f, s, S, x) \subseteq NamedBy(f, s, G, x)
    BY DEF NamedBy
  <2>5. k.loggers[x].refs = [y \in RefsIn(l, x) \cup (NamedBy(f, s, S, x) \cap DOMAIN k.handlers) |-> 1]
    BY DEF LoggersFrom
  <2>6. RefsIn(l, x) \cup (NamedBy(f, s, S, x) \cap DOMAIN k.handlers) = NamedBy(f, s, G, x) \cap M
    BY <1>2, <2>3, <2>4
  <2> QED BY <2>5, <2>6
<1> QED BY <1>3, <1>4 DEF AsNamed

(* Once the file has been applied, however often it is applied again, the loggers
   are those it names; if it calls its console sections "console", each of them is
   attached, once, to the handlers that its sections name and the file defines, and
   to no other. *)
THEOREM LoggersAreAttached == ConfigSpec => []LoggersAttached
<1>1. ASSUME ConfigInv, configured PROVE AsNamed(file, Says, lib)
  <2>1. CASE pc \in {"idle", "init", "open", "close"}
    BY <1>1, <2>1, AppliedNames DEF ConfigInv, Rest
  <2>2. CASE pc \in {"parse", "handlers", "loggers"}
    <3>1. Applying /\ Applied(file, Says, before)
      BY <1>1, <2>2 DEF ConfigInv, Applying, Rest
    <3>2. CASE pc \in {"parse", "handlers"}
      <4>1. lib.loggers = before.loggers
        BY <3>1, <3>2 DEF Applying
      <4>2. AsNamed(file, Says, before)
        BY <3>1, AppliedNames
      <4> QED BY <4>1, <4>2 DEF AsNamed
    <3>3. CASE pc = "loggers"
      <4>1. /\ HandlersFrom(Says, lib, before, DOMAIN Says.handlers)
            /\ LoggersFrom(file, Says, lib, before, DOMAIN Says.loggers \ todo)
        BY <3>1, <3>3 DEF Applying
      <4>2. DOMAIN Says.loggers \ todo \subseteq DOMAIN Says.loggers
        OBVIOUS
      <4> QED BY <3>1, <4>1, <4>2, ReappliedNames
    <3> QED BY <2>2, <3>2, <3>3
  <2> QED BY <1>1, <2>1, <2>2 DEF ConfigInv, ConfigTypeOK
<1>2. ConsoleByName => HandlersDefined = MadeBy(Says, DOMAIN Says.handlers)
  BY DEF ConsoleByName, HandlersDefined, MadeBy, HandlerName
<1>3. \A x : HandlersNamed(x) = NamedBy(file, Says, DOMAIN Says.loggers, x)
  BY DEF HandlersNamed, NamedBy, Names, NamesIn
<1>4. ConfigInv => LoggersAttached
  BY <1>1, <1>2, <1>3 DEF AsNamed, LoggersAttached
<1> QED BY <1>4, ConfigInvariant, PTL

(* If lmk_next_pow2 is right about the sizes that atoi returns, then the ring of
   every handler that the file makes, at every step, is the smallest power of two
   that holds the configured number of records. *)
THEOREM RingsHoldTheSize ==
  ASSUME \A v \in 1 .. MaxSize : LeastPower(v, NextPow2(v))
  PROVE  ConfigSpec => []RingAsConfigured
<1>1. ASSUME ConfigInv PROVE \A x \in DOMAIN lib.handlers : lib.handlers[x].ring = NextPow2(SizeOf(Says))
  <2>1. CASE pc \in {"idle", "init", "open", "close"}
    <3>1. Rest(file, Says, lib, configured) /\ configured \in BOOLEAN
      BY <1>1, <2>1 DEF ConfigInv, ConfigTypeOK
    <3> QED BY <3>1, RestRings
  <2>2. CASE pc = "parse"
    <3>1. Rest(file, Says, before, again) /\ again \in BOOLEAN /\ lib = before
      BY <1>1, <2>2 DEF ConfigInv, ConfigTypeOK, Applying
    <3> QED BY <3>1, RestRings
  <2>3. CASE pc \in {"handlers", "loggers"}
    BY <1>1, <2>3 DEF ConfigInv, Applying, HandlersFrom
  <2> QED BY <1>1, <2>1, <2>2, <2>3 DEF ConfigInv, ConfigTypeOK
<1>2. ASSUME ConfigInv PROVE SizeOf(Says) \in 1 .. MaxSize
  <2>1. /\ Says.ring \in Int /\ Says.ring <= MaxSize
        /\ DefaultRingSize \in 1 .. MaxSize /\ MaxSize \in Nat
    BY <1>2, ConfigAssumption, SaysTypes DEF ConfigInv, ConfigTypeOK, ConfigAssumption
  <2> QED BY <2>1 DEF SizeOf
<1>3. ConfigInv => RingAsConfigured
  BY <1>1, <1>2 DEF RingAsConfigured, SizeOf
<1> QED BY <1>3, ConfigInvariant, PTL

(* An application of a file that has been applied before, by lmk_init_from_file
   after lmk_init or after another one, leaves the sizes, the handlers with their
   types, levels and rings, and the loggers with their references, as they were. *)
THEOREM ReapplicationKeeps == ConfigSpec => []ReapplyKeeps
<1>1. ConfigInv => ReapplyKeeps
  BY DEF ConfigInv
<1> QED BY <1>1, ConfigInvariant, PTL
============================================================================
