--------------------------- MODULE StartupProofs ---------------------------
(***************************************************************************)
(* Proofs about the start of the server, for any databases, stops and      *)
(* failures.  Four facts are kept from statement to statement: which of    *)
(* the two tables of channels exists and holds the rows (Held), which      *)
(* service has the claim of a unit (Claims), what the configuration and    *)
(* the stored row say together (Promise), and what the groups and the      *)
(* links in them have come to (Grouping).                                  *)
(***************************************************************************)
EXTENDS Startup, FiniteSetTheorems, SequenceTheorems, WellFoundedInduction, TLAPS

Fields == {"units", "groups", "oldGroups", "links", "channels", "spare"}

(* What the records hold, as far as the proofs look at them.               *)
Shape ==
  /\ DOMAIN data = Fields /\ DOMAIN origin = Fields
  /\ DOMAIN data.units = DOMAIN origin.units
  /\ DOMAIN origin.units \subseteq Nat \ {0}
  /\ faults \in Nat

(* The second table of channels is there only while 011 goes on, or for    *)
(* good when it was stopped there; and one of the two tables has the rows. *)
Held ==
  /\ "spare" \notin has => data.channels = origin.channels
  /\ "spare" \in has =>
       /\ "wide" \notin has
       /\ data.channels = origin.channels \/ data.spare = origin.channels
       /\ torn \/ pc \in {"copy", "drop", "rename"}
  /\ pc \in {"copy", "drop"} => data.channels = origin.channels
  /\ pc \in {"drop", "rename"} => data.spare = origin.channels
  /\ pc \in {"copy", "drop", "rename"} => "spare" \in has /\ "wide" \notin has
  /\ pc \in {"mode", "serving"} => "wide" \in has

(* The first that claimed a unit keeps it, and once the later claims are   *)
(* cleared the index can be made.                                          *)
Claims ==
  /\ \A s \in DOMAIN origin.units :
       \/ data.units[s] = origin.units[s]
       \/ /\ data.units[s] = None
          /\ \E e \in DOMAIN origin.units : e < s /\ data.units[e] = origin.units[s]
  /\ pc = "unit_index" => ~Duplicates

(* What was told follows from what this process read and what is stored,   *)
(* and stays so until the operator edits the configuration.                *)
Promise ==
  /\ pc = "serving" /\ stored \notin Modes => active = loaded.mode
  /\ told # None =>
       /\ loaded = config
       /\ faults = 0 => told = Override(stored, config.mode)

Sound == Shape /\ Held /\ Claims /\ Promise /\ Rerunnable

-----------------------------------------------------------------------------
(* A set of naturals that is not empty has a least element.               *)
LEMMA LeastOf ==
  ASSUME NEW T \in SUBSET Nat, T # {}
  PROVE  \E x \in T : \A y \in T : ~(y < x)
<1> DEFINE R == OpToRel(<, Nat)
<1>1. \E x \in T : \A y \in T : ~ (<<y, x>> \in R)
  <2>1. IsWellFoundedOn(R, Nat)
    BY NatLessThanWellFounded
  <2> HIDE DEF R
  <2>2. QED
    BY <2>1, WFMin
<1>2. \A x, y \in Nat : y < x => <<y, x>> \in R
  BY DEF R, OpToRel
<1>3. QED
  <2> HIDE DEF R
  <2>1. PICK x \in T : \A y \in T : ~ (<<y, x>> \in R)
    BY <1>1
  <2>2. QED
    BY <2>1, <1>2, Zenon

(* Clearing leaves no unit claimed twice: of two claims that were left,    *)
(* the later one would have been cleared.                                  *)
LEMMA ClearedOnce ==
  ASSUME NEW units, DOMAIN units \subseteq Nat,
         NEW s \in DOMAIN units, NEW e \in DOMAIN units,
         e < s, Cleared(units)[e] = Cleared(units)[s]
  PROVE  Cleared(units)[s] = None
<1>1. CASE \E d \in DOMAIN units : d < s /\ units[d] = units[s]
  BY <1>1 DEF Cleared
<1>2. CASE \E d \in DOMAIN units : d < e /\ units[d] = units[e]
  BY <1>2 DEF Cleared
<1>3. CASE /\ ~ \E d \in DOMAIN units : d < s /\ units[d] = units[s]
           /\ ~ \E d \in DOMAIN units : d < e /\ units[d] = units[e]
  <2>1. Cleared(units)[s] = units[s] /\ Cleared(units)[e] = units[e]
    BY <1>3 DEF Cleared
  <2>2. QED
    BY <2>1, <1>3
<1>4. QED
  BY <1>1, <1>2, <1>3

(* The least of those that claim a unit goes on claiming it.               *)
LEMMA ClearedKeepsFirst ==
  ASSUME NEW units, DOMAIN units \subseteq Nat,
         NEW t \in DOMAIN units
  PROVE  \E m \in DOMAIN units :
           ~(t < m) /\ units[m] = units[t] /\ Cleared(units)[m] = units[t]
<1> DEFINE T == {d \in DOMAIN units : units[d] = units[t]}
<1>1. PICK m \in T : \A d \in T : ~(d < m)
  <2>1. T \in SUBSET Nat /\ T # {}
    OBVIOUS
  <2> HIDE DEF T
  <2>2. QED
    BY <2>1, LeastOf
<1>2. ~ \E d \in DOMAIN units : d < m /\ units[d] = units[m]
  BY <1>1
<1>3. Cleared(units)[m] = units[m]
  BY <1>2 DEF Cleared
<1>4. QED
  BY <1>1, <1>3

-----------------------------------------------------------------------------
LEMMA InitSound == Init => Sound
<1> SUFFICES ASSUME Init PROVE Sound
  OBVIOUS
<1>1. PICK old \in Old : has = old.has /\ data = old.data
  BY DEF Init
<1>2. Shape
  BY <1>1, StartupAssumption DEF Init, Shape, Fields
<1>3. Held
  BY <1>1, StartupAssumption DEF Init, Held
<1>4. Claims
  BY DEF Init, Claims
<1>5. Promise /\ Rerunnable
  BY DEF Init, Promise, Rerunnable
<1>6. QED
  BY <1>2, <1>3, <1>4, <1>5 DEF Sound

(* The statements that change neither rows nor the tables of channels.     *)
LEMMA SchemaStep ==
  ASSUME Sound, UNCHANGED <<data, origin>>, Migrating,
         "spare" \in has' <=> "spare" \in has,
         "wide" \in has' <=> "wide" \in has,
         pc \notin {"copy", "drop", "rename", "serving"},
         pc' \notin {"copy", "drop", "rename", "serving", "unit_index"},
         pc' = "mode" => "wide" \in has,
         failed' = failed
  PROVE  Sound'
<1>1. Shape'
  BY DEF Sound, Shape, Migrating
<1>2. Held'
  BY DEF Sound, Held, Migrating
<1>3. Claims'
  BY DEF Sound, Claims
<1>4. Promise' /\ Rerunnable'
  BY DEF Sound, Promise, Rerunnable, Migrating, modeVars, Override
<1>5. QED
  BY <1>1, <1>2, <1>3, <1>4 DEF Sound

LEMMA AddColumnSound ==
  ASSUME Sound, NEW at, NEW column, NEW next, AddColumn(at, column, next),
         at \notin {"copy", "drop", "rename", "serving"},
         next \notin {"copy", "drop", "rename", "serving", "unit_index", "mode"},
         column \notin {"spare", "wide"}
  PROVE  Sound'
BY SchemaStep DEF AddColumn, Goto, Missing

LEMMA CreateMissingSound ==
  ASSUME Sound, NEW name, NEW next, CreateMissing(name, next),
         name \notin {"copy", "drop", "rename", "serving", "spare", "wide"},
         next \notin {"copy", "drop", "rename", "serving", "unit_index", "mode"}
  PROVE  Sound'
BY SchemaStep DEF CreateMissing, Goto

LEMMA ClearUnitsSound ==
  ASSUME Sound, ClearUnits
  PROVE  Sound'
<1>1. /\ data'.units = Cleared(data.units)
      /\ data'.channels = data.channels /\ data'.spare = data.spare
      /\ DOMAIN data' = Fields
      /\ DOMAIN data'.units = DOMAIN data.units
  BY DEF ClearUnits, Sound, Shape, Fields, Cleared
<1>2. Shape'
  BY <1>1 DEF Sound, Shape, ClearUnits, Migrating
<1>3. Held'
  BY <1>1 DEF Sound, Held, ClearUnits, Migrating, Goto
<1>4. Claims'
  <2> DEFINE O == origin.units
             D == data.units
             C == Cleared(data.units)
  <2>1. DOMAIN D = DOMAIN O /\ DOMAIN O \subseteq Nat
    BY DEF Sound, Shape
  <2>2. \A s \in DOMAIN O : \/ C[s] = O[s]
                            \/ C[s] = None /\ \E e \in DOMAIN O : e < s /\ C[e] = O[s]
    <3>1. TAKE s \in DOMAIN O
    <3>2. PICK t \in DOMAIN O : ~(s < t) /\ D[t] = O[s] /\ (t = s \/ D[s] = None)
      BY <2>1 DEF Sound, Claims
    <3>3. PICK m \in DOMAIN D : ~(t < m) /\ D[m] = D[t] /\ C[m] = D[t]
      BY <2>1, ClearedKeepsFirst
    <3>4. CASE m = s
      BY <3>2, <3>3, <3>4
    <3>5. CASE m # s
      <4>1. m < s
        BY <3>2, <3>3, <3>5, <2>1
      <4>2. C[s] = None
        BY <3>2, <3>3, <4>1, <2>1 DEF Cleared
      <4>3. QED
        BY <3>2, <3>3, <4>1, <4>2, <2>1
    <3>6. QED
      BY <3>4, <3>5
  <2>3. ~Duplicates'
    BY <1>1, <2>1, ClearedOnce DEF Duplicates
  <2>4. origin' = origin /\ data'.units = C
    BY <1>1 DEF ClearUnits
  <2> HIDE DEF C
  <2>5. QED
    BY <2>2, <2>3, <2>4 DEF Claims
<1>5. Promise' /\ Rerunnable'
  BY DEF Sound, Promise, Rerunnable, ClearUnits, Goto, Migrating, modeVars, Override
<1>6. QED
  BY <1>2, <1>3, <1>4, <1>5 DEF Sound

LEMMA CreateUnitIndexSound ==
  ASSUME Sound, CreateUnitIndex
  PROVE  Sound'
BY SchemaStep DEF CreateUnitIndex, Goto, Sound, Claims

LEMMA UnifySound ==
  ASSUME Sound, Unify
  PROVE  Sound'
<1>1. /\ DOMAIN data' = Fields
      /\ data'.units = data.units /\ data'.channels = data.channels /\ data'.spare = data.spare
      /\ has' \in {has, has \ {"link_groups"}}
  BY DEF Unify, Sound, Shape, Fields
<1>2. /\ pc = "unify" /\ pc' = "tls" /\ failed' = failed /\ origin' = origin
      /\ UNCHANGED <<torn, modeVars, crashes, faults>>
  BY DEF Unify, Goto, Migrating
<1>3. Shape'
  BY <1>1, <1>2 DEF Sound, Shape
<1>4. Held'
  BY <1>1, <1>2 DEF Sound, Held
<1>5. Claims'
  BY <1>1, <1>2 DEF Sound, Claims
<1>6. Promise' /\ Rerunnable'
  BY <1>2 DEF Sound, Promise, Rerunnable, modeVars, Override
<1>7. QED
  BY <1>3, <1>4, <1>5, <1>6 DEF Sound

(* 011, statement by statement.                                            *)
LEMMA WidenSound ==
  ASSUME Sound, CreateWide \/ CopyChannels \/ DropChannels \/ RenameWide
  PROVE  Sound'
<1>1. /\ DOMAIN data' = Fields /\ data'.units = data.units
      /\ origin' = origin /\ UNCHANGED <<torn, modeVars, crashes, faults>>
      /\ pc' \in {"mode", "copy", "drop", "rename", "down"} /\ pc # "serving"
  BY DEF Sound, Shape, Fields, CreateWide, CopyChannels, DropChannels, RenameWide, Goto, Die, Migrating
<1>2. Shape'
  BY <1>1 DEF Sound, Shape
<1>3. Held'
  <2>1. CASE CreateWide
    BY <2>1 DEF Sound, Held, CreateWide, Goto, Die, Migrating
  <2>2. CASE CopyChannels
    BY <2>2 DEF Sound, Shape, Fields, Held, CopyChannels, Goto, Migrating
  <2>3. CASE DropChannels
    BY <2>3 DEF Sound, Shape, Fields, Held, DropChannels, Goto, Migrating
  <2>4. CASE RenameWide
    BY <2>4 DEF Sound, Shape, Fields, Held, RenameWide, Goto, Migrating
  <2>5. QED
    BY <2>1, <2>2, <2>3, <2>4
<1>4. Claims'
  BY <1>1 DEF Sound, Claims
<1>5. Promise'
  BY <1>1 DEF Sound, Promise, modeVars, Override
<1>6. Rerunnable'
  BY <1>1 DEF Sound, Held, Rerunnable, CreateWide, CopyChannels, DropChannels, RenameWide, Goto, Die
<1>7. QED
  BY <1>2, <1>3, <1>4, <1>5, <1>6 DEF Sound

LEMMA StartSound ==
  ASSUME Sound, Start
  PROVE  Sound'
<1>1. CASE Load
  <2>1. /\ pc' \in {"groups", "down"} /\ failed' \in {None, "config"}
        /\ UNCHANGED <<has, data, origin, torn, config, stored, told, faults>>
        /\ loaded' = config \/ loaded' = loaded
        /\ pc = "down"
    BY <1>1 DEF Load, Die, schemaVars
  <2>2. QED
    BY <2>1 DEF Sound, Shape, Held, Claims, Duplicates, Promise, Rerunnable, Override
<1>2. CASE InitTables
  BY <1>2, CreateMissingSound DEF InitTables
<1>3. CASE AddSource \/ AddRole \/ AddColor \/ AddLinkGroupId \/ AddTls
  BY <1>3, AddColumnSound DEF AddSource, AddRole, AddColor, AddLinkGroupId, AddTls
<1>4. CASE CreateDismissed \/ CreateLinkGroups \/ CreateChannels
  BY <1>4, SchemaStep, CreateMissingSound DEF CreateDismissed, CreateLinkGroups, CreateChannels, Goto
<1>5. CASE ReadMode
  <2>1. /\ pc = "mode" /\ pc' \in {"serving", "down"} /\ failed' \in {failed, "secret"}
        /\ UNCHANGED <<has, data, origin, torn, config, loaded, stored, told>>
        /\ faults' \in {faults, faults + 1}
        /\ active' \in {Override(stored, loaded.mode), loaded.mode}
    BY <1>5 DEF ReadMode, Goto, Die, schemaVars
  <2>2. Shape' /\ Held' /\ Claims'
    BY <2>1 DEF Sound, Shape, Held, Claims
  <2>3. Promise' /\ Rerunnable'
    BY <2>1 DEF Sound, Shape, Promise, Rerunnable, Override
  <2>4. QED
    BY <2>2, <2>3 DEF Sound
<1>6. QED
  BY <1>1, <1>2, <1>3, <1>4, <1>5, ClearUnitsSound, CreateUnitIndexSound, UnifySound, WidenSound
     DEF Start

LEMMA StepSound ==
  ASSUME Sound, [Next]_vars
  PROVE  Sound'
<1>1. CASE Start
  BY <1>1, StartSound
<1>2. CASE Crash
  <2>1. /\ pc' = "down" /\ torn' = (torn \/ pc \in {"copy", "drop", "rename"})
        /\ UNCHANGED <<has, data, origin, failed, config, loaded, stored, active, told, faults>>
    BY <1>2 DEF Crash, schemaVars, modeVars
  <2>2. Shape' /\ Claims' /\ Promise' /\ Rerunnable'
    BY <2>1 DEF Sound, Shape, Claims, Duplicates, Promise, Rerunnable, Override
  <2>3. Held'
    BY <2>1 DEF Sound, Held
  <2>4. QED
    BY <2>2, <2>3 DEF Sound
<1>3. CASE \/ \E mode \in Modes : SetAuthMode(mode)
           \/ GetAuthMode
           \/ \E c \in Configs : EditConfig(c)
  <2>1. /\ UNCHANGED <<pc, has, data, origin, torn, failed, loaded, active>>
        /\ faults' \in {faults, faults + 1}
    BY <1>3 DEF SetAuthMode, GetAuthMode, EditConfig, schemaVars
  <2>2. Shape' /\ Held' /\ Claims' /\ Rerunnable'
    BY <2>1 DEF Sound, Shape, Held, Claims, Duplicates, Rerunnable
  <2>3. Promise'
    <3>1. CASE \E mode \in Modes : SetAuthMode(mode)
      BY <2>1, <3>1 DEF Sound, Promise, SetAuthMode, Told, Override
    <3>2. CASE GetAuthMode
      BY <2>1, <3>2 DEF Sound, Shape, Promise, GetAuthMode, Told, Override
    <3>3. CASE \E c \in Configs : EditConfig(c)
      BY <2>1, <3>3 DEF Sound, Promise, EditConfig, Override
    <3>4. QED
      BY <1>3, <3>1, <3>2, <3>3
  <2>4. QED
    BY <2>2, <2>3 DEF Sound
<1>4. CASE UNCHANGED vars
  BY <1>4 DEF vars, schemaVars, modeVars, Sound, Shape, Held, Claims, Duplicates, Promise,
              Rerunnable, Override
<1>5. QED
  BY <1>1, <1>2, <1>3, <1>4 DEF Next

(* The facts the proofs keep are facts of every state.                     *)
THEOREM StartsSound == Spec => []Sound
<1>1. QED
  BY InitSound, StepSound, PTL DEF Spec

(* No start ends for a statement that has been run before, but for 011     *)
(* after a stop between its statements (db/mod.rs:12).                     *)
THEOREM MigrationsRerunnable == Spec => []Rerunnable
<1>1. Sound => Rerunnable
  BY DEF Sound
<1>2. QED
  BY <1>1, StartsSound, PTL

(* What the settings page says of the next start is what it does           *)
(* (settings.rs:43, main.rs:150).                                          *)
THEOREM ModeAsTold == Spec => ToldTrue
<1>1. Sound /\ [Next]_vars =>
        [pc # "serving" /\ pc' = "serving" /\ told # None /\ faults' = 0 => active' = told]_vars
  <2> SUFFICES ASSUME Sound, Next, pc # "serving", pc' = "serving", told # None, faults' = 0
               PROVE  active' = told
    OBVIOUS
  <2>1. ReadMode
    BY DEF Next, Start, Crash, SetAuthMode, GetAuthMode, EditConfig, Load, InitTables,
           CreateMissing, AddSource, AddRole, AddColor, AddLinkGroupId, AddTls, AddColumn, CreateDismissed,
           CreateLinkGroups, ClearUnits, CreateUnitIndex, Unify, CreateChannels, CreateWide,
           CopyChannels, DropChannels, RenameWide, Goto, Die
  <2>2. faults = 0 /\ active' = Override(stored, loaded.mode)
    BY <2>1 DEF ReadMode, Sound, Shape
  <2>3. QED
    BY <2>2 DEF Sound, Promise
<1>2. QED
  BY <1>1, StartsSound, PTL DEF Spec, ToldTrue
-----------------------------------------------------------------------------
(* Sequences, names and prefixes                                           *)

LEMMA SequenceOf ==
  ASSUME NEW s, IsSequence(s)
  PROVE  /\ Len(s) \in Nat /\ DOMAIN s = 1..Len(s)
         /\ s \in Seq({s[n] : n \in 1..Len(s)})
<1> DEFINE S == {s[n] : n \in 1..Len(s)}
           L == Len(s)
<1>1. L \in Nat /\ s = [n \in 1..L |-> s[n]] /\ \A n \in 1..L : s[n] \in S
  BY DEF IsSequence
<1>2. s \in [1..L -> S]
  <2> HIDE DEF S, L
  <2>1. QED
    BY <1>1
<1>3. s \in Seq(S)
  <2> HIDE DEF S, L
  <2>1. QED
    BY <1>1, <1>2, SeqDef
<1>4. QED
  BY <1>1, <1>2, <1>3

LEMMA Appended ==
  ASSUME NEW s, IsSequence(s), NEW x
  PROVE  LET t == Append(s, x) IN
         /\ IsSequence(t) /\ Len(t) = Len(s) + 1 /\ DOMAIN t = 1..(Len(s) + 1)
         /\ \A n \in 1..Len(s) : t[n] = s[n]
         /\ t[Len(s) + 1] = x
<1> DEFINE S == {s[n] : n \in 1..Len(s)} \cup {x}
           t == Append(s, x)
<1>1. Len(s) \in Nat /\ s \in Seq(S)
  <2> DEFINE R == {s[n] : n \in 1..Len(s)}
  <2>1. Len(s) \in Nat /\ s \in Seq(R)
    BY SequenceOf
  <2>2. S = R \cup {x}
    OBVIOUS
  <2> HIDE DEF R, S
  <2>3. QED
    BY <2>1, <2>2
<1>2. x \in S
  OBVIOUS
<1>3. t \in Seq(S) /\ Len(t) = Len(s) + 1 /\ (\A n \in 1..Len(s) : t[n] = s[n]) /\ t[Len(s) + 1] = x
  <2> HIDE DEF S
  <2>1. QED
    BY <1>1, <1>2, AppendProperties
<1> HIDE DEF S, t
<1>4. Len(t) \in Nat /\ t = [n \in 1..Len(t) |-> t[n]] /\ DOMAIN t = 1..Len(t)
  BY <1>3
<1>5. QED
  BY <1>3, <1>4 DEF IsSequence, t

LEMMA Beginning == ASSUME NEW s, NEW m \in Nat PROVE SubSeq(s, 1, m) = [n \in 1..m |-> s[n]]
BY SMT

LEMMA PrefixOf ==
  ASSUME NEW s, NEW t, IsSequence(s), IsSequence(t), Len(s) <= Len(t),
         \A n \in 1..Len(s) : t[n] = s[n]
  PROVE  IsPrefix(s, t)
<1> DEFINE m == Len(s)
<1>1. m \in Nat
  BY DEF IsSequence
<1> HIDE DEF m
<1>2. SubSeq(s, 1, m) = [n \in 1..m |-> s[n]] /\ SubSeq(t, 1, m) = [n \in 1..m |-> t[n]]
  BY <1>1, Beginning
<1>3. SubSeq(s, 1, m) = SubSeq(t, 1, m)
  BY <1>2 DEF m
<1>4. QED
  BY <1>3 DEF IsPrefix, m

LEMMA PrefixSame == ASSUME NEW s, IsSequence(s) PROVE IsPrefix(s, s)
BY PrefixOf DEF IsSequence

LEMMA SuffixedName ==
  ASSUME NEW name, IsSequence(name), NEW k
  PROVE  IsSequence(Suffixed(name, k)) /\ IsPrefix(name, Suffixed(name, k))
<1>1. CASE k = 1
  BY <1>1, PrefixSame DEF Suffixed
<1>2. CASE k # 1
  <2> DEFINE t == Append(name, k)
  <2>1. IsSequence(t) /\ Len(t) = Len(name) + 1 /\ \A n \in 1..Len(name) : t[n] = name[n]
    BY Appended
  <2> HIDE DEF t
  <2>2. Len(name) <= Len(t)
    BY <2>1 DEF IsSequence
  <2>3. IsPrefix(name, t)
    BY <2>1, <2>2, PrefixOf
  <2>4. QED
    BY <1>2, <2>1, <2>3 DEF Suffixed, t
<1>3. QED
  BY <1>1, <1>2

LEMMA SuffixedApart ==
  ASSUME NEW name, IsSequence(name), NEW j \in Nat, NEW k \in Nat,
         Suffixed(name, j) = Suffixed(name, k)
  PROVE  j = k
<1>1. Len(name) \in Nat
  BY DEF IsSequence
<1> DEFINE a == Append(name, j)
           b == Append(name, k)
           L == Len(name)
<1>2. Len(a) = L + 1 /\ a[L + 1] = j /\ Len(b) = L + 1 /\ b[L + 1] = k
  BY Appended
<1>3. Suffixed(name, j) = (IF j = 1 THEN name ELSE a) /\ Suffixed(name, k) = (IF k = 1 THEN name ELSE b)
  BY DEF Suffixed
<1>4. name # a /\ name # b
  BY <1>1, <1>2
<1>5. a = b => j = k
  BY <1>2
<1> HIDE DEF a, b
<1>6. QED
  BY <1>3, <1>4, <1>5

(* The first k at which an injection of numbers leaves a finite set.       *)
LEMMA Outside ==
  ASSUME NEW f, NEW N, IsFiniteSet(N),
         DOMAIN f = 1..(Cardinality(N) + 1), f = [k \in DOMAIN f |-> f[k]], IsInjective(f)
  PROVE  \E k \in DOMAIN f : f[k] \notin N /\ \A j \in 1..(k - 1) : f[j] \in N
<1> DEFINE c == Cardinality(N)
           T == {k \in 1..(c + 1) : f[k] \notin N}
<1>1. c \in Nat
  BY FS_CardinalityType
<1>2. T # {}
  <2> SUFFICES ASSUME T = {} PROVE FALSE
    OBVIOUS
  <2>1. f \in Injection(1..(c + 1), N)
    BY DEF Injection
  <2>2. Cardinality(1..(c + 1)) <= c
    BY <2>1, FS_Injection
  <2>3. Cardinality(1..(c + 1)) = c + 1
    <3>1. 1 \in Int /\ c + 1 \in Int /\ ~(1 > c + 1) /\ (c + 1) - 1 + 1 = c + 1
      BY <1>1
    <3> DEFINE d == c + 1
    <3> HIDE DEF c, d
    <3>2. Cardinality(1..d) = IF 1 > d THEN 0 ELSE d - 1 + 1
      BY <3>1, FS_Interval, Zenon DEF d
    <3>3. QED
      BY <3>1, <3>2 DEF d
  <2>4. QED
    BY <1>1, <2>2, <2>3
<1>3. PICK k \in T : \A j \in T : ~(j < k)
  <2>1. T \in SUBSET Nat
    BY <1>1
  <2> HIDE DEF T
  <2>2. QED
    BY <1>2, <2>1, LeastOf
<1>4. k \in DOMAIN f /\ f[k] \notin N
  BY <1>3
<1>5. ASSUME NEW j \in 1..(k - 1) PROVE f[j] \in N
  BY <1>1, <1>3
<1>6. QED
  BY <1>4, <1>5

(* The loop over suffixes ends, with a name no group has.                  *)
LEMMA FreeNameIsFree ==
  ASSUME NEW name, IsSequence(name), NEW names, IsFiniteSet(names)
  PROVE  LET free == FreeName(name, names) IN
         free \notin names /\ IsSequence(free) /\ IsPrefix(name, free)
<1> DEFINE K == 1..(Cardinality(names) + 1)
           f == [k \in K |-> Suffixed(name, k)]
           P(k) == Suffixed(name, k) \notin names /\ \A j \in 1..(k - 1) : Suffixed(name, j) \in names
<1>1. Cardinality(names) \in Nat
  BY FS_CardinalityType
<1>2. IsInjective(f)
  BY SuffixedApart DEF IsInjective
<1>3. DOMAIN f = K /\ f = [k \in DOMAIN f |-> f[k]]
  OBVIOUS
<1>4. PICK k \in DOMAIN f : f[k] \notin names /\ \A j \in 1..(k - 1) : f[j] \in names
  <2> HIDE DEF f
  <2>1. QED
    BY <1>2, <1>3, Outside
<1>5. P(k)
  <2>1. \A j \in 1..(k - 1) : j \in K
    BY <1>1, <1>3, <1>4
  <2>2. QED
    BY <1>3, <1>4, <2>1
<1>6. \E n : FreeName(name, names) = Suffixed(name, n) /\ P(n)
  <2> DEFINE n == CHOOSE m \in K : P(m)
  <2>1. P(n)
    <3> HIDE DEF P
    <3>1. \E m \in K : P(m)
      BY <1>3, <1>5
    <3>2. QED
      BY <3>1
  <2>2. FreeName(name, names) = Suffixed(name, n)
    BY DEF FreeName
  <2> HIDE DEF n, P
  <2>3. QED
    BY <2>1, <2>2
<1>7. QED
  BY <1>6, SuffixedName

(* The names while the old groups are appended: what the recursive         *)
(* definition says, for there is such a function for any number of them.   *)
LEMMA JoiningSteps ==
  ASSUME NEW groups, NEW old, Len(old) \in Nat
  PROVE  /\ Joining(groups, old)[0] = groups
         /\ \A k \in 1..Len(old) :
              LET before == Joining(groups, old)[k - 1] IN
              Joining(groups, old)[k] = Append(before, FreeName(old[k], Range(before)))
<1> DEFINE N == Len(old)
           Longer(names, k) == Append(names[k - 1], FreeName(old[k], Range(names[k - 1])))
           G(f, n) == f = [k \in 0..n |-> IF k = 0 THEN groups ELSE Longer(f, k)]
           Lacking == {n \in 0..N : ~ \E f : G(f, n)}
<1>1. \E f : G(f, 0)
  <2>1. G([k \in 0..0 |-> groups], 0)
    OBVIOUS
  <2>2. QED
    BY <2>1
<1>2. ASSUME NEW n \in 1..N, NEW f, G(f, n - 1) PROVE \E g : G(g, n)
  <2> DEFINE g == [k \in 0..n |-> IF k = n THEN Longer(f, n) ELSE f[k]]
  <2>1. ASSUME NEW k \in 0..n PROVE g[k] = IF k = 0 THEN groups ELSE Longer(g, k)
    <3>1. CASE k = n
      <4>1. g[k - 1] = f[n - 1] /\ g[k] = Longer(f, n) /\ k # 0
        BY <3>1
      <4>2. QED
        BY <3>1, <4>1
    <3>2. CASE k # n
      <4>1. k \in 0..(n - 1) /\ g[k] = f[k] /\ (k # 0 => g[k - 1] = f[k - 1])
        BY <3>2
      <4>2. f[k] = IF k = 0 THEN groups ELSE Longer(f, k)
        BY <1>2, <4>1
      <4>3. QED
        BY <4>1, <4>2
    <3>3. QED
      BY <3>1, <3>2
  <2>2. g = [k \in 0..n |-> g[k]]
    OBVIOUS
  <2> HIDE DEF g
  <2>3. G(g, n)
    BY <2>1, <2>2
  <2>4. QED
    BY <2>3
<1>3. \E f : G(f, N)
  <2> HIDE DEF G
  <2> SUFFICES ASSUME ~ \E f : G(f, N) PROVE FALSE
    OBVIOUS
  <2>1. N \in Lacking /\ Lacking \in SUBSET Nat
    OBVIOUS
  <2>2. PICK n \in Lacking : \A m \in Lacking : ~(m < n)
    BY <2>1, LeastOf
  <2>3. n # 0 /\ n \in 1..N
    BY <1>1, <2>2
  <2>4. n - 1 \in 0..N /\ n - 1 < n
    BY <2>3
  <2>5. \E f : G(f, n - 1)
    BY <2>2, <2>4
  <2>6. QED
    BY <1>2, <2>2, <2>3, <2>5
<1>4. G(Joining(groups, old), N)
  BY <1>3 DEF Joining
<1> DEFINE J == Joining(groups, old)
<1>5. J = [k \in 0..N |-> IF k = 0 THEN groups ELSE Longer(J, k)]
  BY <1>4
<1> HIDE DEF J
<1>6. J[0] = groups /\ \A k \in 1..N : J[k] = Longer(J, k)
  <2>1. 0 \in 0..N /\ \A k \in 1..N : k \in 0..N /\ k # 0
    OBVIOUS
  <2> HIDE DEF Longer, N
  <2>2. QED
    BY <1>5, <2>1
<1>7. QED
  BY <1>6 DEF J

LEMMA FiniteNames ==
  ASSUME NEW s, IsSequence(s)
  PROVE  IsFiniteSet(Range(s))
<1> DEFINE R == Range(s)
           m == Len(s)
<1>1. DOMAIN s = 1..m /\ m \in Nat /\ s = [n \in 1..m |-> s[n]]
  BY DEF IsSequence
<1>2. (\A n \in 1..m : s[n] \in R) /\ \A r \in R : \E n \in 1..m : s[n] = r
  BY <1>1 DEF Range
<1>3. IsFiniteSet(1..m)
  <2> HIDE DEF m
  <2>1. 1 \in Int /\ m \in Int
    BY <1>1
  <2>2. QED
    BY <2>1, FS_Interval, Zenon
<1> HIDE DEF R, m
<1>4. s \in Surjection(1..m, R)
  BY <1>1, <1>2 DEF Surjection
<1>5. IsFiniteSet(R)
  BY <1>3, <1>4, FS_Surjection
<1>6. QED
  BY <1>5 DEF R

(* names is what k of the old groups have made of the groups.              *)
Appending(groups, old, names, k) ==
  /\ IsSequence(names) /\ IsInjective(names) /\ Len(names) = Len(groups) + k
  /\ \A n \in 1..Len(groups) : names[n] = groups[n]
  /\ \A n \in 1..k : IsPrefix(old[n], names[Len(groups) + n])

LEMMA AppendingOne ==
  ASSUME NEW groups, NEW old, Named(groups), Named(old), NEW k \in 1..Len(old), NEW names,
         Appending(groups, old, names, k - 1)
  PROVE  Appending(groups, old, Append(names, FreeName(old[k], Range(names))), k)
<1> DEFINE free == FreeName(old[k], Range(names))
           t == Append(names, free)
           L == Len(groups)
<1>1. /\ IsSequence(names) /\ IsInjective(names) /\ Len(names) = L + (k - 1)
      /\ \A n \in 1..L : names[n] = groups[n]
      /\ \A n \in 1..(k - 1) : IsPrefix(old[n], names[L + n])
  BY DEF Appending
<1>2. L \in Nat /\ k \in Nat /\ DOMAIN names = 1..Len(names) /\ Len(names) \in Nat
  BY <1>1 DEF Named, IsSequence
<1>3. IsSequence(old[k])
  BY DEF Named, IsSequence, Range
<1>4. free \notin Range(names) /\ IsPrefix(old[k], free)
  BY <1>1, <1>3, FiniteNames, FreeNameIsFree
<1> HIDE DEF free
<1>5. /\ IsSequence(t) /\ Len(t) = Len(names) + 1 /\ DOMAIN t = 1..(Len(names) + 1)
      /\ \A n \in 1..Len(names) : t[n] = names[n]
      /\ t[Len(names) + 1] = free
  BY <1>1, Appended
<1> HIDE DEF t, L
<1>6. \A n \in 1..Len(names) : names[n] # free
  BY <1>2, <1>4 DEF Range
<1>7. IsInjective(t)
  <2> SUFFICES ASSUME NEW a \in 1..(Len(names) + 1), NEW b \in 1..(Len(names) + 1), t[a] = t[b]
               PROVE  a = b
    BY <1>5 DEF IsInjective
  <2>1. a \in 1..Len(names) \/ a = Len(names) + 1
    BY <1>2
  <2>2. b \in 1..Len(names) \/ b = Len(names) + 1
    BY <1>2
  <2>3. QED
    BY <1>1, <1>2, <1>5, <1>6, <2>1, <2>2 DEF IsInjective
<1>8. Len(t) = L + k /\ Len(names) + 1 = L + k
  BY <1>1, <1>2, <1>5
<1>9. \A n \in 1..L : t[n] = groups[n]
  <2>1. \A n \in 1..L : n \in 1..Len(names)
    BY <1>1, <1>2
  <2>2. QED
    BY <1>1, <1>5, <2>1
<1>10. \A n \in 1..k : IsPrefix(old[n], t[L + n])
  <2> TAKE n \in 1..k
  <2>1. CASE n = k
    BY <1>4, <1>5, <1>8, <2>1
  <2>2. CASE n # k
    <3>1. n \in 1..(k - 1) /\ L + n \in 1..Len(names)
      BY <1>1, <1>2, <2>2
    <3>2. QED
      BY <1>1, <1>5, <3>1
  <2>3. QED
    BY <2>1, <2>2
<1>11. QED
  BY <1>5, <1>7, <1>8, <1>9, <1>10 DEF Appending, t, free, L

(* 008 keeps the groups, and each old one with a name of its own.          *)
LEMMA JoinedNames ==
  ASSUME NEW groups, NEW old, Named(groups), Named(old)
  PROVE  Appending(groups, old, Joined(groups, old), Len(old))
<1> DEFINE J == Joining(groups, old)
           N == Len(old)
           Lacking == {n \in 0..N : ~Appending(groups, old, J[n], n)}
<1>1. N \in Nat /\ Len(groups) \in Nat
  BY DEF Named, IsSequence
<1>2. Appending(groups, old, J[0], 0)
  <2>1. J[0] = groups
    BY <1>1, JoiningSteps
  <2> HIDE DEF J
  <2>2. QED
    BY <1>1, <2>1 DEF Appending, Named
<1>3. ASSUME NEW k \in 1..N, Appending(groups, old, J[k - 1], k - 1)
      PROVE  Appending(groups, old, J[k], k)
  <2>1. J[k] = Append(J[k - 1], FreeName(old[k], Range(J[k - 1])))
    BY <1>1, JoiningSteps
  <2> HIDE DEF J
  <2>2. QED
    BY <1>3, <2>1, AppendingOne
<1> SUFFICES ASSUME ~Appending(groups, old, J[N], N) PROVE FALSE
  BY DEF Joined
<1> HIDE DEF J, N
<1>4. N \in Lacking /\ Lacking \in SUBSET Nat
  BY <1>1
<1>5. PICK k \in Lacking : \A j \in Lacking : ~(j < k)
  <2> HIDE DEF Lacking
  <2>1. QED
    BY <1>4, LeastOf
<1>6. k # 0 /\ k \in 1..N
  BY <1>1, <1>2, <1>5
<1>7. k - 1 \in 0..N /\ k - 1 < k
  BY <1>1, <1>6
<1>8. Appending(groups, old, J[k - 1], k - 1)
  BY <1>5, <1>7
<1>9. QED
  BY <1>3, <1>5, <1>6, <1>8

-----------------------------------------------------------------------------
(* Links and their groups                                                  *)

(* Before 008 they are as they were, and a link is in a group of the table *)
(* its column refers to; ...                                               *)
Untouched ==
  /\ data.groups = origin.groups /\ data.oldGroups = origin.oldGroups /\ data.links = origin.links
  /\ "link_groups" \notin has => origin.oldGroups = << >>
  /\ \A l \in DOMAIN origin.links : origin.links[l] # None =>
       /\ "link_group_id" \in has
       /\ origin.links[l] \in DOMAIN (IF "link_groups" \in has THEN origin.oldGroups ELSE origin.groups)

(* ... and then they are what it has made of them, for good: nothing makes *)
(* the old table again once links have their column.                       *)
Joint ==
  /\ "link_groups" \notin has /\ "link_group_id" \in has
  /\ data.oldGroups = << >> /\ data.groups = Joined(origin.groups, origin.oldGroups)
  /\ data.links = [l \in DOMAIN origin.links |-> Renumbered(origin.links[l], Len(origin.groups))]
  /\ \A l \in DOMAIN origin.links : origin.links[l] # None => origin.links[l] \in DOMAIN origin.oldGroups

Grouping ==
  /\ Named(origin.groups) /\ Named(origin.oldGroups)
  /\ Untouched \/ Joint
  /\ pc \in {"clear_units", "unit_index", "unify"} => "link_group_id" \in has

LEMMA InitGrouping == Init => Grouping
<1> SUFFICES ASSUME Init PROVE Grouping
  OBVIOUS
<1>1. PICK old \in Old : has = old.has /\ data = old.data
  BY DEF Init
<1>2. pc = "down" /\ origin = data
  BY DEF Init
<1>3. Named(data.groups) /\ Named(data.oldGroups) /\ ("link_groups" \notin has => data.oldGroups = << >>)
  BY <1>1, StartupAssumption
<1>4. \A l \in DOMAIN data.links : data.links[l] # None =>
        /\ "link_group_id" \in has
        /\ data.links[l] \in DOMAIN (IF "link_groups" \in has THEN data.oldGroups ELSE data.groups)
  BY <1>1, StartupAssumption
<1>5. QED
  BY <1>2, <1>3, <1>4 DEF Grouping, Untouched

LEMMA UnifyGrouping ==
  ASSUME Shape, Grouping, Unify
  PROVE  Grouping'
<1>1. pc' = "tls" /\ origin' = origin
  BY DEF Unify, Goto
<1>2. CASE "link_groups" \notin has
  <2>1. has' = has /\ data' = data
    BY <1>2 DEF Unify
  <2>2. QED
    BY <1>1, <2>1 DEF Grouping, Untouched, Joint
<1>3. CASE "link_groups" \in has
  <2>1. Untouched /\ "link_group_id" \in has
    BY <1>3 DEF Grouping, Joint, Unify
  <2>2. /\ has' = has \ {"link_groups"}
        /\ data'.groups = Joined(data.groups, data.oldGroups) /\ data'.oldGroups = << >>
        /\ data'.links = [l \in DOMAIN data.links |-> Renumbered(data.links[l], Len(data.groups))]
    BY <1>3 DEF Unify, Shape, Fields
  <2>3. Joint'
    BY <1>1, <1>3, <2>1, <2>2 DEF Joint, Untouched
  <2>4. QED
    BY <1>1, <2>3 DEF Grouping
<1>4. QED
  BY <1>2, <1>3

(* All other statements leave the names and the links alone; and one makes *)
(* the old table only where no link can be in a group.                     *)
LEMMA GroupingKept ==
  ASSUME Grouping, origin' = origin,
         data'.groups = data.groups, data'.oldGroups = data.oldGroups, data'.links = data.links,
         "link_groups" \in has => "link_groups" \in has',
         "link_groups" \in has' => "link_groups" \in has \/ "link_group_id" \notin has,
         "link_group_id" \in has => "link_group_id" \in has',
         pc' \in {"clear_units", "unit_index", "unify"} => "link_group_id" \in has'
  PROVE  Grouping'
<1>1. Untouched => Untouched'
  BY DEF Untouched
<1>2. Joint => Joint'
  BY DEF Joint
<1>3. QED
  BY <1>1, <1>2 DEF Grouping

LEMMA AddColumnGrouping ==
  ASSUME Grouping, NEW at, NEW column, NEW next, AddColumn(at, column, next), column # "link_groups",
         next \in {"clear_units", "unit_index", "unify"} => column = "link_group_id",
         at \notin {"clear_units", "unit_index", "unify"}
  PROVE  Grouping'
<1>1. /\ origin' = origin /\ data' = data /\ pc' \in {next, "down"}
      /\ has' \in {has, has \cup {column}} /\ (pc' = next => column \in has' \/ pc' = "down")
  BY DEF AddColumn, Goto, Die, Missing
<1>2. QED
  BY <1>1, GroupingKept

LEMMA StartGrouping ==
  ASSUME Shape, Grouping, Start
  PROVE  Grouping'
<1>1. CASE AddSource \/ AddRole \/ AddColor \/ AddLinkGroupId \/ AddTls
  BY <1>1, AddColumnGrouping DEF AddSource, AddRole, AddColor, AddLinkGroupId, AddTls
<1>2. CASE Load \/ InitTables \/ CreateDismissed \/ CreateLinkGroups \/ CreateChannels \/ ReadMode
  <2>1. UNCHANGED <<data, origin>>
    BY <1>2 DEF Load, InitTables, CreateMissing, CreateDismissed, CreateLinkGroups, CreateChannels,
                ReadMode, schemaVars
  <2>2. /\ "link_groups" \in has => "link_groups" \in has'
        /\ "link_groups" \in has' => "link_groups" \in has \/ "link_group_id" \notin has
        /\ "link_group_id" \in has => "link_group_id" \in has'
        /\ pc' \in {"clear_units", "unit_index", "unify"} => "link_group_id" \in has'
    BY <1>2 DEF Load, InitTables, CreateMissing, CreateDismissed, CreateLinkGroups, CreateChannels,
                ReadMode, schemaVars, Goto, Die
  <2>3. QED
    BY <2>1, <2>2, GroupingKept
<1>3. CASE ClearUnits \/ CreateUnitIndex \/ CreateWide \/ CopyChannels \/ DropChannels \/ RenameWide
  <2>1. /\ origin' = origin /\ data'.groups = data.groups
        /\ data'.oldGroups = data.oldGroups /\ data'.links = data.links
    BY <1>3 DEF ClearUnits, CreateUnitIndex, CreateWide, CopyChannels, DropChannels, RenameWide,
                Shape, Fields
  <2>2. /\ "link_groups" \in has' <=> "link_groups" \in has
        /\ "link_group_id" \in has' <=> "link_group_id" \in has
        /\ pc' \in {"clear_units", "unit_index", "unify"} => pc \in {"clear_units", "unit_index"}
    BY <1>3 DEF ClearUnits, CreateUnitIndex, CreateWide, CopyChannels, DropChannels, RenameWide,
                Goto, Die
  <2>3. QED
    BY <2>1, <2>2, GroupingKept DEF Grouping
<1>4. QED
  BY <1>1, <1>2, <1>3, UnifyGrouping DEF Start

LEMMA StepGrouping ==
  ASSUME Shape, Grouping, [Next]_vars
  PROVE  Grouping'
<1>1. CASE Start
  BY <1>1, StartGrouping
<1>2. CASE ~Start
  <2>1. UNCHANGED <<has, data, origin>> /\ pc' \in {pc, "down"}
    BY <1>2 DEF Next, Crash, SetAuthMode, GetAuthMode, EditConfig, vars, schemaVars
  <2>2. QED
    BY <2>1, GroupingKept DEF Grouping
<1>3. QED
  BY <1>1, <1>2

LEMMA NameOf ==
  ASSUME NEW groups, Named(groups), NEW g \in DOMAIN groups
  PROVE  IsSequence(groups[g]) /\ groups # << >> /\ DOMAIN groups = 1..Len(groups) /\ Len(groups) \in Nat
<1>1. IsSequence(groups[g])
  BY DEF Named, Range
<1>2. groups # << >>
  OBVIOUS
<1>3. QED
  BY <1>1, <1>2 DEF Named, IsSequence

LEMMA UntouchedKept ==
  ASSUME Grouping, Untouched
  PROVE  LinksKept /\ IsPrefix(origin.groups, data.groups) /\ IsInjective(data.groups)
<1>1. data.links = origin.links /\ data.groups = origin.groups /\ data.oldGroups = origin.oldGroups
  BY DEF Untouched
<1>2. ASSUME NEW l \in DOMAIN origin.links, origin.links[l] # None
      PROVE  IsPrefix(GroupName(origin, l), GroupName(data, l))
  <2> DEFINE g == origin.links[l]
             name == GroupName(origin, l)
  <2>1. GroupName(data, l) = name
    BY <1>1 DEF GroupName
  <2>2. IsSequence(name)
    <3>1. CASE "link_groups" \in has
      <4>1. g \in DOMAIN origin.oldGroups
        BY <1>2, <3>1 DEF Untouched
      <4>2. IsSequence(origin.oldGroups[g]) /\ origin.oldGroups # << >>
        BY <4>1, NameOf DEF Grouping
      <4>3. QED
        BY <1>2, <4>2 DEF GroupName
    <3>2. CASE "link_groups" \notin has
      <4>1. g \in DOMAIN origin.groups /\ origin.oldGroups = << >>
        BY <1>2, <3>2 DEF Untouched
      <4>2. IsSequence(origin.groups[g])
        BY <4>1, NameOf DEF Grouping
      <4>3. QED
        BY <1>2, <4>1, <4>2 DEF GroupName
    <3>3. QED
      BY <3>1, <3>2
  <2> HIDE DEF name
  <2>3. IsPrefix(name, name)
    BY <2>2, PrefixSame
  <2>4. QED
    BY <2>1, <2>3 DEF name
<1>3. LinksKept
  BY <1>1, <1>2 DEF LinksKept
<1>4. QED
  BY <1>1, <1>3, PrefixSame DEF Grouping, Named

LEMMA JointKept ==
  ASSUME Grouping, Joint
  PROVE  LinksKept /\ IsPrefix(origin.groups, data.groups) /\ IsInjective(data.groups)
<1> DEFINE G == origin.groups
           O == origin.oldGroups
           D == data.groups
           n == Len(G)
<1>1. Named(G) /\ Named(O) /\ Appending(G, O, D, Len(O))
  BY JoinedNames DEF Grouping, Joint
<1>2. n \in Nat /\ Len(O) \in Nat /\ IsSequence(G)
  BY <1>1 DEF Named, IsSequence
<1>3. IsSequence(D) /\ IsInjective(D) /\ Len(D) = n + Len(O) /\ \A k \in 1..n : D[k] = G[k]
  BY <1>1 DEF Appending
<1>4. IsPrefix(G, D)
  <2> DEFINE c == Len(O)
  <2>1. n \in Nat /\ c \in Nat /\ Len(D) = n + c
    BY <1>2, <1>3
  <2> HIDE DEF G, D, c
  <2>2. Len(G) <= Len(D)
    BY <2>1 DEF n
  <2>3. QED
    BY <1>2, <1>3, <2>2, PrefixOf DEF n
<1>5. ASSUME NEW l \in DOMAIN origin.links, origin.links[l] # None
      PROVE  /\ origin.links[l] \in 1..Len(O) /\ data.links[l] = n + origin.links[l]
             /\ data.links[l] # None
             /\ data.links[l] \notin DOMAIN G
             /\ IsPrefix(GroupName(origin, l), GroupName(data, l))
  <2> DEFINE g == origin.links[l]
  <2>1. g \in DOMAIN O /\ data.links[l] = n + g /\ data.oldGroups = << >>
    BY <1>5 DEF Joint, Renumbered
  <2>2. g \in 1..Len(O) /\ O # << >>
    BY <1>1, <2>1, NameOf
  <2>3. n + g # None
    BY <1>2, <2>2, StartupAssumption
  <2>4. IsPrefix(O[g], D[n + g])
    BY <1>1, <2>2 DEF Appending
  <2>5. GroupName(origin, l) = O[g] /\ GroupName(data, l) = D[n + g]
    BY <1>5, <2>1, <2>2, <2>3 DEF GroupName
  <2>6. n + g \notin DOMAIN G
    <3>1. DOMAIN G = 1..n /\ g \in Nat \ {0}
      BY <1>2, <2>2 DEF IsSequence
    <3> HIDE DEF G, n, g
    <3>2. QED
      BY <1>2, <3>1
  <2>7. QED
    BY <2>1, <2>2, <2>3, <2>4, <2>5, <2>6
<1>6. ASSUME NEW l \in DOMAIN origin.links, origin.links[l] = None PROVE data.links[l] = None
  BY <1>6 DEF Joint, Renumbered
<1>7. LinksKept
  <2>1. ASSUME NEW l \in DOMAIN origin.links, NEW m \in DOMAIN origin.links
        PROVE  (origin.links[l] = origin.links[m]) = (data.links[l] = data.links[m])
    <3>1. CASE origin.links[l] = None \/ origin.links[m] = None
      BY <1>5, <1>6, <3>1
    <3>2. CASE origin.links[l] # None /\ origin.links[m] # None
      <4>1. /\ origin.links[l] \in Nat /\ data.links[l] = n + origin.links[l]
            /\ origin.links[m] \in Nat /\ data.links[m] = n + origin.links[m]
        BY <1>2, <1>5, <3>2
      <4> HIDE DEF n
      <4>2. QED
        BY <1>2, <4>1
    <3>3. QED
      BY <3>1, <3>2
  <2>2. QED
    BY <1>5, <1>6, <2>1 DEF LinksKept
<1>8. QED
  BY <1>3, <1>4, <1>7

(* However often a start is stopped, no row is lost: links stay in their   *)
(* groups, which keep their names but for a number and are not merged; a   *)
(* unit is claimed by the service that claimed it first; the channels are  *)
(* in one of the two tables, in the right one once the server serves (007, *)
(* 008, 011).                                                              *)
THEOREM RowsKept == Spec => []DataKept
<1>1. Sound => UnitsKept
  <2> SUFFICES ASSUME Sound, NEW s \in DOMAIN origin.units
               PROVE  \/ data.units[s] = origin.units[s]
                      \/ /\ data.units[s] = None
                         /\ \E e \in 1..(s - 1) : data.units[e] = origin.units[s]
    BY DEF UnitsKept
  <2>1. \A e \in DOMAIN origin.units : e < s => e \in 1..(s - 1)
    BY DEF Sound, Shape
  <2>2. QED
    BY <2>1 DEF Sound, Claims
<1>2. Sound => ChannelsKept
  BY DEF Sound, Held, ChannelsKept
<1>3. Grouping => LinksKept /\ IsPrefix(origin.groups, data.groups) /\ IsInjective(data.groups)
  BY UntouchedKept, JointKept DEF Grouping
<1>4. Sound /\ Grouping => DataKept
  BY <1>1, <1>2, <1>3 DEF DataKept
<1>5. Sound /\ Grouping /\ [Next]_vars => Grouping'
  BY StepGrouping DEF Sound
<1>6. QED
  BY <1>4, <1>5, InitGrouping, StartsSound, PTL DEF Spec
=============================================================================
