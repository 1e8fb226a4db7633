------------------------- MODULE RolloutRecorderProofs --------------------------
(* Proofs about the rollout recorder (RolloutRecorder), for any number of      *)
(* callers, items, faults and crashes and any capacity of the channel.         *)
EXTENDS RolloutRecorder, SequenceTheorems, TLAPS

USE RolloutAssumption DEF RolloutAssumption

File == [records : Seq(Record), tail : {"clean", "torn", "bare"}, firstBad : BOOLEAN]

-----------------------------------------------------------------------------
(* The file *)

LEMMA OrdinalType ==
    ASSUME NEW n \in Nat
    PROVE  Ordinal(n) \in Nat \cup {NoOrdinal} /\ Advance(n) \in Nat
  BY DEF Ordinal, Advance, NoOrdinal

LEMMA NextOrdinalType ==
    ASSUME NEW f \in File, f.records # <<>>
    PROVE  NextOrdinal(f) \in Nat
  <1>1. f.records \in Seq(Record) /\ Len(f.records) \in 1..Len(f.records)
    BY DEF File
  <1>2. f.records[Len(f.records)] \in Record
    BY <1>1
  <1> QED
    BY <1>2 DEF NextOrdinal, Record, NoOrdinal

(* A line written after a clean one adds a record or nothing that parses.      *)
LEMMA AppendToClean ==
    ASSUME NEW f \in File, f.tail = "clean", NEW r \in Record,
           NEW how \in {"line", "torn", "bare"}
    PROVE  /\ AppendBytes(f, r, how) \in File
           /\ AppendBytes(f, r, how).records = IF how = "torn" THEN f.records
                                               ELSE Append(f.records, r)
           /\ how = "line" => AppendBytes(f, r, how).tail = "clean"
  <1>1. Append(f.records, r) \in Seq(Record) /\ f.records \in Seq(Record)
    BY DEF File
  <1> QED
    BY <1>1 DEF AppendBytes, File

LEMMA NewlineType ==
    ASSUME NEW f \in File
    PROVE  /\ NewlineTerminated(f) \in File
           /\ NewlineTerminated(f).records = f.records
           /\ NewlineTerminated(f).tail = "clean"
  BY DEF NewlineTerminated, File

(* What is in the file stays there when records are appended.                  *)
ItemsOf(f) == {f.records[k].item : k \in DOMAIN f.records}

LEMMA ItemsKept ==
    ASSUME NEW f \in File, f.tail = "clean", NEW r \in Record,
           NEW how \in {"line", "torn", "bare"}
    PROVE  /\ ItemsOf(f) \subseteq ItemsOf(AppendBytes(f, r, how))
           /\ how = "line" => r.item \in ItemsOf(AppendBytes(f, r, how))
  <1> DEFINE g == AppendBytes(f, r, how)
  <1>1. g.records = IF how = "torn" THEN f.records ELSE Append(f.records, r)
    BY AppendToClean
  <1>2. f.records \in Seq(Record)
    BY DEF File
  <1>3. \A k \in DOMAIN f.records : k \in DOMAIN g.records /\ g.records[k] = f.records[k]
    BY <1>1, <1>2
  <1>4. how = "line" => /\ Len(f.records) + 1 \in DOMAIN g.records
                        /\ g.records[Len(f.records) + 1] = r
    BY <1>1, <1>2
  <1> HIDE DEF g
  <1> QED
    BY <1>3, <1>4 DEF ItemsOf, g

-----------------------------------------------------------------------------
(* The inductive invariant *)

(* Where item x is by now: in the file, in the buffer, or in one of the first  *)
(* m commands of the channel.                                                  *)
Reached(x, m) ==
    \/ x \in Written
    \/ \E k \in DOMAIN pending : pending[k] = x
    \/ \E k \in 1..m : \E i \in DOMAIN chan[k].items : chan[k].items[i] = x

(* Only a clean file is written to, and only while a command is worked on.     *)
WriterSound ==
    /\ up /\ opened => file.tail = "clean"
    /\ step \in {"meta", "items"} => opened
    /\ step # "recv" => up /\ cmd \in Command
    /\ ~up => chan = <<>>
    /\ \A m \in 1..Len(chan) : chan[m].op \in Barriers => chan[m].items = <<>>

(* No accepted item is lost on its way, and a barrier is behind all it covers. *)
NothingLost == up => \A x \in born..(nextItem - 1) : Reached(x, Len(chan))
BarriersBehind ==
    /\ \A m \in 1..Len(chan) :
          chan[m].op \in Barriers => \A x \in born..chan[m].upto : Reached(x, m - 1)
    /\ step # "recv" /\ cmd.op \in Barriers =>
          \A x \in born..cmd.upto : Reached(x, 0)

Inv == TypeOK /\ WriterSound /\ NothingLost /\ BarriersBehind /\ AckedIsDurable

-----------------------------------------------------------------------------
(* Types *)

LEMMA AnswerType ==
    ASSUME TypeOK, NEW c \in Command, NEW ok \in BOOLEAN, Answer(c, ok),
           step = "recv" => chan # <<>>
    PROVE  /\ cmd' = NoCommand /\ step' = "recv" /\ attempt' = 1
           /\ promised' \subseteq Items
           /\ up' \in BOOLEAN /\ chan' \in Seq(Command)
           /\ client' \in [Clients -> {"idle", "wait"}]
  <1>1. promised' \subseteq Items
    <2>1. promised' \in {promised, promised \cup born..c.upto}
      BY DEF Answer
    <2>2. c.upto \in Items /\ born \in 1..MaxItems + 1 /\ promised \subseteq Items
      BY DEF TypeOK, Command
    <2> QED
      BY <2>1, <2>2 DEF Items
  <1>2. chan # <<>> => Tail(chan) \in Seq(Command)
    BY HeadTailProperties DEF TypeOK
  <1>3. up' \in BOOLEAN /\ chan' \in Seq(Command)
    <2>1. \/ up' = FALSE /\ chan' = <<>>
          \/ up' = up /\ step = "recv" /\ chan' = Tail(chan)
          \/ up' = up /\ chan' = chan
      BY DEF Answer
    <2>2. up \in BOOLEAN /\ chan \in Seq(Command) /\ <<>> \in Seq(Command)
      BY DEF TypeOK
    <2> QED
      BY <1>2, <2>1, <2>2
  <1>4. client' \in [Clients -> {"idle", "wait"}]
    BY DEF Answer, TypeOK, Command
  <1> QED
    BY <1>1, <1>3, <1>4 DEF Answer

LEMMA RecoverType ==
    ASSUME TypeOK, Recover, step # "recv", cmd \in Command
    PROVE  /\ opened' = FALSE /\ attempt' \in {1, 2}
           /\ step' \in {"recv", "open"} /\ cmd' \in Command \cup {NoCommand}
           /\ step' # "recv" => cmd' = cmd /\ UNCHANGED <<up, chan>>
           /\ promised' = promised
           /\ up' = up /\ chan' = chan
           /\ client' \in [Clients -> {"idle", "wait"}]
  <1>1. CASE attempt = 1
    BY <1>1 DEF Recover, TypeOK
  <1>2. CASE attempt # 1
    <2>1. Answer(cmd, FALSE) /\ opened' = FALSE
      BY <1>2 DEF Recover
    <2>2. up' = up /\ chan' = chan /\ promised' = promised
      BY <2>1 DEF Answer
    <2> QED
      BY <2>1, <2>2, AnswerType
  <1> QED
    BY <1>1, <1>2

LEMMA LineType ==
    ASSUME TypeOK, WriterSound, up, Writing
    PROVE  Line \in Record /\ file \in File /\ file.tail = "clean"
  <1>1. step = "items" => Head(pending) \in Items
    BY HeadTailProperties DEF Writing, TypeOK
  <1>2. file \in File /\ file.tail = "clean"
    BY DEF Writing, TypeOK, WriterSound, File
  <1>3. Ordinal(next) \in Nat \cup {NoOrdinal}
    BY OrdinalType DEF TypeOK
  <1>4. 0 \in Items /\ (step = "meta" \/ step = "items")
    BY DEF Items, Writing
  <1>5. Line \in Record
    BY <1>1, <1>3, <1>4 DEF Line, Record, SessionMeta
  <1> QED
    BY <1>2, <1>5

(* What a write that fails leaves is a file that has lost nothing.             *)
LEMMA PartialType ==
    ASSUME TypeOK, WriterSound, up, Writing, NEW f \in Partial
    PROVE  f \in File /\ ItemsOf(file) \subseteq ItemsOf(f)
  BY LineType, AppendToClean, ItemsKept DEF Partial

LEMMA InitType == Init => TypeOK
  <1> SUFFICES ASSUME Init PROVE TypeOK
    OBVIOUS
  <1>1. <<>> \in Seq(Record) /\ <<>> \in Seq(Command) /\ <<>> \in Seq(Items \ {SessionMeta})
    OBVIOUS
  <1>2. file \in [records : Seq(Record), tail : {"clean", "torn", "bare"},
                  firstBad : BOOLEAN]
    BY <1>1 DEF Init
  <1>3. client \in [Clients -> {"idle", "wait"}]
    BY DEF Init
  <1>4. /\ next \in Nat /\ attempt \in {1, 2} /\ promised \subseteq Items
        /\ nextItem \in 1..MaxItems + 1 /\ born \in 1..MaxItems + 1
        /\ faults \in 0..MaxFaults /\ crashes \in 0..MaxCrashes
    BY DEF Init
  <1>5. /\ exists \in BOOLEAN /\ mode \in {"legacy", "paginated"}
        /\ up \in BOOLEAN /\ opened \in BOOLEAN /\ deferred \in BOOLEAN
        /\ meta \in BOOLEAN /\ step \in {"recv", "open", "meta", "items"}
    BY DEF Init
  <1>6. /\ chan \in Seq(Command) /\ pending \in Seq(Items \ {SessionMeta})
        /\ cmd \in Command \cup {NoCommand}
    BY <1>1 DEF Init
  <1> QED
    BY <1>2, <1>3, <1>4, <1>5, <1>6 DEF TypeOK

-----------------------------------------------------------------------------
(* Every action keeps the invariant *)

LEMMA InitInv == Init => Inv
  BY InitType DEF Init, Inv, WriterSound, NothingLost, BarriersBehind, AckedIsDurable,
                  Written

LEMMA RecordInv ==
    ASSUME Inv, NEW c \in Clients, NEW n \in 1..MaxBatch, RecordCanonicalItems(c, n)
    PROVE  Inv'
  <1> DEFINE its == [k \in 1..n |-> nextItem + k - 1]
             r == [op |-> "add", client |-> c, upto |-> 0, items |-> its]
  <1>1. /\ up /\ chan' = Append(chan, r) /\ nextItem' = nextItem + n
        /\ nextItem + n - 1 <= MaxItems
        /\ UNCHANGED <<exists, file, mode, pending, meta, opened, deferred, next, up,
                       cmd, step, attempt, born, client, promised, faults, crashes>>
    BY DEF RecordCanonicalItems, fileVars, writerVars, taskVars
  <1>2. its \in Seq(Items \ {SessionMeta}) /\ DOMAIN its = 1..n
    <2>1. \A k \in 1..n : nextItem + k - 1 \in Items \ {SessionMeta}
      BY <1>1 DEF Inv, TypeOK, Items, SessionMeta
    <2>2. its \in [1..n -> Items \ {SessionMeta}]
      BY <2>1
    <2> QED
      BY <2>2, SeqDef
  <1>3. r \in Command /\ r.op = "add" /\ r.items = its
    BY <1>2 DEF Command, Items, Barriers
  <1>0. PICK L \in Nat : L = Len(chan)
    BY DEF Inv, TypeOK
  <1>4. /\ chan' \in Seq(Command) /\ Len(chan') = L + 1
        /\ \A k \in 1..L : chan'[k] = chan[k]
        /\ chan'[L + 1] = r
    <2> HIDE DEF r
    <2>1. chan \in Seq(Command)
      BY DEF Inv, TypeOK
    <2> QED
      BY <1>0, <1>1, <1>3, <2>1, AppendProperties
  <1>5. nextItem' \in 1..MaxItems + 1
    BY <1>1 DEF Inv, TypeOK
  <1>6. TypeOK'
    BY <1>1, <1>4, <1>5 DEF Inv, TypeOK
  <1>7. WriterSound' /\ AckedIsDurable'
    <2>1. \A m \in 1..L + 1 : chan'[m].op \in Barriers => chan'[m].items = <<>>
      BY <1>0, <1>3, <1>4 DEF Inv, WriterSound, Barriers
    <2> QED
      BY <1>1, <1>4, <2>1 DEF Inv, WriterSound, AckedIsDurable, Written
  <1>8. ASSUME NEW x, NEW m \in 0..L, Reached(x, m)
        PROVE  Reached(x, m)'
    <2>1. Written' = Written /\ pending' = pending /\ \A k \in 1..m : chan'[k] = chan[k]
      BY <1>1, <1>4 DEF Written
    <2> QED
      BY <1>8, <2>1 DEF Reached
  <1>9. \A x \in nextItem..(nextItem + n - 1) : \E i \in DOMAIN its : its[i] = x
    <2> TAKE x \in nextItem..(nextItem + n - 1)
    <2>1. x - nextItem + 1 \in 1..n
      BY DEF Inv, TypeOK
    <2>2. its[x - nextItem + 1] = x
      BY <2>1 DEF Inv, TypeOK
    <2> QED
      BY <1>2, <2>1, <2>2
  <1> HIDE DEF its, r
  <1>10. NothingLost'
    <2> SUFFICES ASSUME NEW x \in born..(nextItem + n - 1)
                 PROVE  Reached(x, L + 1)'
      <3>1. nextItem' - 1 = nextItem + n - 1 /\ born' = born
        BY <1>1 DEF Inv, TypeOK
      <3> QED
        BY <1>4, <3>1 DEF NothingLost
    <2>1. CASE x \in born..(nextItem - 1)
      <3>1. Reached(x, L)
        BY <1>0, <1>1, <2>1 DEF Inv, NothingLost
      <3>2. Reached(x, L)'
        BY <1>8, <3>1
      <3>3. \A k \in 1..L : k \in 1..(L + 1)
        OBVIOUS
      <3> QED
        BY <3>2, <3>3 DEF Reached
    <2>2. CASE x \in nextItem..(nextItem + n - 1)
      <3>1. PICK i \in DOMAIN its : its[i] = x
        BY <1>9, <2>2
      <3>2. L + 1 \in 1..(L + 1)
        OBVIOUS
      <3> QED
        BY <1>3, <1>4, <3>1, <3>2 DEF Reached
    <2> QED
      BY <2>1, <2>2 DEF Inv, TypeOK
  <1>11. BarriersBehind'
    <2>1. ASSUME NEW m \in 1..(L + 1), chan'[m].op \in Barriers,
                 NEW x \in born..chan'[m].upto
          PROVE  Reached(x, m - 1)'
      <3>1. m \in 1..L /\ m - 1 \in 0..L
        BY <1>3, <1>4, <2>1 DEF Barriers
      <3> QED
        BY <1>0, <1>4, <1>8, <2>1, <3>1 DEF Inv, BarriersBehind
    <2>2. ASSUME step # "recv", cmd.op \in Barriers, NEW x \in born..cmd.upto
          PROVE  Reached(x, 0)'
      BY <1>8, <2>2 DEF Inv, BarriersBehind
    <2> QED
      BY <1>1, <1>4, <2>1, <2>2 DEF BarriersBehind
  <1> QED
    BY <1>6, <1>7, <1>10, <1>11 DEF Inv

LEMMA RequestInv ==
    ASSUME Inv, NEW c \in Clients, NEW op \in Barriers, Request(c, op)
    PROVE  Inv'
  <1> DEFINE r == [op |-> op, client |-> c, upto |-> nextItem - 1, items |-> <<>>]
  <1>1. /\ up /\ chan' = Append(chan, r)
        /\ UNCHANGED <<exists, file, mode, pending, meta, opened, deferred, next, up,
                       cmd, step, attempt, nextItem, born, promised, faults, crashes>>
    BY DEF Request, fileVars, writerVars, taskVars, historyVars
  <1>2. client' \in [Clients -> {"idle", "wait"}]
    BY DEF Request, Inv, TypeOK
  <1>3. r \in Command /\ r.items = <<>> /\ r.upto = nextItem - 1
    <2>1. nextItem - 1 \in Items /\ <<>> \in Seq(Items \ {SessionMeta})
      BY DEF Inv, TypeOK, Items
    <2> QED
      BY <2>1 DEF Command
  <1>0. PICK L \in Nat : L = Len(chan)
    BY DEF Inv, TypeOK
  <1> HIDE DEF r
  <1>4. /\ chan' \in Seq(Command) /\ Len(chan') = L + 1
        /\ \A k \in 1..L : chan'[k] = chan[k]
        /\ chan'[L + 1] = r
    <2>1. chan \in Seq(Command)
      BY DEF Inv, TypeOK
    <2> QED
      BY <1>0, <1>1, <1>3, <2>1, AppendProperties
  <1>5. TypeOK'
    BY <1>1, <1>2, <1>4 DEF Inv, TypeOK
  <1>6. WriterSound' /\ AckedIsDurable'
    <2>1. \A m \in 1..L + 1 : chan'[m].op \in Barriers => chan'[m].items = <<>>
      BY <1>0, <1>3, <1>4 DEF Inv, WriterSound
    <2> QED
      BY <1>1, <1>4, <2>1 DEF Inv, WriterSound, AckedIsDurable, Written
  <1>7. ASSUME NEW x, NEW m \in 0..L, Reached(x, m)
        PROVE  Reached(x, m)'
    <2>1. Written' = Written /\ pending' = pending /\ \A k \in 1..m : chan'[k] = chan[k]
      BY <1>1, <1>4 DEF Written
    <2> QED
      BY <1>7, <2>1 DEF Reached
  <1>8. \A x \in born..(nextItem - 1) : Reached(x, L)'
    BY <1>0, <1>1, <1>7 DEF Inv, NothingLost
  <1>9. NothingLost'
    <2>1. \A k \in 1..L : k \in 1..(L + 1)
      OBVIOUS
    <2>2. \A x \in born..(nextItem - 1) : Reached(x, L + 1)'
      BY <1>8, <2>1 DEF Reached
    <2> QED
      BY <1>1, <1>4, <2>2 DEF NothingLost
  <1>10. BarriersBehind'
    <2>1. ASSUME NEW m \in 1..(L + 1), chan'[m].op \in Barriers,
                 NEW x \in born..chan'[m].upto
          PROVE  Reached(x, m - 1)'
      <3>1. CASE m \in 1..L
        BY <1>0, <1>4, <1>7, <2>1, <3>1 DEF Inv, BarriersBehind
      <3>2. CASE m = L + 1
        BY <1>3, <1>4, <1>8, <2>1, <3>2
      <3> QED
        BY <3>1, <3>2
    <2>2. ASSUME step # "recv", cmd.op \in Barriers, NEW x \in born..cmd.upto
          PROVE  Reached(x, 0)'
      BY <1>7, <2>2 DEF Inv, BarriersBehind
    <2> QED
      BY <1>1, <1>4, <2>1, <2>2 DEF BarriersBehind
  <1> QED
    BY <1>5, <1>6, <1>9, <1>10 DEF Inv

(* The head of the channel goes: what it brings is in the buffer by then, and  *)
(* every other command moves up.                                               *)
LEMMA Shift ==
    ASSUME Inv, chan # <<>>, chan' = Tail(chan), Written \subseteq Written',
           \A k \in DOMAIN pending : \E l \in DOMAIN pending' : pending'[l] = pending[k],
           \A i \in DOMAIN chan[1].items :
               \E l \in DOMAIN pending' : pending'[l] = chan[1].items[i]
    PROVE  /\ chan' \in Seq(Command) /\ Len(chan) \in Nat /\ Len(chan') = Len(chan) - 1
           /\ \A k \in 1..Len(chan') : chan'[k] = chan[k + 1]
           /\ \A m \in 1..Len(chan) : \A x : Reached(x, m) => Reached(x, m - 1)'
           /\ \A x : Reached(x, 0) => Reached(x, 0)'
  <1>1. chan \in Seq(Command)
    BY DEF Inv, TypeOK
  <1>2. /\ chan' \in Seq(Command) /\ Len(chan) \in Nat /\ Len(chan') = Len(chan) - 1
        /\ \A k \in 1..Len(chan') : chan'[k] = chan[k + 1]
    BY <1>1, HeadTailProperties
  <1>3. ASSUME NEW m \in 1..Len(chan), NEW x, Reached(x, m)
        PROVE  Reached(x, m - 1)'
    <2>1. CASE x \in Written \/ \E k \in DOMAIN pending : pending[k] = x
      BY <2>1 DEF Reached
    <2>2. ASSUME NEW k \in 1..m, NEW i \in DOMAIN chan[k].items, chan[k].items[i] = x
          PROVE  Reached(x, m - 1)'
      <3>1. CASE k = 1
        BY <2>2, <3>1 DEF Reached
      <3>2. CASE k # 1
        <4>1. k - 1 \in 1..(m - 1) /\ k - 1 \in 1..Len(chan') /\ (k - 1) + 1 = k
          BY <1>2, <3>2
        <4>2. chan'[k - 1] = chan[k]
          BY <1>2, <4>1
        <4> QED
          BY <2>2, <4>1, <4>2 DEF Reached
      <3> QED
        BY <3>1, <3>2
    <2> QED
      BY <1>3, <2>1, <2>2 DEF Reached
  <1>4. \A x : Reached(x, 0) => Reached(x, 0)'
    BY DEF Reached
  <1> QED
    BY <1>2, <1>3, <1>4

(* So nothing is lost, and the barriers that remain are behind what they cover.*)
LEMMA ShiftInv ==
    ASSUME Inv, chan # <<>>, chan' = Tail(chan), Written \subseteq Written',
           \A k \in DOMAIN pending : \E l \in DOMAIN pending' : pending'[l] = pending[k],
           \A i \in DOMAIN chan[1].items :
               \E l \in DOMAIN pending' : pending'[l] = chan[1].items[i],
           UNCHANGED <<up, nextItem, born>>
    PROVE  /\ NothingLost'
           /\ \A m \in 1..Len(chan') : chan'[m].op \in Barriers =>
                 chan'[m].items = <<>> /\ \A x \in born'..chan'[m].upto : Reached(x, m - 1)'
  <1>0. Len(chan') \in Nat /\ Len(chan) = Len(chan') + 1
    <2>1. chan \in Seq(Command)
      BY DEF Inv, TypeOK
    <2> QED
      BY <2>1, HeadTailProperties
  <1>1. PICK L \in Nat : L = Len(chan') /\ Len(chan) = L + 1
    BY <1>0
  <1>2. /\ \A k \in 1..L : chan'[k] = chan[k + 1]
        /\ \A m \in 1..(L + 1) : \A x : Reached(x, m) => Reached(x, m - 1)'
    BY <1>1, Shift
  <1>3. NothingLost'
    <2>1. ASSUME up, NEW x \in born..(nextItem - 1)
          PROVE  Reached(x, L)'
      <3>1. Reached(x, L + 1) /\ L + 1 \in 1..(L + 1) /\ (L + 1) - 1 = L
        BY <1>1, <2>1 DEF Inv, NothingLost
      <3> QED
        BY <1>2, <3>1
    <2> QED
      BY <1>1, <2>1 DEF NothingLost
  <1>4. ASSUME NEW m \in 1..L, chan'[m].op \in Barriers
        PROVE  chan'[m].items = <<>> /\ \A x \in born..chan'[m].upto : Reached(x, m - 1)'
    <2>1. /\ chan'[m] = chan[m + 1] /\ m + 1 \in 1..Len(chan) /\ (m + 1) - 1 = m
          /\ m \in 1..(L + 1)
      BY <1>1, <1>2
    <2>2. \A x \in born..chan[m + 1].upto : Reached(x, m)
      BY <1>4, <2>1 DEF Inv, BarriersBehind
    <2> QED
      BY <1>2, <1>4, <2>1, <2>2 DEF Inv, WriterSound
  <1> QED
    BY <1>1, <1>3, <1>4

LEMMA ReceiveItemsInv == ASSUME Inv, ReceiveItems PROVE Inv'
  <1>1. /\ up /\ step = "recv" /\ chan # <<>> /\ Head(chan).op = "add"
        /\ pending' = pending \o Head(chan).items /\ chan' = Tail(chan)
        /\ UNCHANGED <<exists, file, mode, meta, opened, deferred, next, up, attempt,
                       client, nextItem, born, promised, faults, crashes>>
        /\ \/ UNCHANGED <<cmd, step>>
           \/ cmd' = Head(chan) /\ step' = "open"
    BY DEF ReceiveItems, fileVars, historyVars
  <1>2. Head(chan) \in Command /\ Head(chan) = chan[1]
    BY <1>1, HeadTailProperties DEF Inv, TypeOK
  <1>3. pending \in Seq(Items \ {SessionMeta}) /\ Head(chan).items \in Seq(Items \ {SessionMeta})
    BY <1>2 DEF Inv, TypeOK, Command
  <1>4. /\ pending' \in Seq(Items \ {SessionMeta})
        /\ \A k \in DOMAIN pending : k \in DOMAIN pending' /\ pending'[k] = pending[k]
    BY <1>1, <1>3, ConcatProperties, LenProperties
  <1>5. \A i \in DOMAIN chan[1].items : \E l \in DOMAIN pending' :
           pending'[l] = chan[1].items[i]
    <2> TAKE i \in DOMAIN chan[1].items
    <2>1. i \in 1..Len(Head(chan).items) /\ Len(pending) \in Nat
      BY <1>2, <1>3, LenProperties
    <2>2. Len(pending) + i \in DOMAIN pending' /\ pending'[Len(pending) + i] = chan[1].items[i]
      BY <1>1, <1>2, <1>3, <2>1, ConcatProperties, LenProperties
    <2> QED
      BY <2>2
  <1>6. Written' = Written
    BY <1>1 DEF Written
  <1>7. /\ chan' \in Seq(Command) /\ NothingLost'
        /\ \A m \in 1..Len(chan') : chan'[m].op \in Barriers =>
              chan'[m].items = <<>> /\ \A x \in born'..chan'[m].upto : Reached(x, m - 1)'
    BY <1>1, <1>4, <1>5, <1>6, Shift, ShiftInv
  <1>8. TypeOK'
    BY <1>1, <1>2, <1>4, <1>7 DEF Inv, TypeOK
  <1>9. WriterSound'
    BY <1>1, <1>2, <1>7 DEF Inv, WriterSound
  <1>10. BarriersBehind'
    <2>1. ~(step' # "recv" /\ cmd'.op \in Barriers)
      BY <1>1 DEF Barriers
    <2> QED
      BY <1>7, <2>1 DEF BarriersBehind
  <1>11. AckedIsDurable'
    BY <1>1, <1>6 DEF Inv, AckedIsDurable
  <1> QED
    BY <1>7, <1>8, <1>9, <1>10, <1>11 DEF Inv

(* A barrier is answered with Ok when the buffer is empty, so what it covers   *)
(* is in the file.                                                             *)
LEMMA AckInv ==
    ASSUME Inv, NEW c \in Command, Answer(c, TRUE), pending = <<>>,
           c.op \in Barriers => \A x \in born..c.upto : Reached(x, 0),
           step = "recv" => chan # <<>> /\ c = chan[1] /\ c.op \in Barriers,
           UNCHANGED <<exists, file, mode, pending, meta, opened, deferred, next,
                       nextItem, born, faults, crashes>>
    PROVE  Inv'
  <1>1. /\ cmd' = NoCommand /\ step' = "recv" /\ attempt' = 1
        /\ promised' \subseteq Items
        /\ up' \in BOOLEAN /\ chan' \in Seq(Command)
        /\ client' \in [Clients -> {"idle", "wait"}]
    BY AnswerType DEF Inv
  <1>2. TypeOK'
    BY <1>1 DEF Inv, TypeOK
  <1>3. Written' = Written
    BY DEF Written
  <1>4. AckedIsDurable'
    <2>1. c.op \in Barriers => \A x \in born..c.upto : x \in Written
      BY DEF Reached
    <2>2. promised' = promised \/ (c.op \in Barriers /\ promised' = promised \cup born..c.upto)
      BY DEF Answer
    <2> QED
      BY <1>3, <2>1, <2>2 DEF Inv, AckedIsDurable
  <1>5. CASE up' = FALSE /\ chan' = <<>>
    BY <1>1, <1>2, <1>4, <1>5 DEF Inv, WriterSound, NothingLost, BarriersBehind
  <1>6. CASE up' = up /\ step = "recv" /\ chan' = Tail(chan)
    <2>1. chan # <<>> /\ c = chan[1] /\ c.op \in Barriers
      BY <1>6
    <2>2. chan[1].items = <<>>
      <3>1. 1 \in 1..Len(chan)
        BY <2>1 DEF Inv, TypeOK
      <3> QED
        BY <2>1, <3>1 DEF Inv, WriterSound
    <2>3. /\ NothingLost'
          /\ \A m \in 1..Len(chan') : chan'[m].op \in Barriers =>
               chan'[m].items = <<>> /\ \A x \in born'..chan'[m].upto : Reached(x, m - 1)'
      BY <1>3, <1>6, <2>1, <2>2, ShiftInv
    <2>4. WriterSound' /\ BarriersBehind'
      BY <1>1, <1>6, <2>1, <2>3 DEF Inv, WriterSound, BarriersBehind
    <2> QED
      BY <1>2, <1>4, <2>3, <2>4 DEF Inv
  <1>7. CASE up' = up /\ chan' = chan
    <2>1. \A x, m : Reached(x, m) => Reached(x, m)'
      BY <1>3, <1>7 DEF Reached
    <2>2. WriterSound' /\ NothingLost' /\ BarriersBehind'
      BY <1>1, <1>7, <2>1 DEF Inv, WriterSound, NothingLost, BarriersBehind
    <2> QED
      BY <1>2, <1>4, <2>2 DEF Inv
  <1> QED
    BY <1>5, <1>6, <1>7 DEF Answer

LEMMA ReceiveBarrierInv == ASSUME Inv, ReceiveBarrier PROVE Inv'
  <1>1. /\ up /\ step = "recv" /\ chan # <<>> /\ Head(chan).op \in Barriers
        /\ UNCHANGED <<exists, file, mode, pending, meta, opened, deferred, next,
                       nextItem, born, faults, crashes>>
    BY DEF ReceiveBarrier, fileVars, writerVars, historyVars
  <1>2. Head(chan) \in Command /\ Head(chan) = chan[1] /\ 1 \in 1..Len(chan)
    BY <1>1, HeadTailProperties DEF Inv, TypeOK
  <1>3. \A x \in born..Head(chan).upto : Reached(x, 0)
    BY <1>1, <1>2 DEF Inv, BarriersBehind
  <1>4. CASE pending = <<>> /\ Answer(Head(chan), TRUE)
    BY <1>1, <1>2, <1>3, <1>4, AckInv
  <1>5. CASE /\ cmd' = Head(chan) /\ step' = "open" /\ chan' = Tail(chan)
             /\ UNCHANGED <<up, attempt, client, promised>>
    <2>1. chan[1].items = <<>>
      BY <1>1, <1>2 DEF Inv, WriterSound
    <2>2. Written' = Written
      BY <1>1 DEF Written
    <2>3. /\ NothingLost' /\ chan' \in Seq(Command)
          /\ \A m \in 1..Len(chan') : chan'[m].op \in Barriers =>
               chan'[m].items = <<>> /\ \A x \in born'..chan'[m].upto : Reached(x, m - 1)'
          /\ \A x : Reached(x, 0) => Reached(x, 0)'
      BY <1>1, <1>5, <2>1, <2>2, Shift, ShiftInv
    <2>4. TypeOK'
      BY <1>1, <1>2, <1>5, <2>3 DEF Inv, TypeOK
    <2>5. WriterSound' /\ BarriersBehind' /\ AckedIsDurable'
      BY <1>1, <1>2, <1>3, <1>5, <2>2, <2>3
      DEF Inv, WriterSound, BarriersBehind, AckedIsDurable
    <2> QED
      BY <2>3, <2>4, <2>5 DEF Inv
  <1> QED
    BY <1>4, <1>5 DEF ReceiveBarrier

(* A step of the writer that answers no barrier with Ok.                       *)
LEMMA WriteKeeps ==
    ASSUME Inv, TypeOK', step # "recv", UNCHANGED <<up, chan, nextItem, born, promised>>,
           step' = "recv" \/ cmd' = cmd,
           up' /\ opened' => file'.tail = "clean",
           step' \in {"meta", "items"} => opened',
           Written \subseteq Written',
           \A k \in DOMAIN pending :
              pending[k] \in Written' \/ \E l \in DOMAIN pending' : pending'[l] = pending[k]
    PROVE  Inv'
  <1>1. \A x, m : Reached(x, m) => Reached(x, m)'
    BY DEF Reached
  <1>2. WriterSound'
    BY DEF Inv, WriterSound
  <1>3. NothingLost' /\ BarriersBehind'
    BY <1>1 DEF Inv, NothingLost, BarriersBehind
  <1>4. AckedIsDurable'
    BY DEF Inv, AckedIsDurable
  <1> QED
    BY <1>2, <1>3, <1>4 DEF Inv

(* The process is gone, or was already.                                        *)
LEMMA DownKeeps ==
    ASSUME Inv, TypeOK', up' = FALSE, chan' = <<>>, step' = "recv", promised' = promised,
           Written \subseteq Written'
    PROVE  Inv'
  BY DEF Inv, WriterSound, NothingLost, BarriersBehind, AckedIsDurable

LEMMA OpenInv == ASSUME Inv, EnsureWriterOpen PROVE Inv'
  <1>1. /\ up /\ step = "open" /\ step' = "meta"
        /\ UNCHANGED <<mode, pending, meta, next, up, cmd, attempt, nextItem, born, chan,
                       client, promised, faults, crashes>>
        /\ \/ opened /\ UNCHANGED <<exists, file, opened, deferred>>
           \/ /\ exists' = TRUE /\ file' = NewlineTerminated(file)
              /\ opened' = TRUE /\ deferred' = FALSE
    BY DEF EnsureWriterOpen, historyVars
  <1>2. file \in File
    BY DEF Inv, TypeOK, File
  <1>3. file' \in File /\ file'.records = file.records /\ opened' = TRUE
        /\ file'.tail = "clean"
    BY <1>1, <1>2, NewlineType DEF Inv, TypeOK, WriterSound
  <1>4. TypeOK'
    BY <1>1, <1>3 DEF Inv, TypeOK, File
  <1>5. Written' = Written
    BY <1>3 DEF Written
  <1> QED
    BY <1>1, <1>3, <1>4, <1>5, WriteKeeps

LEMMA OpenFailsInv == ASSUME Inv, OpenFails PROVE Inv'
  <1>1. /\ up /\ step = "open" /\ exists' \in {exists, TRUE} /\ Recover
        /\ faults < MaxFaults /\ faults' = faults + 1
        /\ UNCHANGED <<file, mode, pending, meta, deferred, next, nextItem, born, crashes>>
    BY DEF OpenFails, Fault, historyVars
  <1>2. cmd \in Command
    BY <1>1 DEF Inv, WriterSound
  <1>3. /\ opened' = FALSE /\ attempt' \in {1, 2}
        /\ step' \in {"recv", "open"} /\ cmd' \in Command \cup {NoCommand}
        /\ step' # "recv" => cmd' = cmd
        /\ UNCHANGED <<promised, up, chan>>
        /\ client' \in [Clients -> {"idle", "wait"}]
    BY <1>1, <1>2, RecoverType DEF Inv
  <1>4. faults' \in 0..MaxFaults
    BY <1>1 DEF Inv, TypeOK
  <1>5. TypeOK'
    BY <1>1, <1>3, <1>4 DEF Inv, TypeOK
  <1>6. Written' = Written
    BY <1>1 DEF Written
  <1> QED
    BY <1>1, <1>3, <1>5, <1>6, WriteKeeps

LEMMA WriteMetaInv == ASSUME Inv, WriteSessionMeta PROVE Inv'
  <1>1. /\ up /\ step = "meta" /\ step' = "items"
        /\ UNCHANGED <<exists, mode, pending, opened, deferred, up, cmd, attempt, nextItem,
                       born, chan, client, promised, faults, crashes>>
    BY DEF WriteSessionMeta, historyVars
  <1>2. file \in File /\ opened /\ file.tail = "clean" /\ meta \in BOOLEAN /\ next \in Nat
    BY <1>1 DEF Inv, TypeOK, WriterSound, File
  <1>3. /\ file' \in File /\ file'.tail = "clean" /\ meta' \in BOOLEAN /\ next' \in Nat
        /\ ItemsOf(file) \subseteq ItemsOf(file')
    <2>1. CASE ~meta /\ UNCHANGED <<file, meta, next>>
      BY <1>2, <2>1
    <2>2. CASE /\ file' = AppendBytes(file, [item |-> SessionMeta,
                                            ordinal |-> Ordinal(next)], "line")
               /\ meta' = FALSE /\ next' = Advance(next)
      <3> DEFINE r == [item |-> SessionMeta, ordinal |-> Ordinal(next)]
      <3>1. r \in Record /\ Advance(next) \in Nat
        BY <1>2, OrdinalType DEF Record, SessionMeta, Items
      <3> HIDE DEF r
      <3> QED
        BY <1>2, <2>2, <3>1, AppendToClean, ItemsKept DEF r
    <2> QED
      BY <2>1, <2>2 DEF WriteSessionMeta
  <1>4. TypeOK'
    BY <1>1, <1>3 DEF Inv, TypeOK, File
  <1>5. Written \subseteq Written'
    BY <1>3 DEF Written, ItemsOf
  <1> QED
    BY <1>1, <1>2, <1>3, <1>4, <1>5, WriteKeeps

LEMMA WriteItemInv == ASSUME Inv, WriteItem PROVE Inv'
  <1> DEFINE r == [item |-> Head(pending), ordinal |-> Ordinal(next)]
  <1>1. /\ up /\ step = "items" /\ pending # <<>> /\ pending' = Tail(pending)
        /\ file' = AppendBytes(file, r, "line") /\ next' = Advance(next)
        /\ UNCHANGED <<exists, mode, meta, opened, deferred, up, cmd, step, attempt,
                       nextItem, born, chan, client, promised, faults, crashes>>
    BY DEF WriteItem, taskVars, historyVars
  <1>2. /\ file \in File /\ opened /\ file.tail = "clean" /\ next \in Nat
        /\ pending \in Seq(Items \ {SessionMeta})
    BY <1>1 DEF Inv, TypeOK, WriterSound, File
  <1>3. /\ Head(pending) \in Items /\ pending' \in Seq(Items \ {SessionMeta})
        /\ Head(pending) = pending[1] /\ Len(pending) \in Nat
        /\ DOMAIN pending = 1..Len(pending) /\ DOMAIN pending' = 1..(Len(pending) - 1)
        /\ \A k \in 1..(Len(pending) - 1) : pending'[k] = pending[k + 1]
    BY <1>1, <1>2, HeadTailProperties, LenProperties
  <1>4. r \in Record /\ Advance(next) \in Nat /\ r.item = pending[1]
    BY <1>2, <1>3, OrdinalType DEF Record
  <1> HIDE DEF r
  <1>5. /\ file' \in File /\ file'.tail = "clean"
        /\ ItemsOf(file) \subseteq ItemsOf(file') /\ pending[1] \in ItemsOf(file')
    BY <1>1, <1>2, <1>4, AppendToClean, ItemsKept
  <1>6. TypeOK'
    BY <1>1, <1>3, <1>4, <1>5 DEF Inv, TypeOK, File
  <1>7. Written \subseteq Written' /\ pending[1] \in Written'
    BY <1>5 DEF Written, ItemsOf
  <1>8. ASSUME NEW k \in DOMAIN pending
        PROVE  pending[k] \in Written' \/ \E l \in DOMAIN pending' : pending'[l] = pending[k]
    <2>1. CASE k = 1
      BY <1>7, <2>1
    <2>2. CASE k # 1
      <3>1. k - 1 \in DOMAIN pending' /\ pending'[k - 1] = pending[k]
        BY <1>3, <2>2
      <3> QED
        BY <3>1
    <2> QED
      BY <2>1, <2>2
  <1> QED
    BY <1>1, <1>2, <1>5, <1>6, <1>7, <1>8, WriteKeeps

(* A write fails, or no ordinal is left to write with.                         *)
LEMMA WriteFailsInv == ASSUME Inv, WriteFails \/ OrdinalOverflow PROVE Inv'
  <1>1. /\ up /\ Writing /\ Recover /\ file' \in Partial \cup {file}
        /\ faults' = faults \/ (faults < MaxFaults /\ faults' = faults + 1)
        /\ UNCHANGED <<exists, mode, pending, meta, deferred, next, nextItem, born, crashes>>
    BY DEF WriteFails, OrdinalOverflow, Fault, fileVars, historyVars
  <1>2. step # "recv" /\ cmd \in Command /\ file \in File
    BY <1>1 DEF Writing, Inv, WriterSound, TypeOK, File
  <1>3. /\ opened' = FALSE /\ attempt' \in {1, 2}
        /\ step' \in {"recv", "open"} /\ cmd' \in Command \cup {NoCommand}
        /\ step' # "recv" => cmd' = cmd
        /\ UNCHANGED <<promised, up, chan>>
        /\ client' \in [Clients -> {"idle", "wait"}]
    BY <1>1, <1>2, RecoverType DEF Inv
  <1>4. file' \in File /\ ItemsOf(file) \subseteq ItemsOf(file')
    BY <1>1, <1>2, PartialType DEF Inv
  <1>5. faults' \in 0..MaxFaults
    BY <1>1 DEF Inv, TypeOK
  <1>6. TypeOK'
    BY <1>1, <1>3, <1>4, <1>5 DEF Inv, TypeOK, File
  <1>7. Written \subseteq Written'
    BY <1>4 DEF Written, ItemsOf
  <1> QED
    BY <1>1, <1>2, <1>3, <1>6, <1>7, WriteKeeps

LEMMA WriteDoneInv == ASSUME Inv, WriteDone PROVE Inv'
  <1>1. /\ step = "items" /\ pending = <<>> /\ Answer(cmd, TRUE)
        /\ UNCHANGED <<exists, file, mode, pending, meta, opened, deferred, next,
                       nextItem, born, faults, crashes>>
    BY DEF WriteDone, fileVars, writerVars, historyVars
  <1>2. /\ cmd \in Command
        /\ cmd.op \in Barriers => \A x \in born..cmd.upto : Reached(x, 0)
    BY <1>1 DEF Inv, WriterSound, BarriersBehind
  <1> QED
    BY <1>1, <1>2, AckInv

(* The process dies, perhaps in the middle of a line, or ends by itself.       *)
LEMMA GoneInv == ASSUME Inv, Crash \/ DropRecorder PROVE Inv'
  <1>1. /\ Gone /\ UNCHANGED <<exists, mode, nextItem, born, promised, faults>>
        /\ crashes' = crashes \/ (crashes < MaxCrashes /\ crashes' = crashes + 1)
        /\ file' = file \/ (up /\ Writing /\ file' \in Partial)
    BY DEF Crash, DropRecorder, fileVars, historyVars
  <1>2. file \in File
    BY DEF Inv, TypeOK, File
  <1>3. file' \in File /\ ItemsOf(file) \subseteq ItemsOf(file')
    BY <1>1, <1>2, PartialType DEF Inv
  <1>4. crashes' \in 0..MaxCrashes
    BY <1>1 DEF Inv, TypeOK
  <1>5. /\ <<>> \in Seq(Command) /\ <<>> \in Seq(Items \ {SessionMeta})
        /\ client' \in [Clients -> {"idle", "wait"}]
    BY <1>1 DEF Gone
  <1>6. TypeOK'
    BY <1>1, <1>3, <1>4, <1>5 DEF Gone, Inv, TypeOK, File
  <1>7. Written \subseteq Written'
    BY <1>3 DEF Written, ItemsOf
  <1> QED
    BY <1>1, <1>6, <1>7, DownKeeps DEF Gone

LEMMA ResumeInv == ASSUME Inv, Resume PROVE Inv'
  <1>1. /\ ~up /\ file.records # <<>> /\ file' = NewlineTerminated(file)
        /\ UNCHANGED <<exists, mode, cmd, step, attempt, nextItem, chan, client,
                       promised, faults, crashes>>
    BY DEF Resume
  <1>2. chan = <<>> /\ step = "recv" /\ file \in File
    BY <1>1 DEF Inv, WriterSound, TypeOK, File
  <1>3. file' \in File /\ file'.records = file.records /\ file'.tail = "clean"
    BY <1>1, <1>2, NewlineType
  <1>4. Written' = Written
    BY <1>3 DEF Written
  <1>5. CASE Resumable(file)
    <2>1. /\ up' = TRUE /\ next' = NextOrdinal(file) /\ pending' = <<>> /\ meta' = FALSE
          /\ opened' = TRUE /\ deferred' = FALSE /\ born' = nextItem
      BY <1>5 DEF Resume
    <2>2. next' \in Nat
      BY <1>1, <1>2, <2>1, NextOrdinalType
    <2>3. pending' \in Seq(Items \ {SessionMeta})
      BY <2>1
    <2>4. TypeOK'
      BY <1>1, <1>3, <2>1, <2>2, <2>3 DEF Inv, TypeOK, File
    <2>5. WriterSound'
      BY <1>1, <1>2, <1>3, <2>1 DEF Inv, WriterSound
    <2>6. NothingLost'
      <3>1. born'..(nextItem' - 1) = {}
        BY <1>1, <2>1 DEF Inv, TypeOK
      <3> QED
        BY <3>1 DEF NothingLost
    <2>7. BarriersBehind' /\ AckedIsDurable'
      BY <1>1, <1>2, <1>4 DEF Inv, BarriersBehind, AckedIsDurable
    <2> QED
      BY <2>4, <2>5, <2>6, <2>7 DEF Inv
  <1>6. CASE ~Resumable(file)
    <2>1. UNCHANGED <<up, pending, meta, opened, deferred, next, born>>
      BY <1>6 DEF Resume, writerVars
    <2>2. TypeOK'
      BY <1>1, <1>3, <2>1 DEF Inv, TypeOK, File
    <2>3. up' = FALSE
      BY <1>1, <2>1 DEF Inv, TypeOK
    <2> QED
      BY <1>1, <1>2, <1>4, <2>2, <2>3, DownKeeps
  <1> QED
    BY <1>5, <1>6

LEMMA AppendRolloutItemToPathInv == ASSUME Inv, AppendRolloutItemToPath PROVE Inv'
  <1> DEFINE f == NewlineTerminated(file)
             r == [item |-> nextItem, ordinal |-> Ordinal(NextOrdinal(file))]
  <1>1. /\ ~up /\ file.records # <<>> /\ nextItem <= MaxItems /\ nextItem' = nextItem + 1
        /\ file' = f \/ \E how \in {"line", "torn", "bare"} : file' = AppendBytes(f, r, how)
        /\ faults' = faults \/ (faults < MaxFaults /\ faults' = faults + 1)
        /\ UNCHANGED <<exists, mode, pending, meta, opened, deferred, next, up, cmd, step,
                       attempt, born, chan, client, promised, crashes>>
    BY DEF AppendRolloutItemToPath, Fault, writerVars, taskVars
  <1>2. chan = <<>> /\ step = "recv" /\ file \in File /\ up' = FALSE
    BY <1>1 DEF Inv, WriterSound, TypeOK, File
  <1>3. f \in File /\ f.records = file.records /\ f.tail = "clean"
    BY <1>2, NewlineType
  <1>4. r \in Record
    <2>1. Ordinal(NextOrdinal(file)) \in Nat \cup {NoOrdinal}
      BY <1>1, <1>2, NextOrdinalType, OrdinalType
    <2>2. nextItem \in Items
      BY <1>1 DEF Inv, TypeOK, Items
    <2> QED
      BY <2>1, <2>2 DEF Record
  <1>5. nextItem' \in 1..MaxItems + 1 /\ faults' \in 0..MaxFaults
    BY <1>1 DEF Inv, TypeOK
  <1> HIDE DEF f, r
  <1>6. file' \in File /\ ItemsOf(f) \subseteq ItemsOf(file')
    BY <1>1, <1>3, <1>4, AppendToClean, ItemsKept
  <1>7. TypeOK'
    BY <1>1, <1>5, <1>6 DEF Inv, TypeOK, File
  <1>8. Written \subseteq Written'
    BY <1>3, <1>6 DEF Written, ItemsOf
  <1> QED
    BY <1>1, <1>2, <1>7, <1>8, DownKeeps

LEMMA StutterInv == ASSUME Inv, UNCHANGED vars PROVE Inv'
  <1>1. UNCHANGED <<exists, file, mode, up, chan, client, pending, meta, opened, deferred,
                    next, cmd, step, attempt, nextItem, born, promised, faults, crashes>>
    BY DEF vars, fileVars, writerVars, taskVars, historyVars
  <1>2. TypeOK'
    BY <1>1 DEF Inv, TypeOK
  <1>3. Written' = Written /\ \A x, m : Reached(x, m) => Reached(x, m)'
    BY <1>1 DEF Written, Reached
  <1>4. WriterSound' /\ AckedIsDurable'
    BY <1>1, <1>3 DEF Inv, WriterSound, AckedIsDurable
  <1>5. NothingLost' /\ BarriersBehind'
    BY <1>1, <1>3 DEF Inv, NothingLost, BarriersBehind
  <1> QED
    BY <1>2, <1>4, <1>5 DEF Inv

LEMMA InvStep == ASSUME Inv, [Next]_vars PROVE Inv'
  <1>1. CASE \E c \in Clients, n \in 1..MaxBatch : RecordCanonicalItems(c, n)
    BY <1>1, RecordInv
  <1>2. CASE \E c \in Clients, op \in Barriers : Request(c, op)
    BY <1>2, RequestInv
  <1>3. CASE Writer
    BY <1>3, ReceiveItemsInv, ReceiveBarrierInv, OpenInv, OpenFailsInv, WriteMetaInv,
       WriteItemInv, WriteFailsInv, WriteDoneInv DEF Writer
  <1>4. CASE Crash \/ DropRecorder
    BY <1>4, GoneInv
  <1>5. CASE Resume \/ AppendRolloutItemToPath
    BY <1>5, ResumeInv, AppendRolloutItemToPathInv
  <1>6. CASE UNCHANGED vars
    BY <1>6, StutterInv
  <1> QED
    BY <1>1, <1>2, <1>3, <1>4, <1>5, <1>6 DEF Next

-----------------------------------------------------------------------------
(* The inductive invariant holds in every state of the recorder.               *)
THEOREM Invariance == Spec => []Inv
  BY InitInv, InvStep, PTL DEF Spec

(* The state of the recorder keeps its types.                                  *)
THEOREM TypeCorrect == Spec => []TypeOK
  <1>1. Inv => TypeOK
    BY DEF Inv
  <1> QED
    BY <1>1, Invariance, PTL

(* What persist, flush or shutdown answered with Ok is readable in the file,   *)
(* and stays so whatever write fails, whenever the process dies, and however   *)
(* often the rollout is resumed or appended to while it is unloaded.           *)
THEOREM AcksAreDurable == Spec => []AckedIsDurable
  <1>1. Inv => AckedIsDurable
    BY DEF Inv
  <1> QED
    BY <1>1, Invariance, PTL

-----------------------------------------------------------------------------
(* The order of the items *)

(* What is readable is in order, and every item has been handed out.           *)
FileSound ==
    /\ InOrderByOrdinal
    /\ \A j \in DOMAIN file.records :
          /\ file.records[j].item < nextItem
          /\ mode = "paginated" => file.records[j].ordinal \in Nat

(* The buffer is in order and not before what is readable.  The two meet in    *)
(* its first item, when a failed write left that one behind whole.             *)
BufferSound ==
    up => /\ \A k, l \in DOMAIN pending : k < l => pending[k] < pending[l]
          /\ \A k \in DOMAIN pending :
                /\ pending[k] < nextItem
                /\ \A j \in DOMAIN file.records : file.records[j].item <= pending[k]

(* Until the metadata is written nothing else is readable.                     *)
MetaSound ==
    up => /\ meta => \A j \in DOMAIN file.records : file.records[j].item = SessionMeta
          /\ ~meta => file.records # <<>>
          /\ step = "items" => ~meta

(* The next ordinal is in use by what will be written again, and by nothing    *)
(* else.                                                                       *)
NextSound ==
    up /\ mode = "paginated" =>
        \A j \in DOMAIN file.records :
            /\ file.records[j].ordinal <= next
            /\ file.records[j].ordinal = next <=>
                  meta \/ (pending # <<>> /\ file.records[j].item = pending[1])

(* What is in the channel is in order and behind the buffer and the file.      *)
SentSound(C, L, R, P, n) ==
    \A m \in 1..L : \A i \in DOMAIN C[m].items :
        /\ C[m].items[i] < n
        /\ \A j \in DOMAIN R : R[j].item < C[m].items[i]
        /\ \A k \in DOMAIN P : P[k] < C[m].items[i]
        /\ \A l \in DOMAIN C[m].items : i < l => C[m].items[i] < C[m].items[l]
        /\ \A q \in (m + 1)..L : \A l \in DOMAIN C[q].items : C[m].items[i] < C[q].items[l]
ChanSound == SentSound(chan, Len(chan), file.records, pending, nextItem)

Ordered == FileSound /\ BufferSound /\ MetaSound /\ NextSound /\ ChanSound

(* The types the proofs of the order need.                                     *)
LEMMA OrderTypes ==
    ASSUME TypeOK
    PROVE  /\ file.records \in Seq(Record) /\ Len(file.records) \in Nat
           /\ DOMAIN file.records = 1..Len(file.records)
           /\ \A j \in DOMAIN file.records :
                 file.records[j].item \in Nat /\ file.records[j].ordinal \in Int
           /\ pending \in Seq(Items \ {SessionMeta}) /\ Len(pending) \in Nat
           /\ DOMAIN pending = 1..Len(pending)
           /\ \A k \in DOMAIN pending : pending[k] \in Nat \ {0}
           /\ chan \in Seq(Command) /\ Len(chan) \in Nat
           /\ \A m \in 1..Len(chan) : chan[m].items \in Seq(Items \ {SessionMeta})
           /\ \A m \in 1..Len(chan) : \A i \in DOMAIN chan[m].items :
                 chan[m].items[i] \in Nat \ {0}
           /\ nextItem \in Nat /\ next \in Nat
  <1>1. file.records \in Seq(Record)
    BY DEF TypeOK
  <1>2. \A r \in Record : r.item \in Nat /\ r.ordinal \in Int
    BY DEF Record, Items, NoOrdinal
  <1>3. Items \ {SessionMeta} \subseteq Nat \ {0}
    BY DEF Items, SessionMeta
  <1>4. pending \in Seq(Items \ {SessionMeta}) /\ chan \in Seq(Command)
    BY DEF TypeOK
  <1>5. \A m \in 1..Len(chan) : chan[m].items \in Seq(Items \ {SessionMeta})
    <2>1. \A m \in 1..Len(chan) : chan[m] \in Command
      BY <1>4, ElementOfSeq
    <2> QED
      BY <2>1 DEF Command
  <1>6. \A m \in 1..Len(chan) : \A i \in DOMAIN chan[m].items :
           chan[m].items[i] \in Nat \ {0}
    BY <1>3, <1>5, ElementOfSeq, LenProperties
  <1>7. \A j \in DOMAIN file.records :
           file.records[j].item \in Nat /\ file.records[j].ordinal \in Int
    BY <1>1, <1>2, ElementOfSeq, LenProperties
  <1>8. \A k \in DOMAIN pending : pending[k] \in Nat \ {0}
    BY <1>3, <1>4, ElementOfSeq, LenProperties
  <1>9. /\ Len(file.records) \in Nat /\ Len(pending) \in Nat /\ Len(chan) \in Nat
        /\ DOMAIN file.records = 1..Len(file.records) /\ DOMAIN pending = 1..Len(pending)
    BY <1>1, <1>4, LenProperties
  <1>10. nextItem \in Nat /\ next \in Nat
    BY DEF TypeOK
  <1> QED
    BY <1>1, <1>4, <1>5, <1>6, <1>7, <1>8, <1>9, <1>10

LEMMA InitOrdered == Init => Ordered
  BY DEF Init, Ordered, FileSound, BufferSound, MetaSound, NextSound, ChanSound,
         SentSound, InOrderByOrdinal

(* A record behind all others, with an ordinal of its own if it is not a       *)
(* repetition, keeps the file in order.                                        *)
LEMMA GrowFile ==
    ASSUME TypeOK, FileSound, NEW r \in Record, file'.records = Append(file.records, r),
           mode' = mode, nextItem' \in Nat, nextItem <= nextItem', r.item < nextItem',
           \A j \in DOMAIN file.records : file.records[j].item <= r.item,
           mode = "paginated" =>
              /\ r.ordinal \in Nat
              /\ \A j \in DOMAIN file.records :
                    /\ file.records[j].ordinal <= r.ordinal
                    /\ file.records[j].ordinal = r.ordinal <=> file.records[j].item = r.item
    PROVE  /\ FileSound'
           /\ \A j \in DOMAIN file'.records :
                 file'.records[j] = r \/ (j \in DOMAIN file.records
                                          /\ file'.records[j] = file.records[j])
  <1> DEFINE R == file.records
             S == file'.records
  <1>1. /\ R \in Seq(Record) /\ Len(R) \in Nat /\ DOMAIN R = 1..Len(R)
        /\ \A j \in DOMAIN R : R[j].item \in Nat /\ R[j].ordinal \in Int
        /\ nextItem \in Nat
    BY OrderTypes
  <1>2. /\ DOMAIN S = 1..(Len(R) + 1) /\ S[Len(R) + 1] = r
        /\ \A j \in 1..Len(R) : S[j] = R[j]
    BY <1>1, AppendProperties, LenProperties
  <1>3. r.item \in Nat /\ r.ordinal \in Int
    BY DEF Record, Items, NoOrdinal
  <1>4. \A i, j \in DOMAIN R : i < j =>
           /\ R[i].item <= R[j].item
           /\ mode = "paginated" =>
                /\ R[i].ordinal <= R[j].ordinal
                /\ R[i].ordinal = R[j].ordinal <=> R[i].item = R[j].item
    BY DEF FileSound, InOrderByOrdinal
  <1>5. \A j \in DOMAIN R : R[j].item < nextItem /\ (mode = "paginated" => R[j].ordinal \in Nat)
    BY DEF FileSound
  <1>6. \A j \in DOMAIN S : j = Len(R) + 1 \/ j \in DOMAIN R
    BY <1>1, <1>2
  <1> HIDE DEF R, S
  <1>7. \A i, j \in DOMAIN S : i < j =>
           /\ S[i].item <= S[j].item
           /\ mode = "paginated" =>
                /\ S[i].ordinal <= S[j].ordinal
                /\ S[i].ordinal = S[j].ordinal <=> S[i].item = S[j].item
    <2> TAKE i, j \in DOMAIN S
    <2> HAVE i < j
    <2>1. i \in DOMAIN R /\ S[i] = R[i]
      BY <1>1, <1>2
    <2>2. CASE j \in DOMAIN R
      BY <1>1, <1>2, <1>4, <2>1, <2>2
    <2>3. CASE j = Len(R) + 1
      BY <1>2, <2>1, <2>3 DEF R
    <2> QED
      BY <1>6, <2>2, <2>3
  <1>8. \A j \in DOMAIN S : S[j].item < nextItem' /\ (mode = "paginated" => S[j].ordinal \in Nat)
    BY <1>1, <1>2, <1>3, <1>5, <1>6
  <1>9. FileSound'
    BY <1>7, <1>8 DEF FileSound, InOrderByOrdinal, S
  <1>10. \A j \in DOMAIN S : S[j] = r \/ (j \in DOMAIN R /\ S[j] = R[j])
    BY <1>1, <1>2, <1>6
  <1> QED
    BY <1>9, <1>10 DEF R, S

(* The first command goes, its items into the buffer if anywhere.              *)
MovedUp(D, C, L) == \A m \in 1..L : D[m] = C[m + 1]
TakenFrom(Q, P, I) ==
    \A k \in DOMAIN Q : (\E l \in DOMAIN P : Q[k] = P[l]) \/ \E l \in DOMAIN I : Q[k] = I[l]

LEMMA SentShift ==
    ASSUME NEW L \in Nat, NEW K \in Nat, K = L + 1, NEW C, NEW D, NEW R, NEW P, NEW Q, NEW n,
           SentSound(C, K, R, P, n), MovedUp(D, C, L), TakenFrom(Q, P, C[1].items)
    PROVE  SentSound(D, L, R, Q, n)
  <1> SUFFICES ASSUME NEW m \in 1..L, NEW i \in DOMAIN D[m].items
               PROVE  /\ D[m].items[i] < n
                      /\ \A j \in DOMAIN R : R[j].item < D[m].items[i]
                      /\ \A k \in DOMAIN Q : Q[k] < D[m].items[i]
                      /\ \A l \in DOMAIN D[m].items : i < l => D[m].items[i] < D[m].items[l]
                      /\ \A q \in (m + 1)..L : \A l \in DOMAIN D[q].items :
                            D[m].items[i] < D[q].items[l]
    BY DEF SentSound
  <1>1. m + 1 \in 1..(L + 1) /\ D[m] = C[m + 1] /\ 1 \in 1..(L + 1)
    BY DEF MovedUp
  <1>2. /\ C[m + 1].items[i] < n
        /\ \A j \in DOMAIN R : R[j].item < C[m + 1].items[i]
        /\ \A k \in DOMAIN P : P[k] < C[m + 1].items[i]
        /\ \A l \in DOMAIN C[m + 1].items : i < l => C[m + 1].items[i] < C[m + 1].items[l]
        /\ \A q \in ((m + 1) + 1)..(L + 1) : \A l \in DOMAIN C[q].items :
              C[m + 1].items[i] < C[q].items[l]
    BY <1>1 DEF SentSound
  <1>3. \A l \in DOMAIN C[1].items : C[1].items[l] < C[m + 1].items[i]
    <2>1. m + 1 \in (1 + 1)..(L + 1)
      OBVIOUS
    <2> QED
      BY <1>1, <2>1 DEF SentSound
  <1>4. \A k \in DOMAIN Q : Q[k] < C[m + 1].items[i]
    BY <1>2, <1>3 DEF TakenFrom
  <1>5. \A q \in (m + 1)..L : q + 1 \in ((m + 1) + 1)..(L + 1) /\ D[q] = C[q + 1]
    BY DEF MovedUp
  <1>6. \A q \in (m + 1)..L : \A l \in DOMAIN D[q].items : C[m + 1].items[i] < D[q].items[l]
    BY <1>2, <1>5
  <1> QED
    BY <1>1, <1>2, <1>4, <1>6

(* A command comes whose items, if any, are numbered from n on.                *)
LEMMA SentAppend ==
    ASSUME NEW L \in Nat, NEW C, NEW D, NEW R, NEW P, NEW n \in Nat, NEW n2 \in Nat, n <= n2,
           SentSound(C, L, R, P, n), \A m \in 1..L : D[m] = C[m],
           \A m \in 1..L : \A i \in DOMAIN C[m].items : C[m].items[i] \in Nat,
           \A j \in DOMAIN R : R[j].item \in Nat /\ R[j].item < n,
           \A k \in DOMAIN P : P[k] \in Nat /\ P[k] < n,
           \A i \in DOMAIN D[L + 1].items :
              /\ D[L + 1].items[i] \in Nat /\ n <= D[L + 1].items[i] /\ D[L + 1].items[i] < n2
              /\ \A l \in DOMAIN D[L + 1].items :
                    i < l => D[L + 1].items[i] < D[L + 1].items[l]
    PROVE  SentSound(D, L + 1, R, P, n2)
  <1> SUFFICES ASSUME NEW m \in 1..(L + 1), NEW i \in DOMAIN D[m].items
               PROVE  /\ D[m].items[i] < n2
                      /\ \A j \in DOMAIN R : R[j].item < D[m].items[i]
                      /\ \A k \in DOMAIN P : P[k] < D[m].items[i]
                      /\ \A l \in DOMAIN D[m].items : i < l => D[m].items[i] < D[m].items[l]
                      /\ \A q \in (m + 1)..(L + 1) : \A l \in DOMAIN D[q].items :
                            D[m].items[i] < D[q].items[l]
    BY DEF SentSound
  <1>1. CASE m = L + 1
    <2>1. (m + 1)..(L + 1) = {}
      BY <1>1
    <2>2. D[m].items[i] \in Nat /\ n <= D[m].items[i] /\ D[m].items[i] < n2
      BY <1>1
    <2>3. \A j \in DOMAIN R : R[j].item < D[m].items[i]
      BY <2>2
    <2>4. \A k \in DOMAIN P : P[k] < D[m].items[i]
      BY <2>2
    <2> QED
      BY <1>1, <2>1, <2>2, <2>3, <2>4
  <1>2. CASE m \in 1..L
    <2>1. D[m] = C[m]
      BY <1>2
    <2>2. /\ C[m].items[i] \in Nat /\ C[m].items[i] < n
          /\ \A j \in DOMAIN R : R[j].item < C[m].items[i]
          /\ \A k \in DOMAIN P : P[k] < C[m].items[i]
          /\ \A l \in DOMAIN C[m].items : i < l => C[m].items[i] < C[m].items[l]
          /\ \A q \in (m + 1)..L : \A l \in DOMAIN C[q].items :
                C[m].items[i] < C[q].items[l]
      BY <1>2, <2>1 DEF SentSound
    <2>3. ASSUME NEW q \in (m + 1)..(L + 1), NEW l \in DOMAIN D[q].items
          PROVE  C[m].items[i] < D[q].items[l]
      <3>1. CASE q = L + 1
        <4>1. D[q].items[l] \in Nat /\ n <= D[q].items[l]
          BY <3>1
        <4> QED
          BY <2>2, <4>1
      <3>2. CASE q \in (m + 1)..L
        <4>1. D[q] = C[q]
          BY <1>2, <3>2
        <4> QED
          BY <2>2, <3>2, <4>1
      <3> QED
        BY <3>1, <3>2
    <2>4. C[m].items[i] < n2
      BY <2>2
    <2> QED
      BY <2>1, <2>2, <2>3, <2>4
  <1> QED
    BY <1>1, <1>2

LEMMA ChanShift ==
    ASSUME TypeOK, ChanSound, chan # <<>>, chan' = Tail(chan), nextItem' = nextItem,
           file'.records = file.records, TakenFrom(pending', pending, chan[1].items)
    PROVE  ChanSound'
  <1>1. chan \in Seq(Command) /\ Len(chan) \in Nat
    BY OrderTypes
  <1>2. /\ Tail(chan) \in Seq(Command) /\ Len(chan') = Len(chan) - 1
        /\ \A m \in 1..Len(chan') : chan'[m] = chan[m + 1]
    BY <1>1, HeadTailProperties
  <1>3. Len(chan') \in Nat /\ Len(chan) = Len(chan') + 1
    BY <1>1, <1>2, LenProperties
  <1>4. MovedUp(chan', chan, Len(chan'))
    BY <1>2 DEF MovedUp
  <1>5. SentSound(chan, Len(chan), file.records, pending, nextItem)
    BY DEF ChanSound
  <1>6. SentSound(chan', Len(chan'), file.records, pending', nextItem)
    BY <1>1, <1>3, <1>4, <1>5, SentShift
  <1> QED
    BY <1>6 DEF ChanSound

(* A step that neither hands out, buffers nor writes an item.                  *)
LEMMA QuietOrdered ==
    ASSUME TypeOK, Ordered, file'.records = file.records,
           UNCHANGED <<mode, next, pending, meta, nextItem>>,
           up' => up, step' = "items" => step = "items" \/ ~meta,
           chan' = chan \/ chan' = <<>> \/ (chan # <<>> /\ chan' = Tail(chan))
    PROVE  Ordered'
  <1>1. FileSound'
    BY DEF Ordered, FileSound, InOrderByOrdinal
  <1>2. BufferSound' /\ MetaSound' /\ NextSound'
    BY DEF Ordered, BufferSound, MetaSound, NextSound
  <1>3. ChanSound'
    <2>1. CASE chan' = chan
      BY <2>1 DEF Ordered, ChanSound
    <2>2. CASE chan' = <<>>
      BY <2>2 DEF ChanSound, SentSound
    <2>3. CASE chan # <<>> /\ chan' = Tail(chan)
      BY <2>3, ChanShift DEF Ordered, TakenFrom
    <2> QED
      BY <2>1, <2>2, <2>3
  <1> QED
    BY <1>1, <1>2, <1>3 DEF Ordered

LEMMA RecordOrdered ==
    ASSUME Inv, Ordered, NEW c \in Clients, NEW n \in 1..MaxBatch, RecordCanonicalItems(c, n)
    PROVE  Ordered'
  <1> DEFINE its == [k \in 1..n |-> nextItem + k - 1]
             r == [op |-> "add", client |-> c, upto |-> 0, items |-> its]
  <1>1. /\ chan' = Append(chan, r) /\ nextItem' = nextItem + n
        /\ UNCHANGED <<file, mode, pending, meta, next, up, step>>
    BY DEF RecordCanonicalItems, fileVars, writerVars, taskVars
  <1>2. /\ nextItem \in Nat /\ n \in Nat /\ nextItem < nextItem'
        /\ \A j \in DOMAIN file.records :
              file.records[j].item \in Nat /\ file.records[j].item < nextItem
    BY <1>1, OrderTypes DEF Inv, Ordered, FileSound
  <1>3. \A k \in DOMAIN pending : up => pending[k] \in Nat /\ pending[k] < nextItem
    BY OrderTypes DEF Inv, Ordered, BufferSound
  <1>4. up
    BY DEF RecordCanonicalItems
  <1>5. FileSound'
    BY <1>1, <1>2 DEF Ordered, FileSound, InOrderByOrdinal
  <1>6. BufferSound' /\ MetaSound' /\ NextSound'
    BY <1>1, <1>2, <1>3, <1>4 DEF Ordered, BufferSound, MetaSound, NextSound
  <1>7. DOMAIN its = 1..n /\ r.items = its
    OBVIOUS
  <1>8. \A i \in 1..n : /\ its[i] \in Nat /\ nextItem <= its[i] /\ its[i] < nextItem + n
                        /\ \A l \in 1..n : i < l => its[i] < its[l]
    BY <1>2
  <1> HIDE DEF its, r
  <1>9. PICK L \in Nat : L = Len(chan) /\ Len(chan') = L + 1
    BY <1>1, AppendProperties DEF Inv, TypeOK
  <1>10. (\A k \in 1..L : chan'[k] = chan[k]) /\ chan'[L + 1] = r
    BY <1>1, <1>9, AppendProperties DEF Inv, TypeOK
  <1>11. ChanSound'
    <2>1. SentSound(chan, L, file.records, pending, nextItem)
      BY <1>9 DEF Ordered, ChanSound
    <2>2. \A m \in 1..L : \A i \in DOMAIN chan[m].items : chan[m].items[i] \in Nat
      BY <1>9, OrderTypes DEF Inv
    <2>3. chan'[L + 1].items = its
      BY <1>7, <1>10
    <2>4. \A i \in DOMAIN chan'[L + 1].items :
             /\ chan'[L + 1].items[i] \in Nat /\ nextItem <= chan'[L + 1].items[i]
             /\ chan'[L + 1].items[i] < nextItem + n
             /\ \A l \in DOMAIN chan'[L + 1].items :
                   i < l => chan'[L + 1].items[i] < chan'[L + 1].items[l]
      BY <1>7, <1>8, <2>3
    <2>5. /\ nextItem + n \in Nat /\ nextItem <= nextItem + n
          /\ \A k \in DOMAIN pending : pending[k] \in Nat /\ pending[k] < nextItem
      BY <1>2, <1>3, <1>4
    <2>6. SentSound(chan', L + 1, file.records, pending, nextItem + n)
      BY <1>2, <1>10, <2>1, <2>2, <2>4, <2>5, SentAppend
    <2> QED
      BY <1>1, <1>9, <2>6 DEF ChanSound
  <1> QED
    BY <1>5, <1>6, <1>11 DEF Ordered

LEMMA RequestOrdered ==
    ASSUME Inv, Ordered, NEW c \in Clients, NEW op \in Barriers, Request(c, op)
    PROVE  Ordered'
  <1> DEFINE r == [op |-> op, client |-> c, upto |-> nextItem - 1, items |-> <<>>]
  <1>1. /\ chan' = Append(chan, r)
        /\ UNCHANGED <<file, mode, pending, meta, next, up, step, nextItem>>
    BY DEF Request, fileVars, writerVars, taskVars, historyVars
  <1>2. r.items = <<>> /\ DOMAIN r.items = {}
    OBVIOUS
  <1> HIDE DEF r
  <1>3. FileSound' /\ BufferSound' /\ MetaSound' /\ NextSound'
    BY <1>1 DEF Ordered, FileSound, InOrderByOrdinal, BufferSound, MetaSound, NextSound
  <1>4. PICK L \in Nat : L = Len(chan) /\ Len(chan') = L + 1
    BY <1>1, AppendProperties DEF Inv, TypeOK
  <1>5. (\A k \in 1..L : chan'[k] = chan[k]) /\ chan'[L + 1] = r
    BY <1>1, <1>4, AppendProperties DEF Inv, TypeOK
  <1>6. ChanSound'
    <2>1. SentSound(chan, L, file.records, pending, nextItem)
      BY <1>4 DEF Ordered, ChanSound
    <2>2. /\ \A m \in 1..L : \A i \in DOMAIN chan[m].items : chan[m].items[i] \in Nat
          /\ nextItem \in Nat /\ up
      BY <1>4, OrderTypes DEF Inv, Request
    <2>3. DOMAIN chan'[L + 1].items = {}
      BY <1>2, <1>5
    <2>4. /\ \A j \in DOMAIN file.records :
                file.records[j].item \in Nat /\ file.records[j].item < nextItem
          /\ \A k \in DOMAIN pending : pending[k] \in Nat /\ pending[k] < nextItem
      BY <2>2, OrderTypes DEF Inv, Ordered, FileSound, BufferSound
    <2>5. SentSound(chan', L + 1, file.records, pending, nextItem)
      <3>1. /\ nextItem <= nextItem
            /\ \A i \in DOMAIN chan'[L + 1].items :
                  /\ chan'[L + 1].items[i] \in Nat /\ nextItem <= chan'[L + 1].items[i]
                  /\ chan'[L + 1].items[i] < nextItem
                  /\ \A l \in DOMAIN chan'[L + 1].items :
                        i < l => chan'[L + 1].items[i] < chan'[L + 1].items[l]
        BY <2>2, <2>3
      <3> QED
        BY <1>5, <2>1, <2>2, <2>4, <3>1, SentAppend
    <2> QED
      BY <1>1, <1>4, <2>5 DEF ChanSound
  <1> QED
    BY <1>3, <1>6 DEF Ordered

(* What the channel is behind of may move from the buffer into the file.       *)
MovedFrom(S, R, P) ==
    \A j \in DOMAIN S : \/ S[j].item = SessionMeta
                        \/ \E i \in DOMAIN R : S[j] = R[i]
                        \/ \E k \in DOMAIN P : S[j].item = P[k]

LEMMA SentKept ==
    ASSUME NEW L \in Nat, NEW C, NEW R, NEW S, NEW P, NEW Q, NEW n,
           SentSound(C, L, R, P, n), MovedFrom(S, R, P), TakenFrom(Q, P, <<>>),
           \A m \in 1..L : \A i \in DOMAIN C[m].items : C[m].items[i] \in Nat \ {0}
    PROVE  SentSound(C, L, S, Q, n)
  <1> SUFFICES ASSUME NEW m \in 1..L, NEW i \in DOMAIN C[m].items
               PROVE  /\ \A j \in DOMAIN S : S[j].item < C[m].items[i]
                      /\ \A k \in DOMAIN Q : Q[k] < C[m].items[i]
    BY DEF SentSound
  <1>1. /\ C[m].items[i] \in Nat \ {0}
        /\ \A j \in DOMAIN R : R[j].item < C[m].items[i]
        /\ \A k \in DOMAIN P : P[k] < C[m].items[i]
    BY DEF SentSound
  <1>2. 0 < C[m].items[i]
    BY <1>1
  <1>3. \A j \in DOMAIN S : S[j].item < C[m].items[i]
    BY <1>1, <1>2 DEF MovedFrom, SessionMeta
  <1>4. \A k \in DOMAIN Q : Q[k] < C[m].items[i]
    BY <1>1 DEF TakenFrom
  <1> QED
    BY <1>3, <1>4

(* The line under way, once it is whole, is behind all others.                 *)
LEMMA WriteGrows ==
    ASSUME Inv, Ordered, up, Writing, ~Overflow(next),
           file'.records = Append(file.records, Line), UNCHANGED <<mode, nextItem>>
    PROVE  /\ FileSound'
           /\ \A j \in DOMAIN file'.records :
                 file'.records[j] = Line \/ (j \in DOMAIN file.records
                                             /\ file'.records[j] = file.records[j])
           /\ MovedFrom(file'.records, file.records, pending)
           /\ Line \in Record /\ Line.item \in Nat
           /\ mode = "paginated" => Line.ordinal = next
           /\ step = "items" => 1 \in DOMAIN pending /\ Line.item = pending[1] /\ ~meta
           /\ step # "items" => Line.item = SessionMeta /\ meta
           /\ file'.records # <<>>
  <1>1. Line \in Record
    BY LineType DEF Inv
  <1>2. mode = "paginated" => Line.ordinal = next
    BY DEF Line, Ordinal
  <1>3. step = "items" => 1 \in DOMAIN pending /\ Line.item = pending[1] /\ ~meta
    BY OrderTypes, HeadTailProperties DEF Inv, Ordered, MetaSound, Writing, Line
  <1>4. step # "items" => Line.item = SessionMeta /\ meta
    BY DEF Writing, Line
  <1>5. /\ nextItem \in Nat /\ next \in Nat /\ 0 < nextItem
        /\ \A j \in DOMAIN file.records :
              file.records[j].item \in Nat /\ file.records[j].ordinal \in Int
        /\ \A k \in DOMAIN pending : pending[k] \in Nat \ {0}
    BY OrderTypes DEF Inv, TypeOK
  <1>6. \A j \in DOMAIN file.records : file.records[j].item <= Line.item
    <2>1. CASE step = "items"
      BY <1>3, <1>5, <2>1 DEF Ordered, BufferSound
    <2>2. CASE step # "items"
      BY <1>4, <1>5, <2>2 DEF Ordered, MetaSound, SessionMeta
    <2> QED
      BY <2>1, <2>2
  <1>7. Line.item \in Nat /\ Line.item < nextItem
    <2>1. CASE step = "items"
      BY <1>3, <1>5, <2>1 DEF Ordered, BufferSound
    <2>2. CASE step # "items"
      BY <1>4, <1>5, <2>2 DEF SessionMeta
    <2> QED
      BY <2>1, <2>2
  <1>8. ASSUME mode = "paginated", NEW j \in DOMAIN file.records
        PROVE  /\ file.records[j].ordinal <= Line.ordinal
               /\ file.records[j].ordinal = Line.ordinal <=> file.records[j].item = Line.item
    <2>1. /\ file.records[j].ordinal <= next
          /\ file.records[j].ordinal = next <=>
                meta \/ (pending # <<>> /\ file.records[j].item = pending[1])
      BY <1>8 DEF Ordered, NextSound
    <2>2. CASE step = "items"
      <3>1. pending # <<>>
        BY <2>2 DEF Writing
      <3> QED
        BY <1>2, <1>3, <1>8, <2>1, <2>2, <3>1
    <2>3. CASE step # "items"
      <3>1. file.records[j].item = SessionMeta
        BY <1>4, <2>3 DEF Ordered, MetaSound
      <3> QED
        BY <1>2, <1>4, <1>8, <2>1, <2>3, <3>1
    <2> QED
      BY <2>2, <2>3
  <1>9. /\ FileSound'
        /\ \A j \in DOMAIN file'.records :
              file'.records[j] = Line \/ (j \in DOMAIN file.records
                                          /\ file'.records[j] = file.records[j])
    <2>1. nextItem' \in Nat /\ nextItem <= nextItem' /\ Line.item < nextItem'
      BY <1>5, <1>7
    <2>2. mode = "paginated" => Line.ordinal \in Nat
      BY <1>2, <1>5
    <2>3. TypeOK /\ FileSound
      BY DEF Inv, Ordered
    <2> HIDE DEF Line
    <2> QED
      BY <1>1, <1>6, <1>8, <2>1, <2>2, <2>3, GrowFile
  <1>10. MovedFrom(file'.records, file.records, pending)
    BY <1>3, <1>4, <1>9 DEF MovedFrom
  <1>11. file'.records # <<>>
    BY <1>1, OrderTypes, AppendProperties DEF Inv
  <1> QED
    BY <1>1, <1>2, <1>3, <1>4, <1>7, <1>9, <1>10, <1>11

(* The channel is untouched while the writer writes.                           *)
LEMMA ChanKept ==
    ASSUME TypeOK, ChanSound, chan' = chan, nextItem' = nextItem,
           MovedFrom(file'.records, file.records, pending), TakenFrom(pending', pending, <<>>)
    PROVE  ChanSound'
  <1>1. SentSound(chan, Len(chan), file.records, pending, nextItem)
    BY DEF ChanSound
  <1>2. /\ Len(chan) \in Nat
        /\ \A m \in 1..Len(chan) : \A i \in DOMAIN chan[m].items :
              chan[m].items[i] \in Nat \ {0}
    BY OrderTypes
  <1>3. SentSound(chan, Len(chan), file'.records, pending', nextItem)
    BY <1>1, <1>2, SentKept
  <1> QED
    BY <1>3 DEF ChanSound

LEMMA ReceiveItemsOrdered == ASSUME Inv, Ordered, ReceiveItems PROVE Ordered'
  <1> DEFINE I == chan[1].items
             P == pending
  <1>1. /\ up /\ chan # <<>> /\ chan' = Tail(chan) /\ pending' = pending \o Head(chan).items
        /\ UNCHANGED <<file, mode, meta, next, up, nextItem>>
        /\ step' # "items"
    BY DEF ReceiveItems, fileVars, historyVars
  <1>2. /\ 1 \in 1..Len(chan) /\ Head(chan) = chan[1]
        /\ I \in Seq(Items \ {SessionMeta}) /\ P \in Seq(Items \ {SessionMeta})
        /\ \A k \in DOMAIN P : P[k] \in Nat \ {0}
        /\ \A i \in DOMAIN I : I[i] \in Nat \ {0}
        /\ \A j \in DOMAIN file.records :
             file.records[j].item \in Nat /\ file.records[j].ordinal \in Int
    <2>1. 1 \in 1..Len(chan) /\ Head(chan) = chan[1]
      BY <1>1, OrderTypes, HeadTailProperties DEF Inv
    <2> QED
      BY <2>1, OrderTypes DEF Inv
  <1>3. PICK p \in Nat, q \in Nat : /\ p = Len(P) /\ q = Len(I)
                                    /\ DOMAIN P = 1..p /\ DOMAIN I = 1..q
    BY <1>2, LenProperties
  <1>4. /\ DOMAIN pending' = 1..(p + q)
        /\ \A k \in 1..p : pending'[k] = P[k]
        /\ \A i \in (p + 1)..(p + q) : pending'[i] = I[i - p]
    BY <1>1, <1>2, <1>3, ConcatProperties, LenProperties
  <1>5. /\ \A i \in 1..q : /\ I[i] < nextItem
                           /\ \A j \in DOMAIN file.records : file.records[j].item < I[i]
                           /\ \A k \in 1..p : P[k] < I[i]
                           /\ \A l \in 1..q : i < l => I[i] < I[l]
    BY <1>2, <1>3 DEF Ordered, ChanSound, SentSound
  <1>6. /\ \A k, l \in 1..p : k < l => P[k] < P[l]
        /\ \A k \in 1..p : /\ P[k] < nextItem
                           /\ \A j \in DOMAIN file.records : file.records[j].item <= P[k]
    BY <1>1, <1>3 DEF Ordered, BufferSound
  <1>7. \A k \in 1..(p + q) : k \in 1..p \/ (k - p \in 1..q /\ k \in (p + 1)..(p + q))
    BY <1>3
  <1>8. FileSound'
    BY <1>1 DEF Ordered, FileSound, InOrderByOrdinal
  <1> HIDE DEF I, P
  <1>9. \A k, l \in 1..(p + q) : k < l => pending'[k] < pending'[l]
    <2> TAKE k, l \in 1..(p + q)
    <2> HAVE k < l
    <2>1. CASE l \in 1..p
      <3>1. k \in 1..p
        BY <2>1
      <3> QED
        BY <1>4, <1>6, <2>1, <3>1
    <2>2. CASE k \in 1..p /\ l - p \in 1..q /\ l \in (p + 1)..(p + q)
      BY <1>4, <1>5, <2>2
    <2>3. CASE /\ k - p \in 1..q /\ k \in (p + 1)..(p + q)
               /\ l - p \in 1..q /\ l \in (p + 1)..(p + q)
      <3>1. k - p < l - p
        OBVIOUS
      <3> QED
        BY <1>4, <1>5, <2>3, <3>1
    <2> QED
      BY <1>7, <2>1, <2>2, <2>3
  <1>10. \A k \in 1..(p + q) :
            /\ pending'[k] < nextItem
            /\ \A j \in DOMAIN file.records : file.records[j].item <= pending'[k]
    <2> TAKE k \in 1..(p + q)
    <2>1. CASE k \in 1..p
      BY <1>4, <1>6, <2>1
    <2>2. CASE k - p \in 1..q /\ k \in (p + 1)..(p + q)
      <3>1. pending'[k] = I[k - p] /\ I[k - p] \in Nat /\ I[k - p] < nextItem
        BY <1>2, <1>3, <1>4, <1>5, <2>2
      <3>2. \A j \in DOMAIN file.records :
               file.records[j].item \in Nat /\ file.records[j].item < I[k - p]
        BY <1>2, <1>5, <2>2
      <3> QED
        BY <3>1, <3>2
    <2> QED
      BY <1>7, <2>1, <2>2
  <1>11. BufferSound'
    BY <1>1, <1>4, <1>9, <1>10 DEF BufferSound
  <1>12. MetaSound'
    BY <1>1 DEF Ordered, MetaSound
  <1>13. NextSound'
    <2> SUFFICES ASSUME mode = "paginated", NEW j \in DOMAIN file.records
                 PROVE  /\ file.records[j].ordinal <= next
                        /\ file.records[j].ordinal = next <=>
                             meta \/ (pending' # <<>> /\ file.records[j].item = pending'[1])
      BY <1>1 DEF NextSound
    <2>1. /\ file.records[j].ordinal <= next
          /\ file.records[j].ordinal = next <=>
                meta \/ (pending # <<>> /\ file.records[j].item = pending[1])
      BY <1>1 DEF Ordered, NextSound
    <2>2. CASE p # 0
      <3>1. pending # <<>> /\ pending' # <<>> /\ pending'[1] = pending[1]
        <4>1. 1 \in 1..p /\ 1 \in DOMAIN pending /\ 1 \in DOMAIN pending'
          BY <1>3, <1>4, <2>2 DEF P
        <4> QED
          BY <1>4, <4>1 DEF P
      <3> QED
        BY <2>1, <3>1
    <2>3. CASE p = 0
      <3>1. pending = <<>>
        BY <1>2, <1>3, <2>3, EmptySeq DEF P
      <3>2. pending' # <<>> => pending'[1] = I[1] /\ 1 \in 1..q
        <4>1. pending' # <<>> => 1 \in 1..q
          BY <1>1, <1>2, <1>3, <2>3, <3>1, EmptySeq DEF I
        <4>2. 1 \in 1..q => 1 \in (p + 1)..(p + q) /\ 1 - p = 1
          BY <2>3
        <4> QED
          BY <1>4, <4>1, <4>2
      <3>3. pending' # <<>> => file.records[j].item # pending'[1]
        BY <1>2, <1>3, <1>5, <3>2
      <3> QED
        BY <2>1, <3>1, <3>3
    <2> QED
      BY <2>2, <2>3
  <1>14. ChanSound'
    <2>1. TakenFrom(pending', pending, chan[1].items)
      <3>1. \A k \in 1..(p + q) : \/ k \in DOMAIN P /\ pending'[k] = P[k]
                                  \/ k - p \in DOMAIN I /\ pending'[k] = I[k - p]
        BY <1>3, <1>4, <1>7
      <3> QED
        BY <1>4, <3>1 DEF TakenFrom, P, I
    <2> QED
      BY <1>1, <2>1, ChanShift DEF Inv, Ordered
  <1> QED
    BY <1>8, <1>11, <1>12, <1>13, <1>14 DEF Ordered

LEMMA WriteMetaOrdered == ASSUME Inv, Ordered, WriteSessionMeta PROVE Ordered'
  <1>1. /\ up /\ step = "meta" /\ step' = "items"
        /\ UNCHANGED <<mode, pending, up, nextItem, chan>>
    BY DEF WriteSessionMeta, historyVars
  <1>2. CASE ~meta /\ UNCHANGED <<file, meta, next>>
    BY <1>1, <1>2, QuietOrdered DEF Inv
  <1>3. CASE /\ meta /\ ~Overflow(next)
             /\ file' = AppendBytes(file, [item |-> SessionMeta,
                                           ordinal |-> Ordinal(next)], "line")
             /\ meta' = FALSE /\ next' = Advance(next)
    <2>1. Writing /\ Line = [item |-> SessionMeta, ordinal |-> Ordinal(next)]
      BY <1>1, <1>3 DEF Writing, Line
    <2>2. Line \in Record /\ file \in File /\ file.tail = "clean"
      BY <1>1, <2>1, LineType DEF Inv
    <2>3. file' = AppendBytes(file, Line, "line")
      BY <1>3, <2>1
    <2> HIDE DEF Line
    <2>4. file'.records = Append(file.records, Line)
      BY <2>2, <2>3, AppendToClean
    <2>5. /\ FileSound'
          /\ \A j \in DOMAIN file'.records :
                file'.records[j] = Line \/ (j \in DOMAIN file.records
                                            /\ file'.records[j] = file.records[j])
          /\ MovedFrom(file'.records, file.records, pending)
          /\ mode = "paginated" => Line.ordinal = next
          /\ Line.item = SessionMeta /\ file'.records # <<>>
      BY <1>1, <1>3, <2>1, <2>4, WriteGrows
    <2>6. /\ \A k \in DOMAIN pending : pending[k] \in Nat \ {0}
          /\ next \in Nat /\ DOMAIN pending = 1..Len(pending) /\ Len(pending) \in Nat
          /\ pending \in Seq(Items \ {SessionMeta})
          /\ \A j \in DOMAIN file.records : file.records[j].ordinal \in Int
      BY OrderTypes DEF Inv
    <2>7. \A j \in DOMAIN file'.records : file'.records[j].item = 0
      BY <1>1, <1>3, <2>5 DEF Ordered, MetaSound, SessionMeta
    <2>8. BufferSound'
      BY <1>1, <2>6, <2>7 DEF Ordered, BufferSound
    <2>9. MetaSound'
      BY <1>1, <1>3, <2>5 DEF MetaSound
    <2>10. NextSound'
      <3> SUFFICES ASSUME mode = "paginated", NEW j \in DOMAIN file'.records
                   PROVE  /\ file'.records[j].ordinal <= next'
                          /\ file'.records[j].ordinal # next'
                          /\ ~(pending # <<>> /\ file'.records[j].item = pending[1])
        BY <1>1, <1>3 DEF NextSound
      <3>1. next' = next + 1
        BY <1>3, <2>6 DEF Advance, Overflow
      <3>2. file'.records[j].ordinal \in Int /\ file'.records[j].ordinal <= next
        BY <1>1, <2>5, <2>6 DEF Ordered, NextSound
      <3>3. pending # <<>> => pending[1] \in Nat \ {0}
        BY <2>6, EmptySeq
      <3> QED
        BY <2>6, <2>7, <3>1, <3>2, <3>3
    <2>11. ChanSound'
      <3>1. TakenFrom(pending', pending, <<>>)
        BY <1>1 DEF TakenFrom
      <3> QED
        BY <1>1, <2>5, <3>1, ChanKept DEF Inv, Ordered
    <2> QED
      BY <2>5, <2>8, <2>9, <2>10, <2>11 DEF Ordered
  <1> QED
    BY <1>2, <1>3 DEF WriteSessionMeta

LEMMA WriteItemOrdered == ASSUME Inv, Ordered, WriteItem PROVE Ordered'
  <1>1. /\ up /\ step = "items" /\ pending # <<>> /\ ~Overflow(next)
        /\ file' = AppendBytes(file, [item |-> Head(pending),
                                      ordinal |-> Ordinal(next)], "line")
        /\ pending' = Tail(pending) /\ next' = Advance(next)
        /\ UNCHANGED <<mode, meta, up, step, nextItem, chan>>
    BY DEF WriteItem, taskVars, historyVars
  <1>2. Writing /\ Line = [item |-> Head(pending), ordinal |-> Ordinal(next)]
    BY <1>1 DEF Writing, Line
  <1>3. Line \in Record /\ file \in File /\ file.tail = "clean"
    BY <1>1, <1>2, LineType DEF Inv
  <1>4. file' = AppendBytes(file, Line, "line")
    BY <1>1, <1>2
  <1> HIDE DEF Line
  <1>5. file'.records = Append(file.records, Line)
    BY <1>3, <1>4, AppendToClean
  <1>6. /\ FileSound'
        /\ \A j \in DOMAIN file'.records :
              file'.records[j] = Line \/ (j \in DOMAIN file.records
                                          /\ file'.records[j] = file.records[j])
        /\ MovedFrom(file'.records, file.records, pending)
        /\ mode = "paginated" => Line.ordinal = next
        /\ 1 \in DOMAIN pending /\ Line.item = pending[1] /\ ~meta
        /\ file'.records # <<>>
    BY <1>1, <1>2, <1>5, WriteGrows
  <1>7. /\ \A k \in DOMAIN pending : pending[k] \in Nat \ {0}
        /\ next \in Nat /\ DOMAIN pending = 1..Len(pending) /\ Len(pending) \in Nat
        /\ pending \in Seq(Items \ {SessionMeta})
        /\ \A j \in DOMAIN file.records :
              file.records[j].item \in Nat /\ file.records[j].ordinal \in Int
    BY OrderTypes DEF Inv
  <1>8. /\ DOMAIN pending' = 1..(Len(pending) - 1)
        /\ \A k \in 1..(Len(pending) - 1) : pending'[k] = pending[k + 1]
    BY <1>1, <1>7, HeadTailProperties, LenProperties
  <1>9. \A k \in DOMAIN pending' : k + 1 \in DOMAIN pending /\ pending'[k] = pending[k + 1]
                                   /\ pending[1] < pending[k + 1] /\ k \in Int
    <2>1. \A k, l \in DOMAIN pending : k < l => pending[k] < pending[l]
      BY <1>1 DEF Ordered, BufferSound
    <2>2. \A k \in 1..(Len(pending) - 1) : k \in Int /\ k + 1 \in DOMAIN pending /\ 1 < k + 1
      BY <1>7
    <2>3. \A k \in 1..(Len(pending) - 1) : pending[1] < pending[k + 1]
      BY <1>6, <2>1, <2>2
    <2> QED
      BY <1>8, <2>2, <2>3, Zenon
  <1>10. \A j \in DOMAIN file'.records :
            file'.records[j].item \in Nat /\ file'.records[j].item <= pending[1]
    BY <1>1, <1>6, <1>7 DEF Ordered, BufferSound
  <1>11. \A k \in DOMAIN pending' : \A j \in DOMAIN file'.records :
            file'.records[j].item < pending'[k]
    BY <1>6, <1>7, <1>9, <1>10
  <1>12. BufferSound'
    <2>1. \A k, l \in DOMAIN pending' : k < l => pending'[k] < pending'[l]
      <3>1. \A k, l \in DOMAIN pending' : k < l => k + 1 < l + 1
        BY <1>9
      <3> QED
        BY <1>1, <1>9, <3>1 DEF Ordered, BufferSound
    <2>2. \A k \in DOMAIN pending' : pending'[k] < nextItem /\ pending'[k] \in Nat
      BY <1>1, <1>7, <1>9 DEF Ordered, BufferSound
    <2> QED
      BY <1>1, <1>10, <1>11, <2>1, <2>2 DEF BufferSound
  <1>13. MetaSound'
    BY <1>1, <1>6 DEF MetaSound
  <1>14. NextSound'
    <2> SUFFICES ASSUME mode = "paginated", NEW j \in DOMAIN file'.records
                 PROVE  /\ file'.records[j].ordinal <= next'
                        /\ file'.records[j].ordinal # next'
                        /\ ~(pending' # <<>> /\ file'.records[j].item = pending'[1])
      BY <1>1, <1>6 DEF NextSound
    <2>1. next' = next + 1
      BY <1>1, <1>7 DEF Advance, Overflow
    <2>2. file'.records[j].ordinal \in Int /\ file'.records[j].ordinal <= next
      BY <1>1, <1>6, <1>7 DEF Ordered, NextSound
    <2>3. pending' # <<>> => 1 \in DOMAIN pending'
      BY <1>1, <1>7, <1>8, HeadTailProperties, EmptySeq
    <2>4. pending' # <<>> => file'.records[j].item < pending'[1] /\ pending'[1] \in Nat
      BY <1>7, <1>9, <1>11, <2>3
    <2> QED
      BY <1>7, <1>10, <2>1, <2>2, <2>4
  <1>15. ChanSound'
    <2>1. TakenFrom(pending', pending, <<>>)
      BY <1>9 DEF TakenFrom
    <2> QED
      BY <1>1, <1>6, <2>1, ChanKept DEF Inv, Ordered
  <1> QED
    BY <1>6, <1>12, <1>13, <1>14, <1>15 DEF Ordered

(* How a write that does not come out leaves the records: as they were, or     *)
(* with the line in it after all.                                              *)
LEMMA PartialRecords ==
    ASSUME Inv, up, Writing, NEW f \in Partial
    PROVE  f.records = file.records \/ f.records = Append(file.records, Line)
  <1>1. Line \in Record /\ file \in File /\ file.tail = "clean"
    BY LineType DEF Inv
  <1> HIDE DEF Line
  <1> QED
    BY <1>1, AppendToClean DEF Partial

LEMMA WriteFailsOrdered == ASSUME Inv, Ordered, WriteFails PROVE Ordered'
  <1>1. /\ up /\ Writing /\ ~Overflow(next) /\ Recover /\ file' \in Partial
        /\ UNCHANGED <<mode, pending, meta, next, nextItem>>
    BY DEF WriteFails, historyVars
  <1>2. step # "recv" /\ cmd \in Command
    BY <1>1 DEF Writing, Inv, WriterSound
  <1>3. step' \in {"recv", "open"} /\ UNCHANGED <<up, chan>>
    BY <1>1, <1>2, RecoverType DEF Inv
  <1>4. file'.records = file.records \/ file'.records = Append(file.records, Line)
    BY <1>1, PartialRecords
  <1>5. CASE file'.records = file.records
    BY <1>1, <1>3, <1>5, QuietOrdered DEF Inv
  <1>6. CASE file'.records = Append(file.records, Line)
    <2> HIDE DEF Line
    <2>1. /\ FileSound'
          /\ \A j \in DOMAIN file'.records :
                file'.records[j] = Line \/ (j \in DOMAIN file.records
                                            /\ file'.records[j] = file.records[j])
          /\ MovedFrom(file'.records, file.records, pending)
          /\ Line.item \in Nat
          /\ mode = "paginated" => Line.ordinal = next
          /\ step = "items" => 1 \in DOMAIN pending /\ Line.item = pending[1] /\ ~meta
          /\ step # "items" => Line.item = SessionMeta /\ meta
          /\ file'.records # <<>>
      BY <1>1, <1>6, WriteGrows
    <2>2. /\ \A k \in DOMAIN pending : pending[k] \in Nat \ {0}
          /\ DOMAIN pending = 1..Len(pending) /\ Len(pending) \in Nat /\ next \in Nat
      BY OrderTypes DEF Inv
    <2>3. \A k \in DOMAIN pending : Line.item <= pending[k]
      <3>1. CASE step = "items"
        <4>1. \A k \in DOMAIN pending : k = 1 \/ 1 < k
          BY <2>2
        <4> QED
          BY <1>1, <2>1, <2>2, <3>1, <4>1 DEF Ordered, BufferSound
      <3>2. CASE step # "items"
        BY <2>1, <2>2, <3>2 DEF SessionMeta
      <3> QED
        BY <3>1, <3>2
    <2>4. BufferSound'
      BY <1>1, <1>3, <2>1, <2>3 DEF Ordered, BufferSound
    <2>5. MetaSound'
      BY <1>1, <1>3, <2>1 DEF Ordered, MetaSound
    <2>6. NextSound'
      <3> SUFFICES ASSUME mode = "paginated", NEW j \in DOMAIN file'.records
                   PROVE  /\ file'.records[j].ordinal <= next
                          /\ file'.records[j].ordinal = next <=>
                               meta \/ (pending # <<>> /\ file'.records[j].item = pending[1])
        BY <1>1 DEF NextSound
      <3>1. CASE j \in DOMAIN file.records /\ file'.records[j] = file.records[j]
        BY <1>1, <3>1 DEF Ordered, NextSound
      <3>2. CASE file'.records[j] = Line
        <4>1. step = "items" => pending # <<>>
          BY <1>1 DEF Writing
        <4> QED
          BY <2>1, <2>2, <3>2, <4>1
      <3> QED
        BY <2>1, <3>1, <3>2
    <2>7. ChanSound'
      <3>1. TakenFrom(pending', pending, <<>>)
        BY <1>1 DEF TakenFrom
      <3> QED
        BY <1>1, <1>3, <2>1, <3>1, ChanKept DEF Inv, Ordered
    <2> QED
      BY <2>1, <2>4, <2>5, <2>6, <2>7 DEF Ordered
  <1> QED
    BY <1>4, <1>5, <1>6

LEMMA GoneOrdered == ASSUME Inv, Ordered, Crash \/ DropRecorder PROVE Ordered'
  <1>1. /\ Gone /\ UNCHANGED <<mode, nextItem>>
        /\ \/ file' = file
           \/ up /\ Writing /\ ~Overflow(next) /\ file' \in Partial
    BY DEF Crash, DropRecorder, fileVars, historyVars
  <1>2. up' = FALSE /\ chan' = <<>>
    BY <1>1 DEF Gone
  <1>3. FileSound'
    <2>1. CASE file'.records = file.records
      BY <1>1, <2>1 DEF Ordered, FileSound, InOrderByOrdinal
    <2>2. CASE /\ up /\ Writing /\ ~Overflow(next)
               /\ file'.records = Append(file.records, Line)
      BY <1>1, <2>2, WriteGrows
    <2> QED
      BY <1>1, <2>1, <2>2, PartialRecords
  <1>4. BufferSound' /\ MetaSound' /\ NextSound' /\ ChanSound'
    BY <1>2 DEF BufferSound, MetaSound, NextSound, ChanSound, SentSound
  <1> QED
    BY <1>3, <1>4 DEF Ordered

(* The ordinal after the last record is in no use.                             *)
LEMMA LastIsLargest ==
    ASSUME TypeOK, FileSound, file.records # <<>>, mode = "paginated"
    PROVE  /\ NextOrdinal(file) \in Nat
           /\ \A j \in DOMAIN file.records : file.records[j].ordinal < NextOrdinal(file)
  <1> DEFINE R == file.records
             n == Len(file.records)
  <1>1. /\ R \in Seq(Record) /\ n \in Nat /\ DOMAIN R = 1..n
        /\ \A j \in DOMAIN R : R[j].ordinal \in Int
    BY OrderTypes
  <1>2. n \in DOMAIN R
    BY <1>1, EmptySeq
  <1>3. NextOrdinal(file) = R[n].ordinal + 1 /\ R[n].ordinal \in Nat
    BY <1>2 DEF NextOrdinal, FileSound
  <1>4. \A j \in DOMAIN R : j = n \/ j < n
    BY <1>1
  <1>5. \A j \in DOMAIN R : R[j].ordinal <= R[n].ordinal
    BY <1>1, <1>2, <1>3, <1>4 DEF FileSound, InOrderByOrdinal
  <1> HIDE DEF n, R
  <1> QED
    BY <1>1, <1>3, <1>5 DEF R

LEMMA ResumeOrdered == ASSUME Inv, Ordered, Resume PROVE Ordered'
  <1>1. /\ ~up /\ file.records # <<>> /\ file' = NewlineTerminated(file)
        /\ UNCHANGED <<mode, step, nextItem, chan>>
    BY DEF Resume
  <1>2. chan = <<>> /\ step = "recv" /\ file \in File
    BY <1>1 DEF Inv, WriterSound, TypeOK, File
  <1>3. file'.records = file.records
    BY <1>1, <1>2, NewlineType
  <1>4. CASE Resumable(file)
    <2>1. /\ next' = NextOrdinal(file) /\ pending' = <<>> /\ meta' = FALSE
      BY <1>4 DEF Resume
    <2>2. FileSound'
      BY <1>1, <1>3 DEF Ordered, FileSound, InOrderByOrdinal
    <2>3. BufferSound' /\ MetaSound' /\ ChanSound'
      BY <1>1, <1>2, <1>3, <2>1 DEF BufferSound, MetaSound, ChanSound, SentSound
    <2>4. NextSound'
      <3> SUFFICES ASSUME mode = "paginated", NEW j \in DOMAIN file.records
                   PROVE  file.records[j].ordinal <= next' /\ file.records[j].ordinal # next'
        BY <1>1, <1>3, <2>1 DEF NextSound
      <3>1. file.records[j].ordinal \in Int /\ next' \in Nat /\ file.records[j].ordinal < next'
        BY <1>1, <2>1, OrderTypes, LastIsLargest DEF Inv, Ordered
      <3> QED
        BY <3>1
    <2> QED
      BY <2>2, <2>3, <2>4 DEF Ordered
  <1>5. CASE ~Resumable(file)
    <2>1. UNCHANGED <<up, pending, meta, next>>
      BY <1>5 DEF Resume, writerVars
    <2> QED
      BY <1>1, <1>2, <1>3, <2>1, QuietOrdered DEF Inv
  <1> QED
    BY <1>4, <1>5

(* What an append to an unloaded rollout leaves in the file.                   *)
LEMMA UnloadedRecords ==
    ASSUME Inv, AppendRolloutItemToPath
    PROVE  \/ file'.records = file.records
           \/ \E r \in Record : /\ file'.records = Append(file.records, r)
                                /\ r.item = nextItem
                                /\ mode = "paginated" => r.ordinal = NextOrdinal(file)
  <1> DEFINE f == NewlineTerminated(file)
             r == [item |-> nextItem, ordinal |-> Ordinal(NextOrdinal(file))]
  <1>1. /\ file.records # <<>> /\ nextItem <= MaxItems
        /\ file' = f \/ \E how \in {"line", "torn", "bare"} : file' = AppendBytes(f, r, how)
    BY DEF AppendRolloutItemToPath
  <1>2. f \in File /\ f.records = file.records /\ f.tail = "clean" /\ file \in File
    BY NewlineType DEF Inv, TypeOK, File
  <1>3. r \in Record
    <2>1. Ordinal(NextOrdinal(file)) \in Nat \cup {NoOrdinal}
      BY <1>1, <1>2, NextOrdinalType, OrdinalType
    <2>2. nextItem \in Items
      BY <1>1 DEF Inv, TypeOK, Items
    <2> QED
      BY <2>1, <2>2 DEF Record
  <1>4. r.item = nextItem /\ (mode = "paginated" => r.ordinal = NextOrdinal(file))
    BY DEF Ordinal
  <1> HIDE DEF f, r
  <1>5. file'.records = file.records \/ file'.records = Append(file.records, r)
    BY <1>1, <1>2, <1>3, AppendToClean
  <1> QED
    BY <1>3, <1>4, <1>5

LEMMA AppendRolloutItemToPathOrdered ==
    ASSUME Inv, Ordered, AppendRolloutItemToPath PROVE Ordered'
  <1>1. /\ ~up /\ file.records # <<>> /\ nextItem' = nextItem + 1
        /\ UNCHANGED <<mode, up, step, chan>>
    BY DEF AppendRolloutItemToPath, taskVars
  <1>2. chan = <<>>
    BY <1>1 DEF Inv, WriterSound
  <1>3. nextItem \in Nat /\ \A j \in DOMAIN file.records :
           /\ file.records[j].item \in Nat /\ file.records[j].ordinal \in Int
           /\ file.records[j].item < nextItem
    BY OrderTypes DEF Inv, Ordered, FileSound
  <1>4. FileSound'
    <2>1. CASE file'.records = file.records
      BY <1>1, <1>3, <2>1 DEF Ordered, FileSound, InOrderByOrdinal
    <2>2. ASSUME NEW r \in Record, file'.records = Append(file.records, r),
                 r.item = nextItem, mode = "paginated" => r.ordinal = NextOrdinal(file)
          PROVE  FileSound'
      <3>1. nextItem' \in Nat /\ nextItem <= nextItem' /\ r.item < nextItem'
        BY <1>1, <1>3, <2>2
      <3>2. \A j \in DOMAIN file.records :
               file.records[j].item <= r.item /\ file.records[j].item # r.item
        BY <1>3, <2>2
      <3>3. mode = "paginated" => r.ordinal \in Nat
        BY <1>1, <2>2, LastIsLargest DEF Inv, Ordered
      <3>4. mode = "paginated" => \A j \in DOMAIN file.records :
               file.records[j].ordinal <= r.ordinal /\ file.records[j].ordinal # r.ordinal
        <4>1. mode = "paginated" => \A j \in DOMAIN file.records :
                 file.records[j].ordinal < r.ordinal
          BY <1>1, <2>2, LastIsLargest DEF Inv, Ordered
        <4> QED
          BY <1>3, <3>3, <4>1
      <3> QED
        BY <1>1, <2>2, <3>1, <3>2, <3>3, <3>4, GrowFile DEF Inv, Ordered
    <2> QED
      BY <2>1, <2>2, UnloadedRecords
  <1>5. BufferSound' /\ MetaSound' /\ NextSound' /\ ChanSound'
    BY <1>1, <1>2 DEF BufferSound, MetaSound, NextSound, ChanSound, SentSound
  <1> QED
    BY <1>4, <1>5 DEF Ordered

(* The steps that leave the records, the buffer and the numbers alone.         *)
LEMMA OtherOrdered ==
    ASSUME Inv, Ordered,
           \/ ReceiveBarrier \/ EnsureWriterOpen \/ OpenFails \/ OrdinalOverflow
           \/ WriteDone \/ UNCHANGED vars
    PROVE  /\ file'.records = file.records
           /\ UNCHANGED <<mode, next, pending, meta, nextItem>>
           /\ Ordered'
  <1>1. file \in File /\ NewlineTerminated(file).records = file.records
    BY NewlineType DEF Inv, TypeOK, File
  <1>2. step # "recv" => cmd \in Command
    BY DEF Inv, WriterSound
  <1>3. CASE ReceiveBarrier
    <2>1. /\ UNCHANGED <<file, mode, next, pending, meta, nextItem>>
          /\ chan' = <<>> \/ (chan # <<>> /\ chan' = Tail(chan))
          /\ up' => up
          /\ step' # "items"
      BY <1>3 DEF ReceiveBarrier, Answer, fileVars, writerVars, historyVars
    <2> QED
      BY <2>1, QuietOrdered DEF Inv
  <1>4. CASE EnsureWriterOpen
    <2>1. /\ UNCHANGED <<mode, next, pending, meta, nextItem, chan, up>>
          /\ file'.records = file.records /\ step' # "items"
      BY <1>1, <1>4 DEF EnsureWriterOpen, historyVars
    <2> QED
      BY <2>1, QuietOrdered DEF Inv
  <1>5. CASE OpenFails \/ OrdinalOverflow
    <2>1. /\ UNCHANGED <<file, mode, next, pending, meta, nextItem>>
          /\ Recover /\ step # "recv"
      BY <1>5 DEF OpenFails, OrdinalOverflow, Writing, fileVars, historyVars
    <2>2. step' \in {"recv", "open"} /\ UNCHANGED <<up, chan>>
      BY <1>2, <2>1, RecoverType DEF Inv
    <2> QED
      BY <2>1, <2>2, QuietOrdered DEF Inv
  <1>6. CASE WriteDone
    <2>1. /\ UNCHANGED <<file, mode, next, pending, meta, nextItem>>
          /\ chan' = <<>> \/ chan' = chan
          /\ up' => up
          /\ step' # "items"
      BY <1>6 DEF WriteDone, Answer, fileVars, writerVars, historyVars
    <2> QED
      BY <2>1, QuietOrdered DEF Inv
  <1>7. CASE UNCHANGED vars
    <2>1. UNCHANGED <<file, mode, next, pending, meta, nextItem, chan, up, step>>
      BY <1>7 DEF vars, fileVars, writerVars, historyVars, taskVars
    <2> QED
      BY <2>1, QuietOrdered DEF Inv
  <1> QED
    BY <1>3, <1>4, <1>5, <1>6, <1>7

LEMMA OrderedStep == ASSUME Inv, Ordered, [Next]_vars PROVE Ordered'
  <1>1. CASE \E c \in Clients, n \in 1..MaxBatch : RecordCanonicalItems(c, n)
    BY <1>1, RecordOrdered
  <1>2. CASE \E c \in Clients, op \in Barriers : Request(c, op)
    BY <1>2, RequestOrdered
  <1>3. CASE Writer
    BY <1>3, ReceiveItemsOrdered, OtherOrdered, WriteMetaOrdered, WriteItemOrdered,
       WriteFailsOrdered DEF Writer
  <1>4. CASE Crash \/ DropRecorder
    BY <1>4, GoneOrdered
  <1>5. CASE Resume \/ AppendRolloutItemToPath
    BY <1>5, ResumeOrdered, AppendRolloutItemToPathOrdered
  <1>6. CASE UNCHANGED vars
    BY <1>6, OtherOrdered
  <1> QED
    BY <1>1, <1>2, <1>3, <1>4, <1>5, <1>6 DEF Next

(* Records, buffer, channel and the numbers still to be given stay in one      *)
(* order, through every fault, crash, resume and unloaded append.              *)
THEOREM OrderKept == Spec => []Ordered
  BY InitOrdered, OrderedStep, Invariance, PTL DEF Spec

(* A reader gets the items in the order in which they were accepted; an item   *)
(* read twice has one ordinal and no two items share one.                      *)
THEOREM ReadersSeeOrder == Spec => []InOrderByOrdinal
  <1>1. Ordered => InOrderByOrdinal
    BY DEF Ordered, FileSound
  <1> QED
    BY <1>1, OrderKept, PTL

-----------------------------------------------------------------------------
(* The recorder implements DurableLog *)

LogItems == [k \in DOMAIN file.records |-> file.records[k].item]

(* Item x is in a command of the channel, or anywhere between the callers and  *)
(* the file.                                                                   *)
InChan(x) == \E m \in 1..Len(chan) : \E i \in DOMAIN chan[m].items : chan[m].items[i] = x
InBuffer(x) == \E k \in DOMAIN pending : pending[k] = x
InQueue(x) == up /\ ((meta /\ x = SessionMeta) \/ InBuffer(x) \/ InChan(x))

LEMMA QueuedMembers == ASSUME TypeOK PROVE \A x : x \in Queued <=> InQueue(x)
  <1>1. DOMAIN chan = 1..Len(chan)
    BY LenProperties DEF TypeOK
  <1>2. \A x : x \in UNION {{chan[m].items[k] : k \in DOMAIN chan[m].items} : m \in DOMAIN chan}
               <=> InChan(x)
    BY <1>1 DEF InChan
  <1>3. \A x : x \in {pending[k] : k \in DOMAIN pending} <=> InBuffer(x)
    BY DEF InBuffer
  <1> QED
    BY <1>2, <1>3 DEF Queued, InQueue

(* The same after a step.                                                      *)
LEMMA QueuedMembersNext == ASSUME TypeOK' PROVE \A x : x \in Queued' <=> InQueue(x)'
  <1>1. DOMAIN chan' = 1..Len(chan')
    BY LenProperties DEF TypeOK
  <1>2. \A x : x \in UNION {{chan'[m].items[k] : k \in DOMAIN chan'[m].items} :
                            m \in DOMAIN chan'}
               <=> InChan(x)'
    BY <1>1 DEF InChan
  <1>3. \A x : x \in {pending'[k] : k \in DOMAIN pending'} <=> InBuffer(x)'
    BY DEF InBuffer
  <1> QED
    BY <1>2, <1>3 DEF Queued, InQueue

LEMMA QueuedSame ==
    ASSUME TypeOK, TypeOK', \A x : InQueue(x)' <=> InQueue(x)
    PROVE  Queued' = Queued
  BY QueuedMembers, QueuedMembersNext

LEMMA LoggedIsWritten == Log!Logged = Written
  BY DEF Log!Logged, Written

(* A record at the end of the file is an item at the end of the log.           *)
LEMMA LogGrows ==
    ASSUME TypeOK, NEW r \in Record, file'.records = Append(file.records, r)
    PROVE  LogItems' = Append(LogItems, r.item)
  <1> DEFINE R == file.records
             S == file'.records
  <1>1. R \in Seq(Record) /\ Len(R) \in Nat /\ DOMAIN R = 1..Len(R)
    BY OrderTypes
  <1>2. /\ DOMAIN S = 1..(Len(R) + 1) /\ S[Len(R) + 1] = r
        /\ \A j \in 1..Len(R) : S[j] = R[j]
    BY <1>1, AppendProperties, LenProperties
  <1>3. \A x \in Record : x.item \in Items
    BY DEF Record
  <1>4. \A j \in 1..Len(R) : R[j].item \in Items
    BY <1>1, <1>3, ElementOfSeq
  <1>5. LogItems \in [1..Len(R) -> Items] /\ \A j \in 1..Len(R) : LogItems[j] = R[j].item
    BY <1>1, <1>4 DEF LogItems
  <1>6. LogItems \in Seq(Items) /\ Len(LogItems) = Len(R)
    BY <1>1, <1>5, SeqDef, LenProperties
  <1>7. r.item \in Items
    BY <1>3
  <1>8. /\ DOMAIN Append(LogItems, r.item) = 1..(Len(R) + 1)
        /\ Append(LogItems, r.item)[Len(R) + 1] = r.item
        /\ \A j \in 1..Len(R) : Append(LogItems, r.item)[j] = LogItems[j]
        /\ Append(LogItems, r.item) \in Seq(Items)
    BY <1>1, <1>6, <1>7, AppendProperties, LenProperties
  <1>9. /\ LogItems' = [k \in 1..(Len(R) + 1) |-> S[k].item]
    BY <1>2 DEF LogItems
  <1>10. \A k \in 1..(Len(R) + 1) : S[k].item = Append(LogItems, r.item)[k]
    <2> TAKE k \in 1..(Len(R) + 1)
    <2>1. CASE k = Len(R) + 1
      BY <1>2, <1>8, <2>1
    <2>2. CASE k \in 1..Len(R)
      BY <1>2, <1>5, <1>8, <2>2
    <2>3. k \in 1..Len(R) \/ k = Len(R) + 1
      BY <1>1
    <2> QED
      BY <2>1, <2>2, <2>3
  <1> DEFINE A == Append(LogItems, r.item)
  <1>11. A = [k \in 1..(Len(R) + 1) |-> A[k]]
    BY <1>8
  <1> HIDE DEF A, R, S
  <1> QED
    BY <1>9, <1>10, <1>11 DEF A

LEMMA LogInit == Init => Log!Init
  <1> SUFFICES ASSUME Init PROVE Log!Init
    OBVIOUS
  <1>1. Queued = {SessionMeta}
    <2>1. TypeOK
      BY InitType
    <2>2. \A x : InQueue(x) <=> x = SessionMeta
      BY DEF Init, InQueue, InBuffer, InChan
    <2> QED
      BY <2>1, <2>2, QueuedMembers
  <1>2. LogItems = <<>>
    BY DEF Init, LogItems
  <1> QED
    BY <1>1, <1>2 DEF Init, Log!Init, LogItems

LogStutters == LogItems' = LogItems /\ Queued' = Queued /\ promised' = promised

LEMMA Stutters == ASSUME LogStutters PROVE [Log!Next]_(Log!vars)
  BY DEF LogStutters, Log!vars, LogItems

LEMMA RecordLog ==
    ASSUME Inv, Inv', Ordered, NEW c \in Clients, NEW n \in 1..MaxBatch,
           RecordCanonicalItems(c, n)
    PROVE  [Log!Next]_(Log!vars)
  <1> DEFINE its == [k \in 1..n |-> nextItem + k - 1]
             r == [op |-> "add", client |-> c, upto |-> 0, items |-> its]
             S == nextItem..(nextItem + n - 1)
  <1>1. /\ up /\ chan' = Append(chan, r) /\ nextItem + n - 1 <= MaxItems
        /\ UNCHANGED <<file, pending, meta, up, promised>>
    BY DEF RecordCanonicalItems, fileVars, writerVars, taskVars
  <1>2. nextItem \in Nat \ {0} /\ n \in Nat
    BY DEF Inv, TypeOK
  <1>3. S \in SUBSET Items
    BY <1>1, <1>2 DEF Items
  <1>4. r.items = its /\ DOMAIN its = 1..n
    OBVIOUS
  <1>5. \A x : (\E i \in DOMAIN its : its[i] = x) <=> x \in S
    <2>1. ASSUME NEW i \in DOMAIN its PROVE its[i] \in S
      BY <1>2
    <2>2. ASSUME NEW x \in S PROVE \E i \in DOMAIN its : its[i] = x
      <3>1. x - nextItem + 1 \in 1..n /\ its[x - nextItem + 1] = x
        BY <1>2
      <3> QED
        BY <1>4, <3>1
    <2> QED
      BY <2>1, <2>2
  <1> HIDE DEF its, r
  <1>6. PICK L \in Nat : L = Len(chan) /\ Len(chan') = L + 1
    BY <1>1, AppendProperties DEF Inv, TypeOK
  <1>7. (\A k \in 1..L : chan'[k] = chan[k]) /\ chan'[L + 1] = r
    BY <1>1, <1>6, AppendProperties DEF Inv, TypeOK
  <1>8. \A x : InChan(x)' <=> InChan(x) \/ x \in S
    <2>1. \A m \in 1..(L + 1) : m \in 1..L \/ m = L + 1
      OBVIOUS
    <2>2. L + 1 \in 1..(L + 1) /\ \A m \in 1..L : m \in 1..(L + 1)
      OBVIOUS
    <2>3. \A x : (\E m \in 1..(L + 1) : \E i \in DOMAIN chan'[m].items : chan'[m].items[i] = x)
                 <=> \/ \E m \in 1..L : \E i \in DOMAIN chan[m].items : chan[m].items[i] = x
                     \/ \E i \in DOMAIN its : its[i] = x
      BY <1>4, <1>7, <2>1, <2>2
    <2> QED
      BY <1>5, <1>6, <2>3 DEF InChan
  <1>9. \A x : InQueue(x)' <=> InQueue(x) \/ x \in S
    BY <1>1, <1>8 DEF InQueue, InBuffer
  <1>10. Queued' = Queued \cup S
    <2>1. \A x : x \in Queued' <=> InQueue(x)'
      BY QueuedMembersNext DEF Inv
    <2>2. \A x : x \in Queued <=> InQueue(x)
      BY QueuedMembers DEF Inv
    <2> QED
      BY <1>9, <2>1, <2>2
  <1>11. \A i \in S, j \in Queued \cup Written : j < i
    <2>1. ASSUME NEW j \in Queued PROVE j \in Nat /\ j < nextItem
      <3>1. InQueue(j)
        BY QueuedMembers DEF Inv
      <3>2. CASE j = SessionMeta
        BY <1>2, <3>2 DEF SessionMeta
      <3>3. CASE InBuffer(j)
        BY <1>1, <3>3, OrderTypes DEF InBuffer, Inv, Ordered, BufferSound
      <3>4. CASE InChan(j)
        BY <3>4, OrderTypes DEF InChan, Inv, Ordered, ChanSound, SentSound
      <3> QED
        BY <3>1, <3>2, <3>3, <3>4 DEF InQueue
    <2>2. ASSUME NEW j \in Written PROVE j \in Nat /\ j < nextItem
      BY OrderTypes DEF Written, Inv, Ordered, FileSound
    <2> QED
      BY <1>2, <2>1, <2>2
  <1>12. LogItems # <<>> \/ SessionMeta \in Queued
    <2>1. CASE meta
      <3>1. InQueue(SessionMeta)
        BY <1>1, <2>1 DEF InQueue
      <3> QED
        BY <3>1, QueuedMembers DEF Inv
    <2>2. CASE ~meta
      <3>1. file.records # <<>>
        BY <1>1, <2>2 DEF Ordered, MetaSound
      <3>2. 1 \in DOMAIN file.records
        BY <3>1, OrderTypes, EmptySeq DEF Inv
      <3> QED
        BY <3>2 DEF LogItems
    <2> QED
      BY <2>1, <2>2 DEF Inv, TypeOK
  <1>13. LogItems' = LogItems
    BY <1>1 DEF LogItems
  <1>14. PICK T \in SUBSET Items : T = S
    BY <1>3
  <1> HIDE DEF S
  <1>15. Log!Accept(T)
    BY <1>1, <1>10, <1>11, <1>12, <1>13, <1>14, LoggedIsWritten DEF Log!Accept, LogItems
  <1> QED
    BY <1>15 DEF Log!Next

LEMMA RequestLog ==
    ASSUME Inv, Inv', NEW c \in Clients, NEW op \in Barriers, Request(c, op)
    PROVE  [Log!Next]_(Log!vars)
  <1> DEFINE r == [op |-> op, client |-> c, upto |-> nextItem - 1, items |-> <<>>]
  <1>1. chan' = Append(chan, r) /\ UNCHANGED <<file, pending, meta, up, promised>>
    BY DEF Request, fileVars, writerVars, taskVars
  <1>2. DOMAIN r.items = {}
    OBVIOUS
  <1> HIDE DEF r
  <1>3. PICK L \in Nat : L = Len(chan) /\ Len(chan') = L + 1
    BY <1>1, AppendProperties DEF Inv, TypeOK
  <1>4. (\A k \in 1..L : chan'[k] = chan[k]) /\ chan'[L + 1] = r
    BY <1>1, <1>3, AppendProperties DEF Inv, TypeOK
  <1>5. \A x : InChan(x)' <=> InChan(x)
    <2>1. /\ \A m \in 1..(L + 1) : m \in 1..L \/ m = L + 1
          /\ \A m \in 1..L : m \in 1..(L + 1)
      OBVIOUS
    <2>2. \A x : (\E m \in 1..(L + 1) : \E i \in DOMAIN chan'[m].items : chan'[m].items[i] = x)
                 <=> \E m \in 1..L : \E i \in DOMAIN chan[m].items : chan[m].items[i] = x
      BY <1>2, <1>4, <2>1
    <2> QED
      BY <1>3, <2>2 DEF InChan
  <1>6. \A x : InQueue(x)' <=> InQueue(x)
    BY <1>1, <1>5 DEF InQueue, InBuffer
  <1>7. LogStutters
    BY <1>1, <1>6, QueuedSame DEF Inv, LogStutters, LogItems
  <1> QED
    BY <1>7, Stutters

(* The head of the channel goes.                                               *)
LEMMA InChanShift ==
    ASSUME TypeOK, chan # <<>>, chan' = Tail(chan)
    PROVE  \A x : InChan(x) <=> InChan(x)' \/ \E i \in DOMAIN chan[1].items : chan[1].items[i] = x
  <1>1. chan \in Seq(Command) /\ Len(chan) \in Nat /\ 1 \in 1..Len(chan)
    BY EmptySeq, LenProperties DEF TypeOK
  <1>2. Len(chan') = Len(chan) - 1 /\ \A m \in 1..(Len(chan) - 1) : chan'[m] = chan[m + 1]
    BY <1>1, HeadTailProperties
  <1>3. ASSUME NEW x, InChan(x)
        PROVE  InChan(x)' \/ \E i \in DOMAIN chan[1].items : chan[1].items[i] = x
    <2>1. PICK m \in 1..Len(chan) : \E i \in DOMAIN chan[m].items : chan[m].items[i] = x
      BY <1>3 DEF InChan
    <2>2. CASE m = 1
      BY <2>1, <2>2
    <2>3. CASE m # 1
      <3>1. m - 1 \in 1..(Len(chan) - 1) /\ (m - 1) + 1 = m
        BY <1>1, <2>3
      <3>2. chan'[m - 1] = chan[m] /\ m - 1 \in 1..Len(chan')
        BY <1>2, <3>1
      <3> QED
        BY <2>1, <3>2 DEF InChan
    <2> QED
      BY <2>2, <2>3
  <1>4. ASSUME NEW x, InChan(x)' PROVE InChan(x)
    <2>1. PICK m \in 1..Len(chan') : \E i \in DOMAIN chan'[m].items : chan'[m].items[i] = x
      BY <1>4 DEF InChan
    <2>2. m \in 1..(Len(chan) - 1)
      BY <1>2
    <2>3. chan'[m] = chan[m + 1] /\ m + 1 \in 1..Len(chan)
      BY <1>1, <1>2, <2>2
    <2> QED
      BY <2>1, <2>3 DEF InChan
  <1>5. ASSUME NEW x, NEW i \in DOMAIN chan[1].items, chan[1].items[i] = x PROVE InChan(x)
    BY <1>1, <1>5 DEF InChan
  <1> QED
    BY <1>3, <1>4, <1>5

LEMMA ReceiveItemsLog ==
    ASSUME Inv, Inv', ReceiveItems PROVE [Log!Next]_(Log!vars)
  <1>1. /\ chan # <<>> /\ chan' = Tail(chan) /\ pending' = pending \o Head(chan).items
        /\ UNCHANGED <<file, meta, up, promised>>
    BY DEF ReceiveItems, fileVars
  <1>2. /\ 1 \in 1..Len(chan) /\ Head(chan) = chan[1]
        /\ chan[1].items \in Seq(Items \ {SessionMeta}) /\ pending \in Seq(Items \ {SessionMeta})
    <2>1. 1 \in 1..Len(chan) /\ Head(chan) = chan[1]
      BY <1>1, OrderTypes, HeadTailProperties DEF Inv
    <2> QED
      BY <2>1, OrderTypes DEF Inv
  <1>3. PICK p \in Nat, q \in Nat : /\ p = Len(pending) /\ q = Len(chan[1].items)
                                    /\ DOMAIN pending = 1..p /\ DOMAIN chan[1].items = 1..q
    BY <1>2, LenProperties
  <1>4. /\ DOMAIN pending' = 1..(p + q)
        /\ \A k \in 1..p : pending'[k] = pending[k]
        /\ \A i \in (p + 1)..(p + q) : pending'[i] = chan[1].items[i - p]
    BY <1>1, <1>2, <1>3, ConcatProperties, LenProperties
  <1>5. \A x : InBuffer(x)' <=>
               InBuffer(x) \/ \E i \in DOMAIN chan[1].items : chan[1].items[i] = x
    <2>1. ASSUME NEW k \in 1..(p + q)
          PROVE  InBuffer(pending'[k]) \/
                 \E i \in DOMAIN chan[1].items : chan[1].items[i] = pending'[k]
      <3>1. CASE k \in 1..p
        BY <1>3, <1>4, <3>1 DEF InBuffer
      <3>2. CASE k - p \in 1..q /\ k \in (p + 1)..(p + q)
        BY <1>3, <1>4, <3>2
      <3> QED
        BY <3>1, <3>2
    <2>2. \A k \in 1..p : k \in 1..(p + q) /\ pending'[k] = pending[k]
      BY <1>4
    <2>3. \A i \in 1..q : p + i \in 1..(p + q) /\ pending'[p + i] = chan[1].items[i]
      <3> TAKE i \in 1..q
      <3>1. p + i \in (p + 1)..(p + q) /\ (p + i) - p = i
        OBVIOUS
      <3> QED
        BY <1>4, <3>1
    <2>4. ASSUME NEW x, InBuffer(x)'
          PROVE  InBuffer(x) \/ \E i \in DOMAIN chan[1].items : chan[1].items[i] = x
      <3>1. PICK k \in 1..(p + q) : pending'[k] = x
        BY <1>4, <2>4 DEF InBuffer
      <3> QED
        BY <2>1, <3>1
    <2>5. ASSUME NEW x, InBuffer(x) PROVE InBuffer(x)'
      BY <1>3, <1>4, <2>2, <2>5 DEF InBuffer
    <2>6. ASSUME NEW x, NEW i \in DOMAIN chan[1].items, chan[1].items[i] = x
          PROVE  InBuffer(x)'
      BY <1>3, <1>4, <2>3, <2>6 DEF InBuffer
    <2> QED
      BY <2>4, <2>5, <2>6
  <1>6. \A x : InChan(x) <=>
               InChan(x)' \/ \E i \in DOMAIN chan[1].items : chan[1].items[i] = x
    BY <1>1, InChanShift DEF Inv
  <1>7. \A x : InQueue(x)' <=> InQueue(x)
    BY <1>1, <1>5, <1>6 DEF InQueue
  <1>8. LogStutters
    BY <1>1, <1>7, QueuedSame DEF Inv, LogStutters, LogItems
  <1> QED
    BY <1>8, Stutters

(* A barrier is answered with Ok: a promise, or the end of the writer.         *)
LEMMA AckLog ==
    ASSUME Inv, Inv', NEW c \in Command, Answer(c, TRUE), pending = <<>>,
           c.op \in Barriers => \A x \in born..c.upto : Reached(x, 0),
           step = "recv" => chan # <<>> /\ c = chan[1] /\ c.op \in Barriers,
           UNCHANGED <<file, pending, meta>>
    PROVE  [Log!Next]_(Log!vars)
  <1> DEFINE S == IF c.op \in Barriers THEN born..c.upto ELSE {}
  <1>1. promised' = promised \cup S
    BY DEF Answer
  <1>2. S \subseteq Written
    BY DEF Reached
  <1>3. S \in SUBSET Items
    <2>1. Written \subseteq Items
      <3>1. \A k \in DOMAIN file.records : file.records[k] \in Record
        BY OrderTypes, ElementOfSeq DEF Inv
      <3> QED
        BY <3>1 DEF Written, Record
    <2> QED
      BY <1>2, <2>1
  <1>4. LogItems' = LogItems
    BY DEF LogItems
  <1>0. PICK T \in SUBSET Items : T = S
    BY <1>3
  <1> HIDE DEF S
  <1>5. CASE up' = FALSE
    <2>1. Queued' = {}
      BY <1>5 DEF Queued
    <2>2. Log!Close(T)
      BY <1>0, <1>1, <1>2, <1>4, <2>1, LoggedIsWritten DEF Log!Close, LogItems
    <2> QED
      BY <2>2 DEF Log!Next
  <1>6. CASE up' = up
    <2>1. \A x : InChan(x)' <=> InChan(x)
      <3>1. CASE step = "recv" /\ chan' = Tail(chan)
        <4>1. chan # <<>> /\ 1 \in 1..Len(chan) /\ chan[1].op \in Barriers
          BY <3>1, EmptySeq, LenProperties DEF Inv, TypeOK
        <4>2. DOMAIN chan[1].items = {}
          BY <4>1 DEF Inv, WriterSound
        <4> QED
          BY <3>1, <4>1, <4>2, InChanShift DEF Inv
      <3>2. CASE chan' = chan
        BY <3>2 DEF InChan
      <3>3. CASE chan' = <<>> /\ up' = FALSE
        <4>1. up = FALSE
          BY <1>6, <3>3
        <4>2. chan = <<>>
          BY <4>1 DEF Inv, WriterSound
        <4> QED
          BY <3>3, <4>2 DEF InChan
      <3> QED
        BY <3>1, <3>2, <3>3 DEF Answer
    <2>2. \A x : InQueue(x)' <=> InQueue(x)
      BY <1>6, <2>1 DEF InQueue, InBuffer
    <2>3. Queued' = Queued
      BY <2>2, QueuedSame DEF Inv
    <2>4. Log!Promise(T)
      BY <1>0, <1>1, <1>2, <1>4, <2>3, LoggedIsWritten DEF Log!Promise, LogItems
    <2> QED
      BY <2>4 DEF Log!Next
  <1> QED
    BY <1>5, <1>6 DEF Answer

LEMMA ReceiveBarrierLog ==
    ASSUME Inv, Inv', ReceiveBarrier PROVE [Log!Next]_(Log!vars)
  <1>1. /\ up /\ step = "recv" /\ chan # <<>> /\ Head(chan).op \in Barriers
        /\ UNCHANGED <<file, pending, meta>>
    BY DEF ReceiveBarrier, fileVars, writerVars
  <1>2. Head(chan) \in Command /\ Head(chan) = chan[1] /\ 1 \in 1..Len(chan)
    BY <1>1, HeadTailProperties DEF Inv, TypeOK
  <1>3. \A x \in born..Head(chan).upto : Reached(x, 0)
    BY <1>1, <1>2 DEF Inv, BarriersBehind
  <1>4. CASE pending = <<>> /\ Answer(Head(chan), TRUE)
    BY <1>1, <1>2, <1>3, <1>4, AckLog
  <1>5. CASE chan' = Tail(chan) /\ UNCHANGED <<up, promised>>
    <2>1. DOMAIN chan[1].items = {}
      BY <1>1, <1>2 DEF Inv, WriterSound
    <2>2. \A x : InChan(x)' <=> InChan(x)
      BY <1>1, <1>5, <2>1, InChanShift DEF Inv
    <2>3. \A x : InQueue(x)' <=> InQueue(x)
      BY <1>1, <1>5, <2>2 DEF InQueue, InBuffer
    <2>4. LogStutters
      BY <1>1, <1>5, <2>3, QueuedSame DEF Inv, LogStutters, LogItems
    <2> QED
      BY <2>4, Stutters
  <1> QED
    BY <1>4, <1>5 DEF ReceiveBarrier

LEMMA WriteDoneLog == ASSUME Inv, Inv', WriteDone PROVE [Log!Next]_(Log!vars)
  <1>1. /\ step = "items" /\ pending = <<>> /\ Answer(cmd, TRUE)
        /\ UNCHANGED <<file, pending, meta>>
    BY DEF WriteDone, fileVars, writerVars
  <1>2. /\ cmd \in Command
        /\ cmd.op \in Barriers => \A x \in born..cmd.upto : Reached(x, 0)
    BY <1>1 DEF Inv, WriterSound, BarriersBehind
  <1> QED
    BY <1>1, <1>2, AckLog

(* The line under way is of the oldest item of the queue.                      *)
LEMMA LineIsOldest ==
    ASSUME Inv, Ordered, up, Writing, ~Overflow(next),
           file'.records = Append(file.records, Line), UNCHANGED <<mode, nextItem>>
    PROVE  /\ LogItems' = Append(LogItems, Line.item)
           /\ Line.item \in Items /\ Line.item \in Queued
           /\ \A j \in Queued : Line.item <= j
           /\ step = "items" => /\ Line.item = pending[1] /\ 1 \in DOMAIN pending /\ ~meta
                                /\ \A x : InChan(x) => x # pending[1]
           /\ step # "items" => Line.item = SessionMeta /\ meta
  <1>1. /\ Line \in Record /\ Line.item \in Nat
        /\ step = "items" => 1 \in DOMAIN pending /\ Line.item = pending[1] /\ ~meta
        /\ step # "items" => Line.item = SessionMeta /\ meta
    <2> HIDE DEF Line
    <2> QED
      BY WriteGrows
  <1> HIDE DEF Line
  <1>2. LogItems' = Append(LogItems, Line.item)
    BY <1>1, LogGrows DEF Inv
  <1>3. Line.item \in Items
    BY <1>1 DEF Record
  <1>4. \A x : x \in Queued <=> InQueue(x)
    BY QueuedMembers DEF Inv
  <1>5. InQueue(Line.item)
    BY <1>1 DEF InQueue, InBuffer
  <1>6. /\ \A k \in DOMAIN pending : pending[k] \in Nat \ {0} /\ (k = 1 \/ 1 < k)
        /\ \A m \in 1..Len(chan) : \A i \in DOMAIN chan[m].items :
              chan[m].items[i] \in Nat \ {0}
    BY OrderTypes DEF Inv
  <1>7. CASE step = "items"
    <2>1. \A k \in DOMAIN pending : Line.item <= pending[k]
      BY <1>1, <1>6, <1>7 DEF Ordered, BufferSound
    <2>2. ASSUME NEW x, InChan(x) PROVE pending[1] < x /\ x \in Nat
      BY <1>1, <1>6, <1>7, <2>2 DEF InChan, Ordered, ChanSound, SentSound
    <2>3. pending[1] \in Nat
      BY <1>1, <1>6, <1>7
    <2>4. \A x : InQueue(x) => Line.item <= x
      BY <1>1, <1>7, <2>1, <2>2, <2>3 DEF InQueue, InBuffer
    <2>5. \A x : InChan(x) => x # pending[1]
      BY <2>2, <2>3
    <2> QED
      BY <1>1, <1>2, <1>3, <1>4, <1>5, <1>7, <2>4, <2>5
  <1>8. CASE step # "items"
    <2>1. \A x : InQueue(x) => x \in Nat
      BY <1>6 DEF InQueue, InBuffer, InChan, SessionMeta
    <2>2. \A x : InQueue(x) => Line.item <= x
      BY <1>1, <1>8, <2>1 DEF SessionMeta
    <2> QED
      BY <1>1, <1>2, <1>3, <1>4, <1>5, <1>8, <2>2
  <1> QED
    BY <1>7, <1>8

LEMMA WriteMetaLog ==
    ASSUME Inv, Inv', Ordered, WriteSessionMeta PROVE [Log!Next]_(Log!vars)
  <1>1. /\ up /\ step = "meta" /\ UNCHANGED <<mode, pending, up, nextItem, chan, promised>>
    BY DEF WriteSessionMeta, historyVars
  <1>2. CASE UNCHANGED <<file, meta>>
    <2>1. \A x : InQueue(x)' <=> InQueue(x)
      BY <1>1, <1>2 DEF InQueue, InBuffer, InChan
    <2>2. LogStutters
      BY <1>1, <1>2, <2>1, QueuedSame DEF Inv, LogStutters, LogItems
    <2> QED
      BY <2>2, Stutters
  <1>3. CASE /\ meta /\ ~Overflow(next)
             /\ file' = AppendBytes(file, [item |-> SessionMeta,
                                           ordinal |-> Ordinal(next)], "line")
             /\ meta' = FALSE
    <2>1. Writing /\ Line = [item |-> SessionMeta, ordinal |-> Ordinal(next)]
      BY <1>1, <1>3 DEF Writing, Line
    <2>2. Line \in Record /\ file \in File /\ file.tail = "clean"
      BY <1>1, <2>1, LineType DEF Inv
    <2>3. file' = AppendBytes(file, Line, "line")
      BY <1>3, <2>1
    <2> HIDE DEF Line
    <2>4. file'.records = Append(file.records, Line)
      BY <2>2, <2>3, AppendToClean
    <2>5. /\ LogItems' = Append(LogItems, Line.item)
          /\ Line.item \in Items /\ Line.item \in Queued
          /\ \A j \in Queued : Line.item <= j
          /\ Line.item = SessionMeta
      BY <1>1, <1>3, <2>1, <2>4, LineIsOldest
    <2>6. \A x : InBuffer(x) \/ InChan(x) => x # SessionMeta
      <3>1. /\ \A k \in DOMAIN pending : pending[k] \in Nat \ {0}
            /\ \A m \in 1..Len(chan) : \A i \in DOMAIN chan[m].items :
                  chan[m].items[i] \in Nat \ {0}
        BY OrderTypes DEF Inv
      <3> QED
        BY <3>1 DEF InBuffer, InChan, SessionMeta
    <2>7. \A x : InQueue(x)' <=> InQueue(x) /\ x # SessionMeta
      <3>1. \A x : (InBuffer(x)' <=> InBuffer(x)) /\ (InChan(x)' <=> InChan(x))
        BY <1>1 DEF InBuffer, InChan
      <3> QED
        BY <1>1, <1>3, <2>6, <3>1 DEF InQueue
    <2>8. Queued' = Queued \ {Line.item}
      <3>1. /\ \A x : x \in Queued <=> InQueue(x)
            /\ \A x : x \in Queued' <=> InQueue(x)'
        BY QueuedMembers, QueuedMembersNext DEF Inv
      <3> QED
        BY <2>5, <2>7, <3>1
    <2>9. PICK i \in Items : i = Line.item
      BY <2>5
    <2>10. Log!Commit(i)
      BY <1>1, <2>5, <2>8, <2>9 DEF Log!Commit, LogItems
    <2> QED
      BY <2>10 DEF Log!Next
  <1> QED
    BY <1>2, <1>3 DEF WriteSessionMeta

LEMMA WriteItemLog ==
    ASSUME Inv, Inv', Ordered, WriteItem PROVE [Log!Next]_(Log!vars)
  <1>1. /\ up /\ step = "items" /\ pending # <<>> /\ ~Overflow(next)
        /\ file' = AppendBytes(file, [item |-> Head(pending),
                                      ordinal |-> Ordinal(next)], "line")
        /\ pending' = Tail(pending)
        /\ UNCHANGED <<mode, meta, up, nextItem, chan, promised>>
    BY DEF WriteItem, taskVars, historyVars
  <1>2. Writing /\ Line = [item |-> Head(pending), ordinal |-> Ordinal(next)]
    BY <1>1 DEF Writing, Line
  <1>3. Line \in Record /\ file \in File /\ file.tail = "clean"
    BY <1>1, <1>2, LineType DEF Inv
  <1>4. file' = AppendBytes(file, Line, "line")
    BY <1>1, <1>2
  <1> HIDE DEF Line
  <1>5. file'.records = Append(file.records, Line)
    BY <1>3, <1>4, AppendToClean
  <1>6. /\ LogItems' = Append(LogItems, Line.item)
        /\ Line.item \in Items /\ Line.item \in Queued
        /\ \A j \in Queued : Line.item <= j
        /\ Line.item = pending[1] /\ 1 \in DOMAIN pending /\ ~meta
        /\ \A x : InChan(x) => x # pending[1]
    BY <1>1, <1>2, <1>5, LineIsOldest
  <1>7. /\ \A k \in DOMAIN pending : pending[k] \in Nat \ {0}
        /\ DOMAIN pending = 1..Len(pending) /\ Len(pending) \in Nat
        /\ pending \in Seq(Items \ {SessionMeta})
    BY OrderTypes DEF Inv
  <1>8. /\ DOMAIN pending' = 1..(Len(pending) - 1)
        /\ \A k \in 1..(Len(pending) - 1) : pending'[k] = pending[k + 1]
    BY <1>1, <1>7, HeadTailProperties, LenProperties
  <1>9. \A k \in 2..Len(pending) : pending[k] # pending[1]
    <2>1. \A k, l \in DOMAIN pending : k < l => pending[k] < pending[l]
      BY <1>1 DEF Ordered, BufferSound
    <2>2. \A k \in 2..Len(pending) : k \in DOMAIN pending /\ 1 < k
      BY <1>7
    <2> QED
      BY <1>6, <1>7, <2>1, <2>2
  <1>10. ASSUME NEW x PROVE InBuffer(x)' <=> InBuffer(x) /\ x # pending[1]
    <2>1. ASSUME InBuffer(x)' PROVE InBuffer(x) /\ x # pending[1]
      <3>1. PICK k \in 1..(Len(pending) - 1) : pending'[k] = x
        BY <1>8, <2>1 DEF InBuffer
      <3>2. k + 1 \in 2..Len(pending) /\ k + 1 \in DOMAIN pending /\ pending[k + 1] = x
        BY <1>7, <1>8, <3>1
      <3> QED
        BY <1>9, <3>2 DEF InBuffer
    <2>2. ASSUME InBuffer(x), x # pending[1] PROVE InBuffer(x)'
      <3>1. PICK k \in DOMAIN pending : pending[k] = x
        BY <2>2 DEF InBuffer
      <3>2. k # 1 /\ k \in 1..Len(pending)
        BY <1>7, <2>2, <3>1
      <3>3. k - 1 \in 1..(Len(pending) - 1) /\ (k - 1) + 1 = k
        BY <1>7, <3>2
      <3>4. k - 1 \in DOMAIN pending' /\ pending'[k - 1] = x
        BY <1>8, <3>1, <3>3
      <3> QED
        BY <3>4 DEF InBuffer
    <2> QED
      BY <2>1, <2>2
  <1>11. \A x : InQueue(x)' <=> InQueue(x) /\ x # pending[1]
    <2>1. \A x : InChan(x)' <=> InChan(x)
      BY <1>1 DEF InChan
    <2> QED
      BY <1>1, <1>6, <1>10, <2>1 DEF InQueue
  <1>12. Queued' = Queued \ {Line.item}
    <2>1. /\ \A x : x \in Queued <=> InQueue(x)
          /\ \A x : x \in Queued' <=> InQueue(x)'
      BY QueuedMembers, QueuedMembersNext DEF Inv
    <2> QED
      BY <1>6, <1>11, <2>1
  <1>13. PICK i \in Items : i = Line.item
    BY <1>6
  <1>14. Log!Commit(i)
    BY <1>1, <1>6, <1>12, <1>13 DEF Log!Commit, LogItems
  <1> QED
    BY <1>14 DEF Log!Next

LEMMA WriteFailsLog ==
    ASSUME Inv, Inv', Ordered, WriteFails PROVE [Log!Next]_(Log!vars)
  <1>1. /\ up /\ Writing /\ ~Overflow(next) /\ Recover /\ file' \in Partial
        /\ UNCHANGED <<mode, pending, meta, nextItem>>
    BY DEF WriteFails, historyVars
  <1>2. step # "recv" /\ cmd \in Command
    BY <1>1 DEF Writing, Inv, WriterSound
  <1>3. UNCHANGED <<up, chan, promised>>
    BY <1>1, <1>2, RecoverType DEF Inv
  <1>4. Queued' = Queued
    <2>1. \A x : InQueue(x)' <=> InQueue(x)
      BY <1>1, <1>3 DEF InQueue, InBuffer, InChan
    <2> QED
      BY <2>1, QueuedSame DEF Inv
  <1>5. CASE file'.records = file.records
    BY <1>3, <1>4, <1>5, Stutters DEF LogStutters, LogItems
  <1>6. CASE file'.records = Append(file.records, Line)
    <2>1. /\ LogItems' = Append(LogItems, Line.item)
          /\ Line.item \in Items /\ Line.item \in Queued
          /\ \A j \in Queued : Line.item <= j
      BY <1>1, <1>6, LineIsOldest
    <2> HIDE DEF Line
    <2>2. PICK i \in Items : i = Line.item
      BY <2>1
    <2>3. Log!Commit(i)
      BY <1>3, <1>4, <2>1, <2>2 DEF Log!Commit, LogItems
    <2> QED
      BY <2>3 DEF Log!Next
  <1> QED
    BY <1>1, <1>5, <1>6, PartialRecords

LEMMA GoneLog ==
    ASSUME Inv, Inv', Ordered, Crash \/ DropRecorder PROVE [Log!Next]_(Log!vars)
  <1>1. /\ Gone /\ UNCHANGED <<mode, nextItem, promised>>
        /\ \/ file' = file
           \/ up /\ Writing /\ ~Overflow(next) /\ file' \in Partial
    BY DEF Crash, DropRecorder, fileVars, historyVars
  <1>2. Queued' = {}
    BY <1>1 DEF Gone, Queued
  <1>3. CASE file'.records = file.records
    <2>1. Log!Close({})
      BY <1>1, <1>2, <1>3 DEF Log!Close
    <2>2. {} \in SUBSET Items
      OBVIOUS
    <2> QED
      BY <2>1, <2>2 DEF Log!Next
  <1>4. CASE /\ up /\ Writing /\ ~Overflow(next)
             /\ file'.records = Append(file.records, Line)
    <2>1. /\ LogItems' = Append(LogItems, Line.item)
          /\ Line.item \in Items /\ Line.item \in Queued
          /\ \A j \in Queued : Line.item <= j
      BY <1>1, <1>4, LineIsOldest
    <2> HIDE DEF Line
    <2>2. PICK i \in Items : i = Line.item
      BY <2>1
    <2>3. Log!CommitAndClose(i)
      BY <1>1, <1>2, <2>1, <2>2 DEF Log!CommitAndClose, LogItems
    <2> QED
      BY <2>3 DEF Log!Next
  <1> QED
    BY <1>1, <1>3, <1>4, PartialRecords

LEMMA ResumeLog == ASSUME Inv, Inv', Resume PROVE [Log!Next]_(Log!vars)
  <1>1. /\ ~up /\ file' = NewlineTerminated(file) /\ UNCHANGED <<chan, promised>>
    BY DEF Resume
  <1>2. chan = <<>> /\ file \in File
    BY <1>1 DEF Inv, WriterSound, TypeOK, File
  <1>3. file'.records = file.records
    BY <1>1, <1>2, NewlineType
  <1>4. \A x : ~InQueue(x) /\ ~InQueue(x)'
    <2>1. \A x : ~InQueue(x)
      BY <1>1 DEF InQueue
    <2>2. up' => pending' = <<>> /\ meta' = FALSE
      BY <1>1 DEF Resume
    <2>3. \A x : ~InQueue(x)'
      BY <1>1, <1>2, <2>2 DEF InQueue, InBuffer, InChan
    <2> QED
      BY <2>1, <2>3
  <1>5. LogStutters
    BY <1>1, <1>3, <1>4, QueuedSame DEF Inv, LogStutters, LogItems
  <1> QED
    BY <1>5, Stutters

LEMMA AppendRolloutItemToPathLog ==
    ASSUME Inv, Inv', Ordered, AppendRolloutItemToPath PROVE [Log!Next]_(Log!vars)
  <1>1. /\ ~up /\ file.records # <<>> /\ nextItem <= MaxItems
        /\ UNCHANGED <<up, promised>>
    BY DEF AppendRolloutItemToPath, taskVars
  <1>2. Queued = {} /\ Queued' = {}
    BY <1>1 DEF Queued
  <1>3. CASE file'.records = file.records
    BY <1>1, <1>2, <1>3, Stutters DEF LogStutters, LogItems
  <1>4. ASSUME NEW r \in Record, file'.records = Append(file.records, r), r.item = nextItem
        PROVE  [Log!Next]_(Log!vars)
    <2>1. LogItems' = Append(LogItems, nextItem)
      BY <1>4, LogGrows DEF Inv
    <2>2. nextItem \in Items
      BY <1>1 DEF Inv, TypeOK, Items
    <2>3. \A j \in Written : j < nextItem
      BY DEF Written, Ordered, FileSound
    <2>4. LogItems # <<>>
      <3>1. 1 \in DOMAIN file.records
        BY <1>1, OrderTypes, EmptySeq DEF Inv
      <3> QED
        BY <3>1 DEF LogItems
    <2>5. PICK i \in Items : i = nextItem
      BY <2>2
    <2>6. Log!AppendUnloaded(i)
      BY <1>1, <1>2, <2>1, <2>3, <2>4, <2>5, LoggedIsWritten DEF Log!AppendUnloaded, LogItems
    <2> QED
      BY <2>6 DEF Log!Next
  <1> QED
    BY <1>3, <1>4, UnloadedRecords

(* The steps a reader of the rollout and its callers do not see.               *)
LEMMA OtherLog ==
    ASSUME Inv, Inv', Ordered,
           EnsureWriterOpen \/ OpenFails \/ OrdinalOverflow \/ UNCHANGED vars
    PROVE  [Log!Next]_(Log!vars)
  <1>1. file'.records = file.records /\ UNCHANGED <<pending, meta>>
    BY OtherOrdered
  <1>2. UNCHANGED <<up, chan, promised>>
    <2>1. CASE EnsureWriterOpen \/ UNCHANGED vars
      BY <2>1 DEF EnsureWriterOpen, vars, taskVars
    <2>2. CASE OpenFails \/ OrdinalOverflow
      <3>1. Recover /\ step # "recv"
        BY <2>2 DEF OpenFails, OrdinalOverflow, Writing
      <3>2. cmd \in Command
        BY <3>1 DEF Inv, WriterSound
      <3> QED
        BY <3>1, <3>2, RecoverType DEF Inv
    <2> QED
      BY <2>1, <2>2
  <1>3. \A x : InQueue(x)' <=> InQueue(x)
    BY <1>1, <1>2 DEF InQueue, InBuffer, InChan
  <1>4. LogStutters
    BY <1>1, <1>2, <1>3, QueuedSame DEF Inv, LogStutters, LogItems
  <1> QED
    BY <1>4, Stutters

LEMMA LogStep ==
    ASSUME Inv, Inv', Ordered, [Next]_vars PROVE [Log!Next]_(Log!vars)
  <1>1. CASE \E c \in Clients, n \in 1..MaxBatch : RecordCanonicalItems(c, n)
    BY <1>1, RecordLog
  <1>2. CASE \E c \in Clients, op \in Barriers : Request(c, op)
    BY <1>2, RequestLog
  <1>3. CASE Writer
    BY <1>3, ReceiveItemsLog, ReceiveBarrierLog, OtherLog, WriteMetaLog, WriteItemLog,
       WriteFailsLog, WriteDoneLog DEF Writer
  <1>4. CASE Crash \/ DropRecorder
    BY <1>4, GoneLog
  <1>5. CASE Resume \/ AppendRolloutItemToPath
    BY <1>5, ResumeLog, AppendRolloutItemToPathLog
  <1>6. CASE UNCHANGED vars
    BY <1>6, OtherLog
  <1> QED
    BY <1>1, <1>2, <1>3, <1>4, <1>5, <1>6 DEF Next

(* The recorder, with its channel, buffer, retries, half-written lines and     *)
(* deaths, is to its callers and readers the abstract log.                     *)
THEOREM Refinement == Spec => ImplementsLog
  <1>1. Inv /\ Inv' /\ Ordered /\ [Next]_vars => [Log!Next]_(Log!vars)
    BY LogStep
  <1> QED
    BY <1>1, LogInit, Invariance, OrderKept, PTL DEF Spec, ImplementsLog, Log!Spec

=============================================================================
