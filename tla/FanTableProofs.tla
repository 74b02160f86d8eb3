----------------------------- MODULE FanTableProofs -----------------------------
(***************************************************************************)
(* What a programmed fan table is worth, for every number of points, every *)
(* file, and every byte at which a command can be cut short.               *)
(***************************************************************************)
EXTENDS FanTable, SequenceTheorems, NaturalsInduction, WellFoundedInduction, TLAPS

Fields == {"up", "down", "duty"}
Stages == {"SetEcFanTable_Cpu", "SetEcFanTable_Gpu", "FinalizeTailBytes"}
Entry == [stage : Stages, addr : Int, value : Byte]

StageOf(a) ==
  IF a \in CpuRegisters THEN "SetEcFanTable_Cpu"
  ELSE IF a \in GpuRegisters THEN "SetEcFanTable_Gpu" ELSE "FinalizeTailBytes"

--------------------------------------------------------------------------------
(* The plan and the register map.                                          *)

(* An offset into the c-th column.                                         *)
LEMMA ColumnOf ==
  ASSUME NEW c \in 0..5, NEW r \in 0..(PointCount - 1)
  PROVE  (c * PointCount + r) \div PointCount = c /\ (c * PointCount + r) % PointCount = r
<1>1. PointCount \in Nat /\ PointCount > 3
  BY FanTableAssumption
<1>2. CASE c = 0
  BY <1>1, <1>2
<1>3. CASE c = 1
  BY <1>1, <1>3
<1>4. CASE c = 2
  BY <1>1, <1>4
<1>5. CASE c = 3
  BY <1>1, <1>5
<1>6. CASE c = 4
  BY <1>1, <1>6
<1>7. CASE c = 5
  BY <1>1, <1>7
<1>. QED
  BY <1>2, <1>3, <1>4, <1>5, <1>6, <1>7

LEMMA ImageOf ==
  ASSUME NEW t \in Table, NEW c \in 0..5, NEW r \in 0..(PointCount - 1)
  PROVE  LET a     == c * PointCount + r
             field == <<"up", "down", "duty">>[(c % 3) + 1]
         IN  /\ c < 3 => a \in CpuRegisters /\ Image(t, a) = t.cpu[r + 1][field]
             /\ c >= 3 /\ a < Status1Addr =>
                  a \in GpuRegisters /\ Image(t, a) = t.gpu[r + 1][field]
<1>. DEFINE a == c * PointCount + r
<1>1. PointCount \in Nat /\ PointCount > 3
  BY FanTableAssumption
<1>2. a \div PointCount = c /\ a % PointCount = r
  BY ColumnOf
<1>3. Field(a) = <<"up", "down", "duty">>[(c % 3) + 1]
  BY <1>2 DEF Field
<1>4. c < 3 => a \in CpuRegisters
  BY <1>1 DEF CpuRegisters, GpuUpBase
<1>5. c >= 3 /\ a < Status1Addr => a \in GpuRegisters
  BY <1>1 DEF GpuRegisters, GpuUpBase, Status1Addr
<1>6. c >= 3 => a \notin CpuRegisters
  BY <1>1 DEF CpuRegisters, GpuUpBase
<1>7. c < 3 => Image(t, a) = t.cpu[r + 1][<<"up", "down", "duty">>[(c % 3) + 1]]
  BY <1>2, <1>3, <1>4 DEF Image
<1>8. c >= 3 /\ a < Status1Addr =>
        Image(t, a) = t.gpu[r + 1][<<"up", "down", "duty">>[(c % 3) + 1]]
  BY <1>2, <1>3, <1>5, <1>6 DEF Image
<1>. QED
  BY <1>4, <1>5, <1>7, <1>8

LEMMA ColumnIs ==
  ASSUME NEW stage \in Stages, NEW base \in Int, NEW points \in [Point -> PointValue],
         NEW field \in Fields, NEW n \in 0..PointCount
  PROVE  /\ Column(stage, base, points, field, n) \in Seq(Entry)
         /\ Len(Column(stage, base, points, field, n)) = n
         /\ \A i \in 1..n : LET e == Column(stage, base, points, field, n)[i]
                            IN  /\ e.stage = stage /\ e.addr = base + i - 1
                                /\ e.value = points[i][field]
<1>. DEFINE col == Column(stage, base, points, field, n)
<1>1. PointCount \in Nat
  BY FanTableAssumption
<1>2. \A i \in 1..n : points[i] \in PointValue
  BY <1>1 DEF Point
<1>3. \A i \in 1..n : points[i][field] \in Byte
  BY <1>2 DEF PointValue, Fields
<1>4. \A i \in 1..n : [stage |-> stage, addr |-> base + i - 1,
                       value |-> points[i][field]] \in Entry
  BY <1>1, <1>3 DEF Entry
<1>5. col \in [1..n -> Entry]
  BY <1>4 DEF Column
<1>6. n \in Nat
  BY <1>1
<1>7. col \in Seq(Entry)
  <2>. HIDE DEF col
  <2>. QED
    BY <1>5, <1>6, SeqDef
<1>8. Len(col) = n
  <2>. HIDE DEF col
  <2>. QED
    BY <1>5, <1>6, <1>7, LenProperties
<1>. QED
  BY <1>7, <1>8 DEF Column

(* A sequence that starts where the one before it ends lays out its part.  *)
Lays(plan, t, first, n) ==
  /\ plan \in Seq(Entry) /\ Len(plan) = n
  /\ \A i \in 1..n : /\ plan[i].stage = StageOf(first + i - 1)
                     /\ plan[i].addr = first + i - 1
                     /\ plan[i].value = Image(t, first + i - 1)

LEMMA LaysJoined ==
  ASSUME NEW p, NEW q, NEW t, NEW first \in Nat, NEW n \in Nat, NEW m \in Nat,
         Lays(p, t, first, n), Lays(q, t, first + n, m)
  PROVE  Lays(p \o q, t, first, n + m)
<1>1. p \in Seq(Entry) /\ q \in Seq(Entry) /\ Len(p) = n /\ Len(q) = m
  BY DEF Lays
<1>2. p \o q \in Seq(Entry) /\ Len(p \o q) = n + m
  BY <1>1, ConcatProperties
<1>3. ASSUME NEW i \in 1..(n + m)
      PROVE  /\ (p \o q)[i].stage = StageOf(first + i - 1)
             /\ (p \o q)[i].addr = first + i - 1
             /\ (p \o q)[i].value = Image(t, first + i - 1)
  <2>1. CASE i <= n
    <3>1. (p \o q)[i] = p[i] /\ i \in 1..n
      BY <1>1, <2>1, ConcatProperties
    <3>. QED
      BY <3>1 DEF Lays
  <2>2. CASE ~(i <= n)
    <3>1. (p \o q)[i] = q[i - n] /\ i - n \in 1..m
      BY <1>1, <2>2, ConcatProperties
    <3>2. (first + n) + (i - n) - 1 = first + i - 1
      OBVIOUS
    <3>. QED
      BY <3>1, <3>2 DEF Lays
  <2>. QED
    BY <2>1, <2>2
<1>. QED
  BY <1>2, <1>3 DEF Lays

LEMMA CpuColumn ==
  ASSUME NEW t \in Table, NEW c \in 0..2, NEW n \in 0..PointCount
  PROVE  Lays(Column("SetEcFanTable_Cpu", c * PointCount, t.cpu,
                     <<"up", "down", "duty">>[c + 1], n),
              t, c * PointCount, n)
<1>. DEFINE stage == "SetEcFanTable_Cpu"
            field == <<"up", "down", "duty">>[c + 1]
            points == t.cpu
            base  == c * PointCount
            col   == Column(stage, base, points, field, n)
<1>1. PointCount \in Nat /\ PointCount > 3
  BY FanTableAssumption
<1>2. field \in Fields /\ (c % 3) = c /\ c * PointCount \in Nat
  BY <1>1 DEF Fields
<1>3. points \in [Point -> PointValue]
  BY DEF Table
<1>4. /\ col \in Seq(Entry) /\ Len(col) = n
      /\ \A i \in 1..n : /\ col[i].stage = stage
                         /\ col[i].addr = base + i - 1
                         /\ col[i].value = points[i][field]
  <2>1. stage \in Stages /\ base \in Int /\ field \in Fields
    BY <1>2 DEF Stages
  <2>. HIDE DEF stage, field, base, points
  <2>. QED
    BY <1>1, <1>3, <2>1, ColumnIs
<1>5. ASSUME NEW i \in 1..n
      PROVE  /\ StageOf(base + i - 1) = "SetEcFanTable_Cpu"
             /\ Image(t, base + i - 1) = t.cpu[i][field]
  <2>1. i - 1 \in 0..(PointCount - 1) /\ c \in 0..5 /\ c < 3 /\ (i - 1) + 1 = i
        /\ c * PointCount + (i - 1) = base + i - 1
    BY <1>1, <1>2
  <2>2. /\ c * PointCount + (i - 1) \in CpuRegisters
        /\ Image(t, c * PointCount + (i - 1)) = t.cpu[(i - 1) + 1][field]
    BY <2>1, <1>2, ImageOf
  <2>. QED
    BY <2>1, <2>2 DEF StageOf
<1>. QED
  BY <1>4, <1>5 DEF Lays

LEMMA GpuColumn ==
  ASSUME NEW t \in Table, NEW c \in 0..2, NEW n \in 0..PointCount,
         c = 2 => n <= PointCount - 3
  PROVE  Lays(Column("SetEcFanTable_Gpu", (c + 3) * PointCount, t.gpu,
                     <<"up", "down", "duty">>[c + 1], n),
              t, (c + 3) * PointCount, n)
<1>. DEFINE stage == "SetEcFanTable_Gpu"
            field == <<"up", "down", "duty">>[c + 1]
            points == t.gpu
            base  == (c + 3) * PointCount
            col   == Column(stage, base, points, field, n)
<1>1. PointCount \in Nat /\ PointCount > 3
  BY FanTableAssumption
<1>2. field \in Fields /\ ((c + 3) % 3) = c /\ base \in Nat
  BY <1>1 DEF Fields
<1>3. points \in [Point -> PointValue]
  BY DEF Table
<1>4. /\ col \in Seq(Entry) /\ Len(col) = n
      /\ \A i \in 1..n : /\ col[i].stage = stage
                         /\ col[i].addr = base + i - 1
                         /\ col[i].value = points[i][field]
  <2>1. stage \in Stages /\ base \in Int /\ field \in Fields
    BY <1>2 DEF Stages
  <2>. HIDE DEF stage, field, base, points
  <2>. QED
    BY <1>1, <1>3, <2>1, ColumnIs
<1>5. ASSUME NEW i \in 1..n
      PROVE  /\ StageOf(base + i - 1) = "SetEcFanTable_Gpu"
             /\ Image(t, base + i - 1) = t.gpu[i][field]
  <2>1. i - 1 \in 0..(PointCount - 1) /\ c + 3 \in 0..5 /\ c + 3 >= 3 /\ (i - 1) + 1 = i
    BY <1>1
  <2>2. base + (i - 1) = base + i - 1
    BY <1>2
  <2>3. base + i - 1 < Status1Addr
    BY <1>1 DEF Status1Addr
  <2>4. /\ base + (i - 1) \in GpuRegisters
        /\ Image(t, base + (i - 1)) = t.gpu[(i - 1) + 1][field]
    <3>. DEFINE k == c + 3  r == i - 1
    <3>1. k * PointCount + r < Status1Addr
      BY <2>2, <2>3
    <3>2. k * PointCount + r \in GpuRegisters
          /\ Image(t, k * PointCount + r) = t.gpu[r + 1][<<"up", "down", "duty">>[(k % 3) + 1]]
      <4>. HIDE DEF k, r
      <4>. QED
        BY <2>1, <3>1, ImageOf DEF k, r
    <3>. QED
      BY <3>2, <1>2
  <2>5. base + i - 1 \in GpuRegisters /\ base + i - 1 \notin CpuRegisters
    BY <1>1, <2>2, <2>4 DEF GpuRegisters, CpuRegisters, GpuUpBase
  <2>. QED
    BY <2>1, <2>2, <2>4, <2>5 DEF StageOf
<1>. QED
  BY <1>4, <1>5 DEF Lays

LEMMA TailLays ==
  ASSUME NEW t \in Table
  PROVE  Lays(TailPlan(t), t, Status1Addr, 3)
<1>1. PointCount \in Nat /\ PointCount > 3
  BY FanTableAssumption
<1>2. t.activated \in BOOLEAN /\ t.respective \in BOOLEAN
  BY DEF Table
<1>3. /\ Status1Addr \in Nat /\ Status2Addr = Status1Addr + 1 /\ CtrlAddr = Status1Addr + 2
      /\ \A a \in {Status1Addr, Status2Addr, CtrlAddr} :
           a \notin CpuRegisters /\ a \notin GpuRegisters
  BY <1>1 DEF Status1Addr, Status2Addr, CtrlAddr, CpuRegisters, GpuRegisters, GpuUpBase
<1>4. /\ Flag(t.activated) \in Byte /\ Flag(t.respective) \in Byte
      /\ TailControl(t) \in Byte
  BY <1>2 DEF Flag, TailControl, Byte
<1>5. /\ Image(t, Status1Addr) = Flag(t.activated)
      /\ Image(t, Status2Addr) = Flag(t.respective)
      /\ Image(t, CtrlAddr) = TailControl(t)
  BY <1>2, <1>3 DEF Image, Flag, TailControl
<1>6. \A a \in {Status1Addr, Status2Addr, CtrlAddr} : StageOf(a) = "FinalizeTailBytes"
  BY <1>3 DEF StageOf
<1>7. /\ [stage |-> "FinalizeTailBytes", addr |-> Status1Addr,
          value |-> Flag(t.activated)] \in Entry
      /\ [stage |-> "FinalizeTailBytes", addr |-> Status2Addr,
          value |-> Flag(t.respective)] \in Entry
      /\ [stage |-> "FinalizeTailBytes", addr |-> CtrlAddr,
          value |-> TailControl(t)] \in Entry
  BY <1>3, <1>4 DEF Entry, Stages
<1>8. TailPlan(t) \in Seq(Entry) /\ Len(TailPlan(t)) = 3
  BY <1>7 DEF TailPlan
<1>9. ASSUME NEW n \in 1..3
      PROVE  /\ TailPlan(t)[n].stage = StageOf(Status1Addr + n - 1)
             /\ TailPlan(t)[n].addr = Status1Addr + n - 1
             /\ TailPlan(t)[n].value = Image(t, Status1Addr + n - 1)
  <2>1. CASE n = 1
    <3>1. Status1Addr + n - 1 = Status1Addr
      BY <1>3, <2>1
    <3>. QED
      BY <1>5, <1>6, <2>1, <3>1 DEF TailPlan
  <2>2. CASE n = 2
    <3>1. Status1Addr + n - 1 = Status2Addr
      BY <1>3, <2>2
    <3>. QED
      BY <1>5, <1>6, <2>2, <3>1 DEF TailPlan
  <2>3. CASE n = 3
    <3>1. Status1Addr + n - 1 = CtrlAddr
      BY <1>3, <2>3
    <3>. QED
      BY <1>5, <1>6, <2>3, <3>1 DEF TailPlan
  <2>. QED
    BY <2>1, <2>2, <2>3
<1>. QED
  BY <1>8, <1>9 DEF Lays

(* The plan writes the registers one by one, each once, in their order.    *)
LEMMA PlanLays ==
  ASSUME NEW t \in Table
  PROVE  Lays(Plan(t), t, 0, CtrlAddr + 1)
<1>1. PointCount \in Nat /\ PointCount > 3
  BY FanTableAssumption
<1>2. /\ 0 * PointCount = CpuUpBase /\ 1 * PointCount = CpuDownBase
      /\ 2 * PointCount = CpuDutyBase /\ (0 + 3) * PointCount = GpuUpBase
      /\ (1 + 3) * PointCount = GpuDownBase /\ (2 + 3) * PointCount = GpuDutyBase
  BY <1>1 DEF CpuUpBase, CpuDownBase, CpuDutyBase, GpuUpBase, GpuDownBase, GpuDutyBase
<1>. DEFINE cpu(field, base) == Column("SetEcFanTable_Cpu", base, t.cpu, field, PointCount)
            gpu(field, base, n) == Column("SetEcFanTable_Gpu", base, t.gpu, field, n)
<1>3. /\ <<"up", "down", "duty">>[0 + 1] = "up" /\ <<"up", "down", "duty">>[1 + 1] = "down"
      /\ <<"up", "down", "duty">>[2 + 1] = "duty"
  OBVIOUS
<1>4. /\ Lays(cpu("up", CpuUpBase), t, CpuUpBase, PointCount)
      /\ Lays(cpu("down", CpuDownBase), t, CpuDownBase, PointCount)
      /\ Lays(cpu("duty", CpuDutyBase), t, CpuDutyBase, PointCount)
  <2>1. 0 \in 0..2 /\ 1 \in 0..2 /\ 2 \in 0..2 /\ PointCount \in 0..PointCount
    BY <1>1
  <2>2. Lays(cpu("up", CpuUpBase), t, CpuUpBase, PointCount)
    BY <1>2, <1>3, <2>1, CpuColumn
  <2>3. Lays(cpu("down", CpuDownBase), t, CpuDownBase, PointCount)
    BY <1>2, <1>3, <2>1, CpuColumn
  <2>4. Lays(cpu("duty", CpuDutyBase), t, CpuDutyBase, PointCount)
    BY <1>2, <1>3, <2>1, CpuColumn
  <2>. QED
    BY <2>2, <2>3, <2>4
<1>5. /\ Lays(gpu("up", GpuUpBase, PointCount), t, GpuUpBase, PointCount)
      /\ Lays(gpu("down", GpuDownBase, PointCount), t, GpuDownBase, PointCount)
      /\ Lays(gpu("duty", GpuDutyBase, PointCount - 3), t, GpuDutyBase, PointCount - 3)
  <2>1. /\ 0 \in 0..2 /\ 1 \in 0..2 /\ 2 \in 0..2
        /\ PointCount \in 0..PointCount /\ PointCount - 3 \in 0..PointCount
        /\ PointCount - 3 <= PointCount - 3
    BY <1>1
  <2>2. Lays(gpu("up", GpuUpBase, PointCount), t, GpuUpBase, PointCount)
    BY <1>2, <1>3, <2>1, GpuColumn
  <2>3. Lays(gpu("down", GpuDownBase, PointCount), t, GpuDownBase, PointCount)
    BY <1>2, <1>3, <2>1, GpuColumn
  <2>4. Lays(gpu("duty", GpuDutyBase, PointCount - 3), t, GpuDutyBase, PointCount - 3)
    BY <1>2, <1>3, <2>1, GpuColumn
  <2>. QED
    BY <2>2, <2>3, <2>4
<1>6. /\ CpuUpBase \in Nat /\ CpuUpBase + PointCount = CpuDownBase
      /\ CpuUpBase + (PointCount + PointCount) = CpuDutyBase
      /\ GpuUpBase \in Nat /\ GpuUpBase + PointCount = GpuDownBase
      /\ GpuUpBase + (PointCount + PointCount) = GpuDutyBase
      /\ PointCount + PointCount \in Nat /\ PointCount - 3 \in Nat
      /\ PointCount + PointCount + PointCount = GpuUpBase
      /\ PointCount + PointCount + (PointCount - 3) \in Nat
      /\ CpuUpBase + GpuUpBase = GpuUpBase
      /\ GpuUpBase + (PointCount + PointCount + (PointCount - 3)) = Status1Addr
      /\ CpuUpBase + Status1Addr = Status1Addr /\ Status1Addr \in Nat
      /\ Status1Addr + 3 = CtrlAddr + 1 /\ CpuUpBase = 0 /\ 3 \in Nat
  BY <1>1 DEF CpuUpBase, CpuDownBase, CpuDutyBase, GpuUpBase, GpuDownBase, GpuDutyBase,
              Status1Addr, CtrlAddr
<1>7. Lays(CpuPlan(t), t, CpuUpBase, GpuUpBase)
  <2>. DEFINE a == cpu("up", CpuUpBase)  b == cpu("down", CpuDownBase)
              c == cpu("duty", CpuDutyBase)
  <2>1. Lays(a, t, CpuUpBase, PointCount) /\ Lays(b, t, CpuDownBase, PointCount)
        /\ Lays(c, t, CpuDutyBase, PointCount)
    BY <1>4
  <2>2. Lays(a \o b \o c, t, CpuUpBase, PointCount + PointCount + PointCount)
    <3>. HIDE DEF a, b, c
    <3>1. Lays(a \o b, t, CpuUpBase, PointCount + PointCount)
      BY <1>1, <1>6, <2>1, LaysJoined
    <3>. QED
      BY <1>1, <1>6, <2>1, <3>1, LaysJoined
  <2>. QED
    BY <1>6, <2>2 DEF CpuPlan
<1>8. Lays(GpuPlan(t), t, GpuUpBase, PointCount + PointCount + (PointCount - 3))
  <2>. DEFINE a == gpu("up", GpuUpBase, PointCount)  b == gpu("down", GpuDownBase, PointCount)
              c == gpu("duty", GpuDutyBase, PointCount - 3)
  <2>1. Lays(a, t, GpuUpBase, PointCount) /\ Lays(b, t, GpuDownBase, PointCount)
        /\ Lays(c, t, GpuDutyBase, PointCount - 3)
    BY <1>5
  <2>2. Lays(a \o b \o c, t, GpuUpBase, PointCount + PointCount + (PointCount - 3))
    <3>. HIDE DEF a, b, c
    <3>1. Lays(a \o b, t, GpuUpBase, PointCount + PointCount)
      BY <1>1, <1>6, <2>1, LaysJoined
    <3>. QED
      BY <1>1, <1>6, <2>1, <3>1, LaysJoined
  <2>. QED
    BY <2>2 DEF GpuPlan
<1>9. Lays(CpuPlan(t) \o GpuPlan(t), t, CpuUpBase,
           GpuUpBase + (PointCount + PointCount + (PointCount - 3)))
  BY <1>6, <1>7, <1>8, LaysJoined
<1>10. Lays(CpuPlan(t) \o GpuPlan(t), t, CpuUpBase, Status1Addr)
  BY <1>6, <1>9
<1>11. Lays(Plan(t), t, CpuUpBase, Status1Addr + 3)
  BY <1>6, <1>10, TailLays, LaysJoined DEF Plan
<1>. QED
  BY <1>6, <1>11

LEMMA PlanAt ==
  ASSUME NEW t \in Table, NEW n \in 1..(CtrlAddr + 1)
  PROVE  /\ Len(Plan(t)) = CtrlAddr + 1
         /\ Plan(t)[n].stage = StageOf(n - 1)
         /\ Plan(t)[n].addr = n - 1
         /\ Plan(t)[n].value = Image(t, n - 1)
         /\ n - 1 \in Address /\ Image(t, n - 1) \in Byte
<1>1. PointCount \in Nat /\ CtrlAddr \in Nat
  BY FanTableAssumption DEF CtrlAddr
<1>2. 0 + n - 1 = n - 1
  BY <1>1
<1>3. /\ Plan(t) \in Seq(Entry) /\ Len(Plan(t)) = CtrlAddr + 1
      /\ Plan(t)[n].stage = StageOf(n - 1)
      /\ Plan(t)[n].addr = n - 1
      /\ Plan(t)[n].value = Image(t, n - 1)
  BY <1>2, PlanLays DEF Lays
<1>4. Plan(t)[n] \in Entry
  BY <1>3, ElementOfSeq
<1>. QED
  BY <1>1, <1>3, <1>4 DEF Entry, Address

LEMMA ImageTyped ==
  ASSUME NEW t \in Table, NEW a \in Address
  PROVE  Image(t, a) \in Byte
<1>1. PointCount \in Nat /\ CtrlAddr \in Nat
  BY FanTableAssumption DEF CtrlAddr
<1>2. a + 1 \in 1..(CtrlAddr + 1) /\ (a + 1) - 1 = a
  BY <1>1 DEF Address
<1>. QED
  BY <1>2, PlanAt

LEMMA Registers ==
  /\ CtrlAddr \in Nat /\ Status1Addr \in Nat /\ GpuUpBase \in Nat
  /\ Status1Addr = CtrlAddr - 2 /\ Status2Addr = CtrlAddr - 1
  /\ 0 < GpuUpBase /\ GpuUpBase < Status1Addr
  /\ Address = CpuRegisters \cup GpuRegisters \cup TailRegisters
  /\ CpuRegisters \cup GpuRegisters = 0..(Status1Addr - 1)
  /\ CtrlAddr = 6 * PointCount - 1
<1>1. PointCount \in Nat /\ PointCount > 3
  BY FanTableAssumption
<1>. QED
  BY <1>1 DEF CtrlAddr, Status1Addr, Status2Addr, GpuUpBase, Address, CpuRegisters,
              GpuRegisters, TailRegisters

LEMMA TailImage ==
  ASSUME NEW t \in Table, NEW a \in TailRegisters
  PROVE  Image(t, a) \in (IF a = CtrlAddr THEN {0, 1, 3} ELSE {0, 1})
<1>1. a \notin CpuRegisters /\ a \notin GpuRegisters
  BY Registers DEF CpuRegisters, GpuRegisters, TailRegisters
<1>2. a = CtrlAddr \/ a = Status1Addr \/ a = Status2Addr
  BY Registers DEF TailRegisters
<1>3. Status1Addr # CtrlAddr /\ Status2Addr # CtrlAddr /\ Status1Addr # Status2Addr
  BY Registers
<1>. QED
  BY <1>1, <1>2, <1>3 DEF Image

--------------------------------------------------------------------------------
(* Loading.                                                                *)

LEMMA FilledTyped ==
  ASSUME NEW format, NEW points, format \in {"json", "ini"},
         Points(format, points), Parsed(format, points)
  PROVE  Filled(format, points) \in [Point -> PointValue]
<1>1. [up |-> 0, down |-> 0, duty |-> 0] \in PointValue
  BY DEF PointValue, Byte
<1>2. format = "json" => points[Len(points)] \in PointValue
  <2>1. SUFFICES ASSUME format = "json" PROVE points[Len(points)] \in PointValue
    OBVIOUS
  <2>2. points \in Seq(PointValue) /\ points # << >>
    BY <2>1 DEF Points, Parsed
  <2>3. Len(points) \in 1..Len(points)
    BY <2>2, EmptySeq, LenProperties
  <2>. QED
    BY <2>2, <2>3, ElementOfSeq
<1>3. ASSUME NEW i \in Point
      PROVE  Filled(format, points)[i] \in PointValue
  BY <1>1, <1>2 DEF Filled, Points
<1>. QED
  BY <1>3 DEF Filled

LEMMA RampFits ==
  ASSUME NEW up \in {40, 45}, NEW duty \in {18, 20}
  PROVE  Ramp(up, duty) \in [Point -> PointValue] /\ Valid(Ramp(up, duty))
<1>1. PointCount \in Nat /\ PointCount <= 20
  BY FanTableAssumption
<1>2. ASSUME NEW i \in Point
      PROVE  /\ up + 3 * (i - 1) \in Byte /\ up + 3 * (i - 1) - 3 \in Byte
             /\ up + 3 * (i - 1) - 3 <= up + 3 * (i - 1)
             /\ (IF duty + 5 * (i - 1) > 100 THEN 100 ELSE duty + 5 * (i - 1)) \in Byte
             /\ (IF duty + 5 * (i - 1) > 100 THEN 100 ELSE duty + 5 * (i - 1)) <= 100
  BY <1>1 DEF Point, Byte
<1>3. Ramp(up, duty) \in [Point -> PointValue]
  BY <1>2 DEF Ramp, PointValue
<1>4. ASSUME NEW i \in Point
      PROVE  Ramp(up, duty)[i].down <= Ramp(up, duty)[i].up /\ Ramp(up, duty)[i].duty <= 100
  BY <1>2 DEF Ramp
<1>5. ASSUME NEW i \in 1..(PointCount - 1)
      PROVE  Sorted(Ramp(up, duty)[i], Ramp(up, duty)[i + 1])
  <2>1. i \in Point /\ i + 1 \in Point
    BY <1>1 DEF Point
  <2>. QED
    BY <1>1, <2>1 DEF Ramp, Sorted, Point
<1>. QED
  BY <1>3, <1>4, <1>5 DEF Valid

(* Every set of naturals that is not empty has a least element.            *)
LEMMA LeastExists ==
  ASSUME NEW T, T \subseteq Nat, T # {}
  PROVE  \E x \in T : \A y \in T : x <= y
<1>. DEFINE Below == {p \in Nat \X Nat : p[1] < p[2]}
<1>1. IsWellFoundedOn(Below, Nat)
  BY NatLessThanWellFounded DEF OpToRel
<1>2. PICK x \in T : \A y \in T : <<y, x>> \notin Below
  <2>. HIDE DEF Below
  <2>. QED
    BY <1>1, WFMin
<1>3. ASSUME NEW y \in T PROVE x <= y
  <2>1. <<y, x>> \notin Below /\ x \in Nat /\ y \in Nat
    BY <1>2
  <2>. QED
    BY <2>1
<1>. QED
  BY <1>2, <1>3

Fits(t) == t \in Table /\ Valid(t.cpu) /\ Valid(t.gpu)

LEMMA DocumentFits ==
  ASSUME NEW file \in DOMAIN Files, NEW i \in DOMAIN Files[file],
         Document(Files[file][i]), Loads(Files[file][i])
  PROVE  Fits(TableOf(file, Files[file][i]))
<1>. DEFINE doc == Files[file][i]
<1>1. /\ Filled(doc.format, doc.cpu) \in [Point -> PointValue]
      /\ Filled(doc.format, doc.gpu) \in [Point -> PointValue]
  BY FilledTyped DEF Document, Loads
<1>2. (IF doc.name = None THEN file ELSE doc.name) \in Title
  BY DEF Title, Loads
<1>3. TableOf(file, doc) \in Table
  BY <1>1, <1>2 DEF TableOf, Table, Document
<1>. QED
  BY <1>3 DEF Fits, TableOf, Loads

(* A name gives a table that is fit to be programmed, if a file of it has  *)
(* one.                                                                    *)
LEMMA Loaded ==
  ASSUME NEW name \in Names
  PROVE  /\ LoadNamed(name) = None \/ Fits(LoadNamed(name))
         /\ LoadNamed(name) = None =>
              name \in DOMAIN Files /\ \A i \in DOMAIN Files[name] : ~Loads(Files[name][i])
<1>1. CASE name = "demo"
  <2>1. /\ Ramp(40, 18) \in [Point -> PointValue] /\ Valid(Ramp(40, 18))
        /\ Ramp(45, 20) \in [Point -> PointValue] /\ Valid(Ramp(45, 20))
    BY RampFits
  <2>2. Fits(DemoTable)
    BY <2>1 DEF Fits, DemoTable, Table, Title
  <2>3. LoadNamed(name) = DemoTable
    BY <1>1 DEF LoadNamed
  <2>4. DemoTable # None
    BY <2>2, FilesAssumption DEF Fits
  <2>. QED
    BY <2>2, <2>3, <2>4
<1>2. CASE name # "demo"
  <2>. DEFINE files == Files[name]
              good  == {i \in 1..Len(files) : Loads(files[i])}
              least == CHOOSE i \in good : \A j \in good : i <= j
  <2>1. name \in DOMAIN Files
    BY <1>2, FanTableAssumption
  <2>2. DOMAIN files = 1..Len(files) /\ Len(files) \in Nat
        /\ \A i \in DOMAIN files : files[i] = None \/ Document(files[i])
    BY <2>1, FilesAssumption
  <2>3. LoadNamed(name) = IF good = {} THEN None ELSE TableOf(name, files[least])
    BY <1>2 DEF LoadNamed
  <2>4. ASSUME good # {}
        PROVE  Fits(TableOf(name, files[least]))
    <3>1. good \subseteq Nat
      BY <2>2
    <3>2. PICK i \in good : \A j \in good : i <= j
      <4>. HIDE DEF good
      <4>. QED
        BY <2>4, <3>1, LeastExists
    <3>3. least \in good
      BY <3>2
    <3>4. least \in DOMAIN files /\ Loads(files[least]) /\ Document(files[least])
      BY <2>2, <3>3 DEF Loads
    <3>. QED
      BY <2>1, <3>4, DocumentFits
  <2>5. good = {} => \A i \in DOMAIN files : ~Loads(files[i])
    BY <2>2
  <2>. QED
    BY <2>1, <2>3, <2>4, <2>5, FilesAssumption DEF Fits
<1>. QED
  BY <1>1, <1>2

(* A list that rises as far as it goes is valid once it is filled.         *)
LEMMA RisingIsValid ==
  ASSUME NEW points \in Seq(PointValue), Rises(points)
  PROVE  Parsed("json", points) /\ Valid(Filled("json", points))
<1>. DEFINE all == Filled("json", points)
            at(i) == IF i <= Len(points) THEN i ELSE Len(points)
<1>1. PointCount \in Nat /\ PointCount > 3
  BY FanTableAssumption
<1>2. Len(points) \in 1..PointCount /\ DOMAIN points = 1..Len(points)
  BY <1>1, EmptySeq, LenProperties DEF Rises
<1>3. DOMAIN points \subseteq Point
  BY <1>1, <1>2 DEF Point
<1>4. ASSUME NEW i \in Point
      PROVE  at(i) \in DOMAIN points /\ all[i] = points[at(i)]
  BY <1>1, <1>2, <1>3 DEF Filled, Point
<1>5. \A i \in Point : all[i].down <= all[i].up /\ all[i].duty <= 100
  BY <1>4 DEF Rises
<1>6. ASSUME NEW i \in 1..(PointCount - 1)
      PROVE  Sorted(all[i], all[i + 1])
  <2>1. i \in Point /\ i + 1 \in Point
    BY <1>1 DEF Point
  <2>2. at(i) < at(i + 1) \/ at(i) = at(i + 1)
    BY <1>1, <1>2
  <2>3. CASE at(i) < at(i + 1)
    BY <1>4, <2>1, <2>3 DEF Rises
  <2>4. CASE at(i) = at(i + 1)
    <3>1. all[i] = all[i + 1] /\ all[i] \in PointValue
      <4>1. points[at(i)] \in PointValue
        BY <1>2, <1>4, <2>1, ElementOfSeq
      <4>. QED
        BY <1>4, <2>1, <2>4, <4>1
    <3>2. all[i].up \in Int /\ all[i].down \in Int /\ all[i].duty \in Int
      <4>1. all[i].up \in Byte /\ all[i].down \in Byte /\ all[i].duty \in Byte
        BY <3>1 DEF PointValue
      <4>2. \A b \in Byte : b \in Int
        BY DEF Byte
      <4>. QED
        BY <4>1, <4>2
    <3>. DEFINE p == all[i]  q == all[i + 1]
    <3>3. p = q /\ p.up <= p.up /\ p.down <= p.down /\ p.duty <= p.duty
      BY <3>1, <3>2
    <3>. HIDE DEF p, q
    <3>. QED
      BY <3>3 DEF Sorted, p, q
  <2>. QED
    BY <2>2, <2>3, <2>4
<1>7. Valid(all)
  BY <1>5, <1>6 DEF Valid
<1>8. Parsed("json", points)
  BY <1>3 DEF Parsed, Rises
<1>. QED
  BY <1>7, <1>8

--------------------------------------------------------------------------------
(* What every step of a command knows: the registers before the position   *)
(* in the plan hold the new table, those behind it have not been reached.  *)

Writing ==
  pc = "write" =>
    /\ result.status = "none" /\ ~result.hardware_write
    /\ written = 0..(next - 2)
    /\ ~dry_run => Hold(0..(next - 2), table)

Broken ==
  result.status = "IO" =>
    /\ pc = "idle" /\ ~dry_run
    /\ table # None /\ next \in 1..(CtrlAddr + 1)
    /\ result.stage = StageOf(next - 1)
    /\ written \subseteq 0..(next - 1)
    /\ Hold(0..(next - 2), table)

Finished ==
  result.status = "OK" =>
    /\ pc = "idle" /\ table # None
    /\ result.hardware_write => ~dry_run /\ Hold(Address, table)

(* What a command under way may have taken from the table before it.       *)
Reached == disturbed \cup (IF pc = "write" THEN written ELSE {})

Retained ==
  /\ shadow = IF retained = None THEN Seeded ELSE retained.name
  /\ retained # None /\ ~dry_run => Hold(Address \ Reached, retained)

Refused ==
  result.status = "NOT_FOUND" => requested \in Names /\ LoadNamed(requested) = None

Sound == table # None => Fits(table)

IInv ==
  /\ TypeOK /\ Sound
  /\ Writing /\ Broken /\ Finished /\ Retained /\ Refused
  /\ ReservedBytesKeepTail

LEMMA NextByte ==
  ASSUME IInv, pc = "write"
  PROVE  /\ table \in Table /\ table # None /\ Fits(table)
         /\ next \in 1..(CtrlAddr + 1)
         /\ Len(Plan(table)) = CtrlAddr + 1
         /\ Plan(table)[next].addr = next - 1
         /\ Plan(table)[next].value = Image(table, next - 1)
         /\ Plan(table)[next].stage = StageOf(next - 1)
         /\ next - 1 \in Address /\ Image(table, next - 1) \in Byte
<1>1. table \in Table /\ table # None /\ Fits(table) /\ next \in 1..Len(Plan(table))
  BY DEF IInv, TypeOK, Sound
<1>2. CtrlAddr \in Nat /\ 1 \in 1..(CtrlAddr + 1)
  BY Registers
<1>3. Len(Plan(table)) = CtrlAddr + 1
  BY <1>1, <1>2, PlanAt
<1>. QED
  BY <1>1, <1>3, PlanAt

LEMMA StagesKnown ==
  ASSUME NEW a
  PROVE  StageOf(a) \in {"SetEcFanTable_Cpu", "SetEcFanTable_Gpu", "FinalizeTailBytes"}
BY DEF StageOf

LEMMA InitCase == Init => IInv
<1>. SUFFICES ASSUME Init PROVE IInv
  OBVIOUS
<1>1. TypeOK
  BY FanTableAssumption DEF Init, TypeOK, NoResult, Byte, Seeded
<1>2. ReservedBytesKeepTail
  BY Registers DEF Init, ReservedBytesKeepTail, TailRegisters
<1>. QED
  BY <1>1, <1>2 DEF Init, IInv, Sound, Writing, Broken, Finished, Retained, Refused, NoResult

LEMMA ApplyCase ==
  ASSUME IInv, NEW name \in Names, ApplyFanTable(name)
  PROVE  IInv'
<1>1. CASE LoadNamed(name) = None
  <2>1. /\ requested' = name /\ result' = [NoResult EXCEPT !.status = "NOT_FOUND"]
        /\ UNCHANGED <<dry_run, pc, table, next, ec, shadow, retained, written, disturbed,
                       overwritten, interrupted>>
        /\ pc = "idle"
    BY <1>1 DEF ApplyFanTable
  <2>2. result'.status = "NOT_FOUND"
    BY <2>1 DEF NoResult
  <2>3. TypeOK'
    BY <2>1 DEF IInv, TypeOK, NoResult
  <2>4. Sound' /\ Writing' /\ Broken' /\ Finished'
    BY <2>1, <2>2 DEF IInv, Sound, Writing, Broken, Finished
  <2>5. Retained' /\ ReservedBytesKeepTail'
    BY <2>1 DEF IInv, Retained, Reached, Hold, ReservedBytesKeepTail
  <2>6. Refused'
    BY <1>1, <2>1 DEF Refused
  <2>. QED
    BY <2>3, <2>4, <2>5, <2>6 DEF IInv
<1>2. CASE LoadNamed(name) # None
  <2>1. /\ requested' = name /\ result' = NoResult /\ pc' = "write" /\ next' = 1
        /\ table' = LoadNamed(name) /\ written' = {}
        /\ UNCHANGED <<dry_run, ec, shadow, retained, disturbed, overwritten, interrupted>>
        /\ pc = "idle"
    BY <1>2 DEF ApplyFanTable
  <2>2. Fits(table') /\ table' \in Table
    BY <1>2, <2>1, Loaded DEF Fits
  <2>3. Len(Plan(table')) = CtrlAddr + 1 /\ 1 \in 1..(CtrlAddr + 1)
    BY <2>2, Registers, PlanAt
  <2>4. TypeOK'
    BY <1>2, <2>1, <2>2, <2>3 DEF IInv, TypeOK, NoResult
  <2>5. result'.status = "none" /\ ~result'.hardware_write /\ 0..(1 - 2) = {}
    BY <2>1 DEF NoResult
  <2>6. Sound' /\ Broken' /\ Finished' /\ Refused'
    BY <2>2, <2>5 DEF Sound, Broken, Finished, Refused
  <2>7. Writing'
    BY <2>1, <2>5 DEF Writing, Hold
  <2>8. Retained' /\ ReservedBytesKeepTail'
    BY <2>1 DEF IInv, Retained, Reached, Hold, ReservedBytesKeepTail
  <2>. QED
    BY <2>4, <2>6, <2>7, <2>8 DEF IInv
<1>. QED
  BY <1>1, <1>2

(* What one byte of the plan adds to what the controller holds.            *)
LEMMA ByteWritten ==
  ASSUME IInv, pc = "write",
         dry_run \/ ec' = [ec EXCEPT ![next - 1] = Image(table, next - 1)],
         dry_run => ec' = ec,
         overwritten' \in {overwritten, overwritten \ {next - 1}},
         dry_run => overwritten' = overwritten
  PROVE  /\ ec' \in [Address -> Byte]
         /\ ~dry_run => \A a \in (0..(next - 1)) \ overwritten' : ec'[a] = Image(table, a)
         /\ ReservedBytesKeepTail'
         /\ \A a \in Address : a # next - 1 => ec'[a] = ec[a]
         /\ \A a : a \notin overwritten' /\ a # next - 1 => a \notin overwritten
<1>1. /\ table \in Table /\ next \in 1..(CtrlAddr + 1)
      /\ next - 1 \in Address /\ Image(table, next - 1) \in Byte
  BY NextByte
<1>2. ec \in [Address -> Byte]
  BY DEF IInv, TypeOK
<1>3. ec' \in [Address -> Byte]
  BY <1>1, <1>2
<1>4. \A a \in Address : a # next - 1 => ec'[a] = ec[a]
  BY <1>1, <1>2
<1>5. ~dry_run => ec'[next - 1] = Image(table, next - 1)
  BY <1>1, <1>2
<1>6. \A a : a \notin overwritten' /\ a # next - 1 => a \notin overwritten
  OBVIOUS
<1>7. ASSUME ~dry_run, NEW a \in (0..(next - 1)) \ overwritten'
      PROVE  ec'[a] = Image(table, a)
  <2>1. CASE a = next - 1
    BY <1>5, <1>7, <2>1
  <2>2. CASE a # next - 1
    <3>1. a \in 0..(next - 2) /\ a \notin overwritten /\ a \in Address
      BY <1>1, <1>6, <2>2, Registers DEF Address
    <3>2. Hold(0..(next - 2), table)
      BY <1>7 DEF IInv, Writing
    <3>. QED
      BY <1>4, <2>2, <3>1, <3>2 DEF Hold
  <2>. QED
    BY <2>1, <2>2
<1>8. ReservedBytesKeepTail'
  <2>1. SUFFICES ASSUME NEW a \in TailRegisters, a \notin overwritten'
                 PROVE  ec'[a] \in (IF a = CtrlAddr THEN {0, 1, 3} ELSE {0, 1})
    BY DEF ReservedBytesKeepTail
  <2>2. a \in Address
    BY Registers
  <2>3. CASE a = next - 1 /\ ~dry_run
    BY <1>1, <1>5, <2>3, TailImage
  <2>4. CASE a # next - 1 \/ dry_run
    <3>1. ec'[a] = ec[a] /\ a \notin overwritten
      BY <1>4, <1>6, <2>1, <2>2, <2>4
    <3>. QED
      BY <2>1, <3>1 DEF IInv, ReservedBytesKeepTail
  <2>. QED
    BY <2>3, <2>4
<1>. QED
  BY <1>3, <1>4, <1>6, <1>7, <1>8

LEMMA WriteByteCase ==
  ASSUME IInv, WriteByte
  PROVE  IInv'
<1>. DEFINE n == next
<1>1. /\ table \in Table /\ table # None /\ Fits(table) /\ next \in 1..(CtrlAddr + 1)
      /\ Len(Plan(table)) = CtrlAddr + 1
      /\ Plan(table)[next].addr = next - 1
      /\ Plan(table)[next].value = Image(table, next - 1)
      /\ Plan(table)[next].stage = StageOf(next - 1)
      /\ next - 1 \in Address
  BY NextByte DEF WriteByte
<1>2. /\ pc = "write" /\ next' = next + 1
      /\ UNCHANGED <<dry_run, table, requested>>
      /\ ec' = IF dry_run THEN ec ELSE [ec EXCEPT ![next - 1] = Image(table, next - 1)]
      /\ overwritten' = IF dry_run THEN overwritten ELSE overwritten \ {next - 1}
      /\ written' = written \cup {next - 1}
  BY <1>1 DEF WriteByte
<1>3. /\ ec' \in [Address -> Byte]
      /\ ~dry_run => \A a \in (0..(next - 1)) \ overwritten' : ec'[a] = Image(table, a)
      /\ ReservedBytesKeepTail'
      /\ \A a \in Address : a # next - 1 => ec'[a] = ec[a]
      /\ \A a : a \notin overwritten' /\ a # next - 1 => a \notin overwritten
  BY <1>2, ByteWritten
<1>4. /\ result \in [status : {"none", "OK", "IO", "NOT_FOUND"},
                     stage : {"none", "SetEcFanTable_Cpu", "SetEcFanTable_Gpu",
                              "FinalizeTailBytes"},
                     hardware_write : BOOLEAN]
      /\ StageOf(next - 1) \in {"SetEcFanTable_Cpu", "SetEcFanTable_Gpu",
                                "FinalizeTailBytes"}
  BY StagesKnown DEF IInv, TypeOK
<1>5. Sound'
  BY <1>1, <1>2 DEF Sound
<1>6. CASE next < CtrlAddr + 1
  <2>1. /\ result' = [result EXCEPT !.stage = StageOf(next - 1)]
        /\ UNCHANGED <<pc, shadow, retained, disturbed, interrupted>>
    BY <1>1, <1>6 DEF WriteByte
  <2>2. /\ result'.status = "none" /\ ~result'.hardware_write
        /\ result' \in [status : {"none", "OK", "IO", "NOT_FOUND"},
                        stage : {"none", "SetEcFanTable_Cpu", "SetEcFanTable_Gpu",
                                 "FinalizeTailBytes"},
                        hardware_write : BOOLEAN]
    BY <1>2, <1>4, <2>1 DEF IInv, Writing
  <2>3. next' \in 1..Len(Plan(table'))
    BY <1>1, <1>2, <1>6, Registers
  <2>4. written' \subseteq Address /\ overwritten' \subseteq Address
    BY <1>1, <1>2 DEF IInv, TypeOK
  <2>5. TypeOK'
    BY <1>2, <1>3, <2>1, <2>2, <2>3, <2>4 DEF IInv, TypeOK
  <2>6. written' = 0..(next' - 2)
    <3>1. written = 0..(next - 2) /\ next' - 2 = next - 1
      BY <1>1, <1>2, Registers DEF IInv, Writing
    <3>2. next \in Int /\ next >= 1
      BY <1>1, Registers
    <3>3. (0..(next - 2)) \cup {next - 1} = 0..(next - 1)
      BY <3>2
    <3>. QED
      BY <1>2, <3>1, <3>3
  <2>7. Writing'
    <3>1. next' - 2 = next - 1
      BY <1>1, <1>2, Registers
    <3>. QED
      BY <1>2, <1>3, <2>2, <2>6, <3>1 DEF Writing, Hold
  <2>8. Retained'
    <3>1. ASSUME retained # None, ~dry_run, NEW a \in Address,
                 a \notin disturbed, a \notin written', a \notin overwritten'
          PROVE  ec'[a] = Image(retained, a)
      <4>1. a # next - 1 /\ a \notin written
        BY <1>2, <3>1
      <4>2. a \in Address \ Reached
        BY <3>1, <4>1 DEF Reached
      <4>. QED
        BY <1>3, <3>1, <4>1, <4>2 DEF IInv, Retained, Hold
    <3>2. Reached' = disturbed \cup written'
      BY <1>2, <2>1 DEF Reached
    <3>3. retained' # None /\ ~dry_run' => Hold(Address \ Reached, retained)'
      BY <1>2, <2>1, <3>1, <3>2 DEF Hold
    <3>4. shadow' = IF retained' = None THEN Seeded ELSE retained'.name
      BY <2>1 DEF IInv, Retained
    <3>. QED
      BY <3>3, <3>4 DEF Retained
  <2>9. Broken' /\ Finished' /\ Refused'
    BY <2>2 DEF Broken, Finished, Refused
  <2>. QED
    BY <1>3, <1>5, <2>5, <2>7, <2>8, <2>9 DEF IInv
<1>7. CASE ~(next < CtrlAddr + 1)
  <2>1. /\ pc' = "idle" /\ shadow' = table.name /\ retained' = table
        /\ result' = [status |-> "OK", stage |-> StageOf(next - 1),
                      hardware_write |-> ~dry_run]
        /\ disturbed' = {} /\ interrupted' = 0
    BY <1>1, <1>7 DEF WriteByte
  <2>2. next - 1 = CtrlAddr
    BY <1>1, <1>7, Registers
  <2>3. ~dry_run => \A a \in Address \ overwritten' : ec'[a] = Image(table, a)
    BY <1>3, <2>2 DEF Address
  <2>4. result'.status = "OK" /\ (result'.hardware_write => ~dry_run)
    BY <2>1
  <2>5. written' \subseteq Address /\ overwritten' \subseteq Address
    BY <1>1, <1>2 DEF IInv, TypeOK
  <2>6. TypeOK'
    <3>1. table.name \in Title /\ 0 \in 0..MaxInterrupted /\ dry_run \in BOOLEAN
      BY <1>1, FanTableAssumption DEF Table, IInv, TypeOK
    <3>2. result' \in [status : {"none", "OK", "IO", "NOT_FOUND"},
                       stage : {"none", "SetEcFanTable_Cpu", "SetEcFanTable_Gpu",
                                "FinalizeTailBytes"},
                       hardware_write : BOOLEAN]
      BY <1>4, <2>1, <3>1
    <3>. QED
      BY <1>1, <1>2, <1>3, <2>1, <2>5, <3>1, <3>2 DEF IInv, TypeOK
  <2>7. Finished'
    BY <1>1, <1>2, <2>1, <2>3, <2>4 DEF Finished, Hold
  <2>8. Retained'
    BY <1>1, <1>2, <2>1, <2>3 DEF Retained, Hold, Reached
  <2>9. Writing' /\ Broken' /\ Refused'
    BY <2>1, <2>4 DEF Writing, Broken, Refused
  <2>. QED
    BY <1>3, <1>5, <2>6, <2>7, <2>8, <2>9 DEF IInv
<1>. QED
  BY <1>6, <1>7

LEMMA WriteFailsCase ==
  ASSUME IInv, WriteFails
  PROVE  IInv'
<1>1. /\ table \in Table /\ table # None /\ Fits(table) /\ next \in 1..(CtrlAddr + 1)
      /\ Plan(table)[next].addr = next - 1
      /\ Plan(table)[next].value = Image(table, next - 1)
      /\ Plan(table)[next].stage = StageOf(next - 1)
      /\ next - 1 \in Address
  BY NextByte DEF WriteFails
<1>2. /\ pc = "write" /\ ~dry_run /\ pc' = "idle" /\ interrupted < MaxInterrupted
      /\ result' = [result EXCEPT !.status = "IO", !.stage = StageOf(next - 1)]
      /\ \/ UNCHANGED <<ec, written>>
         \/ /\ ec' = [ec EXCEPT ![next - 1] = Image(table, next - 1)]
            /\ written' = written \cup {next - 1}
      /\ disturbed' = disturbed \cup written'
      /\ interrupted' = interrupted + 1
      /\ UNCHANGED <<dry_run, table, next, shadow, requested, retained, overwritten>>
  BY <1>1 DEF WriteFails
<1>3. /\ ec' \in [Address -> Byte]
      /\ ReservedBytesKeepTail'
      /\ \A a \in Address : a \notin written' => ec'[a] = ec[a]
      /\ \A a \in (0..(next - 2)) \ overwritten' : ec'[a] = Image(table, a)
  <2>1. CASE UNCHANGED <<ec, written>>
    BY <1>2, <2>1 DEF IInv, TypeOK, ReservedBytesKeepTail, Writing, Hold
  <2>2. CASE /\ ec' = [ec EXCEPT ![next - 1] = Image(table, next - 1)]
             /\ written' = written \cup {next - 1}
    <3>1. /\ ec' \in [Address -> Byte]
          /\ \A a \in (0..(next - 1)) \ overwritten' : ec'[a] = Image(table, a)
          /\ ReservedBytesKeepTail'
          /\ \A a \in Address : a # next - 1 => ec'[a] = ec[a]
      BY <1>2, <2>2, ByteWritten
    <3>2. 0..(next - 2) \subseteq 0..(next - 1)
      BY <1>1, Registers
    <3>. QED
      BY <2>2, <3>1, <3>2
  <2>. QED
    BY <1>2, <2>1, <2>2
<1>4. written \subseteq written' /\ written' \subseteq 0..(next - 1) /\ written' \subseteq Address
  <2>1. written = 0..(next - 2) /\ written \subseteq Address
    BY <1>2 DEF IInv, Writing, TypeOK
  <2>. QED
    BY <1>1, <1>2, <2>1, Registers
<1>5. /\ result'.status = "IO" /\ result'.stage = StageOf(next - 1)
      /\ result' \in [status : {"none", "OK", "IO", "NOT_FOUND"},
                      stage : {"none", "SetEcFanTable_Cpu", "SetEcFanTable_Gpu",
                               "FinalizeTailBytes"},
                      hardware_write : BOOLEAN]
  <2>1. /\ result \in [status : {"none", "OK", "IO", "NOT_FOUND"},
                       stage : {"none", "SetEcFanTable_Cpu", "SetEcFanTable_Gpu",
                                "FinalizeTailBytes"},
                       hardware_write : BOOLEAN]
        /\ StageOf(next - 1) \in {"SetEcFanTable_Cpu", "SetEcFanTable_Gpu",
                                  "FinalizeTailBytes"}
    BY StagesKnown DEF IInv, TypeOK
  <2>. QED
    BY <1>2, <2>1
<1>6. TypeOK'
  <2>1. interrupted' \in 0..MaxInterrupted
    BY <1>2, FanTableAssumption DEF IInv, TypeOK
  <2>2. disturbed' \subseteq Address
    BY <1>2, <1>4 DEF IInv, TypeOK
  <2>. QED
    BY <1>2, <1>3, <1>4, <1>5, <2>1, <2>2 DEF IInv, TypeOK
<1>7. Broken'
  BY <1>1, <1>2, <1>3, <1>4, <1>5 DEF Broken, Hold
<1>8. Retained'
  <2>1. ASSUME retained # None, NEW a \in Address, a \notin disturbed', a \notin overwritten
        PROVE  ec'[a] = Image(retained, a)
    <3>1. a \notin written' /\ a \in Address \ Reached
      BY <1>2, <1>4, <2>1 DEF Reached
    <3>. QED
      BY <1>2, <1>3, <2>1, <3>1 DEF IInv, Retained, Hold
  <2>2. Reached' = disturbed'
    BY <1>2 DEF Reached
  <2>. QED
    BY <1>2, <2>1, <2>2 DEF IInv, Retained, Hold
<1>9. Sound' /\ Writing' /\ Finished' /\ Refused'
  BY <1>1, <1>2, <1>5 DEF Sound, Writing, Finished, Refused
<1>. QED
  BY <1>3, <1>6, <1>7, <1>8, <1>9 DEF IInv

LEMMA CrashCase ==
  ASSUME IInv, Crash
  PROVE  IInv'
<1>1. TypeOK'
  <2>1. interrupted' \in 0..MaxInterrupted
    BY FanTableAssumption DEF Crash, IInv, TypeOK
  <2>. QED
    BY <2>1 DEF Crash, IInv, TypeOK, NoResult
<1>2. ReservedBytesKeepTail'
  BY DEF Crash, IInv, ReservedBytesKeepTail
<1>. QED
  BY <1>1, <1>2
  DEF Crash, IInv, Sound, Writing, Broken, Finished, Retained, Refused, NoResult

LEMMA DriftCase ==
  ASSUME IInv, NEW a \in DriftAddr, Drift(a)
  PROVE  IInv'
<1>1. /\ ec' = [ec EXCEPT ![a] = Foreign] /\ overwritten' = overwritten \cup {a}
      /\ UNCHANGED <<dry_run, pc, table, next, shadow, result, requested, retained,
                     written, disturbed, interrupted>>
      /\ a \in Address
  BY FanTableAssumption DEF Drift
<1>2. ec \in [Address -> Byte] /\ Foreign \in Byte
  BY DEF IInv, TypeOK, Foreign, Byte
<1>3. \A b \in Address : b \notin overwritten' => ec'[b] = ec[b] /\ b \notin overwritten
  BY <1>1, <1>2
<1>4. TypeOK'
  BY <1>1, <1>2 DEF IInv, TypeOK
<1>5. ASSUME NEW registers, NEW t, registers \subseteq Address
      PROVE  (\A b \in registers \ overwritten : ec[b] = Image(t, b)) =>
               \A b \in registers \ overwritten' : ec'[b] = Image(t, b)
  BY <1>3, <1>5
<1>6. pc = "write" \/ result.status = "IO" => 0..(next - 2) \subseteq Address
  <2>1. CtrlAddr \in Nat
    BY Registers
  <2>2. pc = "write" \/ result.status = "IO" => next \in 1..(CtrlAddr + 1)
    BY NextByte DEF IInv, Broken
  <2>. QED
    BY <2>1, <2>2 DEF Address
<1>7. Writing'
  BY <1>1, <1>5, <1>6 DEF IInv, Writing, Hold
<1>8. Broken'
  BY <1>1, <1>5, <1>6 DEF IInv, Broken, Hold
<1>9. Finished'
  BY <1>1, <1>5 DEF IInv, Finished, Hold
<1>10. Retained'
  <2>1. Reached' = Reached
    BY <1>1 DEF Reached
  <2>2. ASSUME retained # None, ~dry_run
        PROVE  \A b \in (Address \ Reached) \ overwritten' : ec'[b] = Image(retained, b)
    BY <1>5, <2>2 DEF IInv, Retained, Hold
  <2>. QED
    BY <1>1, <2>1, <2>2 DEF IInv, Retained, Hold
<1>11. ReservedBytesKeepTail'
  BY <1>1, <1>3, Registers DEF IInv, ReservedBytesKeepTail
<1>12. Sound' /\ Refused'
  BY <1>1 DEF IInv, Sound, Refused
<1>. QED
  BY <1>4, <1>7, <1>8, <1>9, <1>10, <1>11, <1>12 DEF IInv

LEMMA StepCase == IInv /\ [Next]_vars => IInv'
<1>. SUFFICES ASSUME IInv, [Next]_vars PROVE IInv'
  OBVIOUS
<1>1. ASSUME NEW name \in Names, ApplyFanTable(name) PROVE IInv'
  BY <1>1, ApplyCase
<1>2. CASE WriteByte
  BY <1>2, WriteByteCase
<1>3. CASE WriteFails
  BY <1>3, WriteFailsCase
<1>4. CASE Crash
  BY <1>4, CrashCase
<1>5. ASSUME NEW a \in DriftAddr, Drift(a) PROVE IInv'
  BY <1>5, DriftCase
<1>6. CASE UNCHANGED vars
  BY <1>6 DEF vars, IInv, TypeOK, Sound, Writing, Broken, Finished, Retained, Reached,
              Refused, ReservedBytesKeepTail, Hold
<1>. QED
  BY <1>1, <1>2, <1>3, <1>4, <1>5, <1>6 DEF Next

(* What every stage of ApplyFanTable knows is inductive.                   *)
THEOREM Inductive == Spec => []IInv
BY InitCase, StepCase, PTL DEF Spec

--------------------------------------------------------------------------------
(* What follows from it.                                                   *)

(* The registers of a curve, in the order of its points.                   *)
LEMMA CurveRises ==
  ASSUME Fits(table), \A a \in Address : ec[a] = Image(table, a)
  PROVE  /\ \A base \in {CpuUpBase, CpuDownBase, CpuDutyBase, GpuUpBase, GpuDownBase} :
              \A i \in 1..(PointCount - 1) : ec[base + i - 1] <= ec[base + i]
         /\ \A i \in 1..(PointCount - 4) : ec[GpuDutyBase + i - 1] <= ec[GpuDutyBase + i]
         /\ \A i \in 0..(PointCount - 1) : /\ ec[CpuDownBase + i] <= ec[CpuUpBase + i]
                                           /\ ec[GpuDownBase + i] <= ec[GpuUpBase + i]
<1>. DEFINE name(c) == <<"up", "down", "duty">>[(c % 3) + 1]
            points(c) == IF c < 3 THEN table.cpu ELSE table.gpu
<1>1. PointCount \in Nat /\ PointCount > 3
  BY FanTableAssumption
<1>2. ASSUME NEW c \in 0..5, NEW r \in 0..(PointCount - 1),
             c < 5 \/ r < PointCount - 3
      PROVE  ec[c * PointCount + r] = points(c)[r + 1][name(c)]
  <2>1. c * PointCount + r < Status1Addr /\ c * PointCount + r \in Nat
    <3>1. c = 0 \/ c = 1 \/ c = 2 \/ c = 3 \/ c = 4 \/ c = 5
      OBVIOUS
    <3>. QED
      BY <1>1, <1>2, <3>1 DEF Status1Addr
  <2>2. c * PointCount + r \in Address
    BY <1>1, <2>1 DEF Address, Status1Addr, CtrlAddr
  <2>3. table \in Table
    BY DEF Fits
  <2>. QED
    BY <2>1, <2>2, <2>3, ImageOf
<1>3. /\ name(0) = "up" /\ name(1) = "down" /\ name(2) = "duty"
      /\ name(3) = "up" /\ name(4) = "down" /\ name(5) = "duty"
  OBVIOUS
<1>4. /\ points(0) = table.cpu /\ points(1) = table.cpu /\ points(2) = table.cpu
      /\ points(3) = table.gpu /\ points(4) = table.gpu /\ points(5) = table.gpu
  OBVIOUS
<1>5. /\ \A r \in 0..(PointCount - 1) :
           /\ ec[CpuUpBase + r] = table.cpu[r + 1].up
           /\ ec[CpuDownBase + r] = table.cpu[r + 1].down
           /\ ec[CpuDutyBase + r] = table.cpu[r + 1].duty
           /\ ec[GpuUpBase + r] = table.gpu[r + 1].up
           /\ ec[GpuDownBase + r] = table.gpu[r + 1].down
      /\ \A r \in 0..(PointCount - 4) : ec[GpuDutyBase + r] = table.gpu[r + 1].duty
  <2>. HIDE DEF name, points
  <2>1. /\ 0 * PointCount = CpuUpBase /\ 1 * PointCount = CpuDownBase
        /\ 2 * PointCount = CpuDutyBase /\ 3 * PointCount = GpuUpBase
        /\ 4 * PointCount = GpuDownBase /\ 5 * PointCount = GpuDutyBase
    BY <1>1 DEF CpuUpBase, CpuDownBase, CpuDutyBase, GpuUpBase, GpuDownBase, GpuDutyBase
  <2>2. ASSUME NEW r \in 0..(PointCount - 1)
        PROVE  /\ ec[CpuUpBase + r] = table.cpu[r + 1].up
               /\ ec[CpuDownBase + r] = table.cpu[r + 1].down
               /\ ec[CpuDutyBase + r] = table.cpu[r + 1].duty
               /\ ec[GpuUpBase + r] = table.gpu[r + 1].up
               /\ ec[GpuDownBase + r] = table.gpu[r + 1].down
    <3>1. /\ 0 \in 0..5 /\ 1 \in 0..5 /\ 2 \in 0..5 /\ 3 \in 0..5 /\ 4 \in 0..5
          /\ 0 < 5 /\ 1 < 5 /\ 2 < 5 /\ 3 < 5 /\ 4 < 5
      OBVIOUS
    <3>. QED
      BY <1>2, <1>3, <1>4, <2>1, <3>1
  <2>3. ASSUME NEW r \in 0..(PointCount - 4)
        PROVE  ec[GpuDutyBase + r] = table.gpu[r + 1].duty
    <3>1. 5 \in 0..5 /\ r \in 0..(PointCount - 1) /\ r < PointCount - 3
      BY <1>1
    <3>. QED
      BY <1>2, <1>3, <1>4, <2>1, <3>1
  <2>. QED
    BY <2>2, <2>3
<1>6. ASSUME NEW i \in 1..(PointCount - 1)
      PROVE  /\ ec[CpuUpBase + (i - 1)] <= ec[CpuUpBase + i]
             /\ ec[CpuDownBase + (i - 1)] <= ec[CpuDownBase + i]
             /\ ec[CpuDutyBase + (i - 1)] <= ec[CpuDutyBase + i]
             /\ ec[GpuUpBase + (i - 1)] <= ec[GpuUpBase + i]
             /\ ec[GpuDownBase + (i - 1)] <= ec[GpuDownBase + i]
             /\ i - 1 \in 0..(PointCount - 4) /\ i \in 0..(PointCount - 4) =>
                  ec[GpuDutyBase + (i - 1)] <= ec[GpuDutyBase + i]
  <2>1. i - 1 \in 0..(PointCount - 1) /\ i \in 0..(PointCount - 1) /\ (i - 1) + 1 = i
    BY <1>1
  <2>2. Sorted(table.cpu[i], table.cpu[i + 1]) /\ Sorted(table.gpu[i], table.gpu[i + 1])
    BY DEF Fits, Valid
  <2>. QED
    BY <1>5, <2>1, <2>2 DEF Sorted
<1>7. /\ CpuUpBase \in Int /\ CpuDownBase \in Int /\ CpuDutyBase \in Int
      /\ GpuUpBase \in Int /\ GpuDownBase \in Int /\ GpuDutyBase \in Int
  BY <1>1 DEF CpuUpBase, CpuDownBase, CpuDutyBase, GpuUpBase, GpuDownBase, GpuDutyBase
<1>8. ASSUME NEW base \in {CpuUpBase, CpuDownBase, CpuDutyBase, GpuUpBase, GpuDownBase},
             NEW i \in 1..(PointCount - 1)
      PROVE  ec[base + i - 1] <= ec[base + i]
  <2>1. base + i - 1 = base + (i - 1)
    BY <1>1, <1>7
  <2>2. ec[base + (i - 1)] <= ec[base + i]
    BY <1>6
  <2>. QED
    BY <2>1, <2>2
<1>9. ASSUME NEW i \in 1..(PointCount - 4)
      PROVE  ec[GpuDutyBase + i - 1] <= ec[GpuDutyBase + i]
  <2>1. /\ GpuDutyBase + i - 1 = GpuDutyBase + (i - 1) /\ i \in 1..(PointCount - 1)
        /\ i - 1 \in 0..(PointCount - 4) /\ i \in 0..(PointCount - 4)
    BY <1>1, <1>7
  <2>2. ec[GpuDutyBase + (i - 1)] <= ec[GpuDutyBase + i]
    BY <1>6, <2>1
  <2>. QED
    BY <2>1, <2>2
<1>10. ASSUME NEW i \in 0..(PointCount - 1)
       PROVE  ec[CpuDownBase + i] <= ec[CpuUpBase + i] /\ ec[GpuDownBase + i] <= ec[GpuUpBase + i]
  <2>1. i + 1 \in Point
    BY <1>1 DEF Point
  <2>2. /\ table.cpu[i + 1].down <= table.cpu[i + 1].up
        /\ table.gpu[i + 1].down <= table.gpu[i + 1].up
    BY <2>1 DEF Fits, Valid
  <2>. QED
    BY <1>5, <2>2
<1>. QED
  BY <1>8, <1>9, <1>10

(* Every register keeps a byte and every table the names, points and flags *)
(* a file can give it: lcc_fan_table_load_named, lcc_build_fan_plan.       *)
THEOREM TableTypes == Spec => []TypeOK
<1>1. IInv => TypeOK
  BY DEF IInv
<1>. QED
  BY <1>1, Inductive, PTL

(* An OK answer with hardware_write means that every register holds the    *)
(* table's byte, whatever was cut short before: amw0_apply_fan_table.      *)
THEOREM TablesProgrammed == Spec => []TableIsProgrammed
<1>1. ASSUME IInv PROVE TableIsProgrammed
  BY <1>1, Registers DEF IInv, Finished, TableIsProgrammed
<1>. QED
  BY <1>1, Inductive, PTL

(* The table the backend remembers is the last one programmed as a whole,  *)
(* and outside what was cut short since, the controller still holds it:    *)
(* amw0_apply_fan_table remembers a name only after its last byte.         *)
THEOREM BelievedIsProgrammed == Spec => []RetainedIsProgrammed
<1>1. ASSUME IInv PROVE RetainedIsProgrammed
  <2>1. pc = "idle" => Reached = disturbed
    BY DEF Reached
  <2>. QED
    BY <1>1, <2>1 DEF IInv, Retained, RetainedIsProgrammed
<1>. QED
  BY <1>1, Inductive, PTL

(* No duty reaches the status and control bytes: lcc_build_fan_plan leaves *)
(* the last three GPU duties out.                                          *)
THEOREM TailKept == Spec => []ReservedBytesKeepTail
<1>1. IInv => ReservedBytesKeepTail
  BY DEF IInv
<1>. QED
  BY <1>1, Inductive, PTL

(* The tail is written only when all columns are in place: the order of    *)
(* lcc_build_fan_plan.                                                     *)
THEOREM ColumnsFirst == Spec => ActivatedWhenComplete
<1>1. ASSUME IInv, [Next]_vars
      PROVE  [\A a \in TailRegisters :
                ec'[a] # ec[a] /\ overwritten' \subseteq overwritten =>
                  Hold(CpuRegisters \cup GpuRegisters, table)]_vars
  <2>. SUFFICES ASSUME NEW a \in TailRegisters, ec'[a] # ec[a],
                       overwritten' \subseteq overwritten
                PROVE  Hold(CpuRegisters \cup GpuRegisters, table)
    OBVIOUS
  <2>1. a \in Address
    BY Registers
  <2>2. ec \in [Address -> Byte]
    BY <1>1 DEF IInv, TypeOK
  <2>3. ASSUME pc = "write", ~dry_run, ec' = [ec EXCEPT ![next - 1] = Image(table, next - 1)]
        PROVE  Hold(CpuRegisters \cup GpuRegisters, table)
    <3>1. a = next - 1 /\ next \in 1..(CtrlAddr + 1)
      BY <1>1, <2>1, <2>2, <2>3, NextByte
    <3>2. CpuRegisters \cup GpuRegisters \subseteq 0..(next - 2)
      BY <3>1, Registers DEF TailRegisters
    <3>3. Hold(0..(next - 2), table)
      BY <1>1, <2>3 DEF IInv, Writing
    <3>. QED
      BY <3>2, <3>3 DEF Hold
  <2>4. CASE WriteByte
    <3>1. pc = "write" /\ ~dry_run /\ ec' = [ec EXCEPT ![next - 1] = Image(table, next - 1)]
      BY <1>1, <2>4, NextByte DEF WriteByte
    <3>. QED
      BY <2>3, <3>1
  <2>5. CASE WriteFails
    <3>1. pc = "write" /\ ~dry_run /\ ec' = [ec EXCEPT ![next - 1] = Image(table, next - 1)]
      BY <1>1, <2>5, NextByte DEF WriteFails
    <3>. QED
      BY <2>3, <3>1
  <2>6. ASSUME NEW b \in DriftAddr, Drift(b)
        PROVE  FALSE
    BY <2>6 DEF Drift
  <2>7. CASE UNCHANGED ec
    BY <2>7
  <2>. QED
    BY <1>1, <2>4, <2>5, <2>6, <2>7 DEF Next, vars, ApplyFanTable, Crash
<1>. QED
  BY <1>1, Inductive, PTL DEF Spec, ActivatedWhenComplete

(* The stage of a failed command tells how far the controller got:         *)
(* apply_plan_ec_write.                                                    *)
THEOREM StagesTell == Spec => []StageTellsProgress
<1>1. ASSUME IInv PROVE StageTellsProgress
  <2>. SUFFICES ASSUME result.status = "IO" PROVE StageTellsProgress
    BY DEF StageTellsProgress
  <2>1. /\ next \in 1..(CtrlAddr + 1) /\ result.stage = StageOf(next - 1)
        /\ written \subseteq 0..(next - 1) /\ Hold(0..(next - 2), table)
    BY <1>1 DEF IInv, Broken
  <2>2. CASE next - 1 \in CpuRegisters
    <3>1. result.stage = "SetEcFanTable_Cpu" /\ written \subseteq CpuRegisters
      BY <2>1, <2>2, Registers DEF StageOf, CpuRegisters
    <3>. QED
      BY <3>1 DEF StageTellsProgress
  <2>3. CASE next - 1 \notin CpuRegisters /\ next - 1 \in GpuRegisters
    <3>1. result.stage = "SetEcFanTable_Gpu"
      BY <2>1, <2>3 DEF StageOf
    <3>2. /\ next \in Int /\ GpuUpBase <= next - 1 /\ next - 1 <= Status1Addr - 1
          /\ GpuUpBase \in Nat /\ Status1Addr \in Nat
      BY <2>1, <2>3, Registers DEF GpuRegisters
    <3>3. written \subseteq CpuRegisters \cup GpuRegisters
      <4>1. 0..(next - 1) \subseteq 0..(Status1Addr - 1)
        BY <3>2
      <4>. QED
        BY <2>1, <4>1, Registers
    <3>4. CpuRegisters \subseteq 0..(next - 2)
      BY <3>2 DEF CpuRegisters
    <3>5. Hold(CpuRegisters, table)
      BY <2>1, <3>4 DEF Hold
    <3>. QED
      BY <3>1, <3>3, <3>5 DEF StageTellsProgress
  <2>4. CASE next - 1 \notin CpuRegisters /\ next - 1 \notin GpuRegisters
    <3>1. result.stage = "FinalizeTailBytes"
      BY <2>1, <2>4 DEF StageOf
    <3>2. next \in Int /\ 0 <= next - 1 /\ Status1Addr \in Nat
      BY <2>1, Registers
    <3>3. next - 1 \notin 0..(Status1Addr - 1)
      BY <2>4, Registers
    <3>4. 0..(Status1Addr - 1) \subseteq 0..(next - 2)
      BY <3>2, <3>3
    <3>5. Hold(CpuRegisters \cup GpuRegisters, table)
      BY <2>1, <3>4, Registers DEF Hold
    <3>. QED
      BY <3>1, <3>5 DEF StageTellsProgress
  <2>. QED
    BY <2>2, <2>3, <2>4
<1>. QED
  BY <1>1, Inductive, PTL

(* What an OK command leaves in the controller is a curve it can follow:   *)
(* lcc_validate_fan_table, through plan and registers.                     *)
THEOREM CurvesFollow == Spec => []CurvesRise
<1>1. ASSUME IInv PROVE CurvesRise
  <2>. SUFFICES ASSUME result.status = "OK", result.hardware_write, overwritten = {}
                PROVE  CurvesRise
    BY DEF CurvesRise
  <2>1. Fits(table) /\ \A a \in Address : ec[a] = Image(table, a)
    BY <1>1 DEF IInv, Finished, Sound, Hold
  <2>. QED
    BY <2>1, CurveRises DEF CurvesRise
<1>. QED
  BY <1>1, Inductive, PTL

(* No rising list is refused, and no unusable file hides a usable one      *)
(* behind it: lcc_fan_table_load_named.                                    *)
THEOREM RefusalsJustified == Spec => []OnlyUnusableRefused
<1>1. ASSUME IInv PROVE OnlyUnusableRefused
  <2>. SUFFICES ASSUME result.status = "NOT_FOUND", NEW i \in DOMAIN Files[requested]
                PROVE  LET doc == Files[requested][i]
                       IN  ~(doc # None /\ doc.format = "json" /\ Rises(doc.cpu)
                               /\ Rises(doc.gpu))
    BY DEF OnlyUnusableRefused
  <2>. DEFINE doc == Files[requested][i]
  <2>1. requested \in DOMAIN Files /\ ~Loads(doc)
    BY <1>1, Loaded DEF IInv, Refused
  <2>2. SUFFICES ASSUME doc # None, doc.format = "json", Rises(doc.cpu), Rises(doc.gpu)
                 PROVE  FALSE
    OBVIOUS
  <2>3. doc.cpu \in Seq(PointValue) /\ doc.gpu \in Seq(PointValue)
    BY <2>1, <2>2, FilesAssumption DEF Document, Points
  <2>. QED
    BY <2>1, <2>2, <2>3, RisingIsValid DEF Loads
<1>. QED
  BY <1>1, Inductive, PTL

================================================================================
