---------------------------- MODULE TrialProofs ----------------------------
(***************************************************************************)
(* One Trial, for any models, settings, hosts, options and rates.          *)
(***************************************************************************)
EXTENDS Trial, SequenceTheorems, TLAPS

-----------------------------------------------------------------------------
(* The estimate and the budgets.                                           *)

LEMMA IntegerOps ==
    /\ \A a, b \in Int : a * b \in Int
    /\ \A a \in Int, b \in Nat : b > 0 => a \div b \in Int
OBVIOUS

LEMMA ExpertType ==
    ASSUME NEW m \in ModelType, NEW n \in Int
    PROVE  ExpertMB(m, n) \in Int
<1>1. m.experts \in Nat /\ m.blocks \in Nat
  BY DEF ModelType
<1>2. Least(n, m.blocks) \in Int
  BY <1>1 DEF Least
<1>3. m.experts * Least(n, m.blocks) \in Int
  BY <1>1, <1>2, IntegerOps
<1>4. m.blocks # 0 => (m.experts * Least(n, m.blocks)) \div m.blocks \in Int
  BY <1>1, <1>3, IntegerOps
<1> QED
  BY <1>1, <1>4 DEF ExpertMB, Unset

LEMMA WeightsType ==
    ASSUME NEW m \in ModelType, NEW n \in Int
    PROVE  GpuWeightsMB(m, n) \in Int
<1> DEFINE ref == IF IsMoe(m) /\ m.blocks > 0 THEN m.blocks ELSE OffloadLayerRef
           kept == ref - Least(n, ref)
           share == NonExpertFrac * ref + (1000 - NonExpertFrac) * kept
<1>1. m.size \in Nat /\ m.blocks \in Nat
  BY DEF ModelType
<1>2. ref \in Nat /\ ref > 0
  BY <1>1 DEF OffloadLayerRef
<1>3. kept \in Int
  BY <1>2 DEF Least
<1>4. share \in Int
  BY <1>2, <1>3 DEF NonExpertFrac
<1>5. (m.size * share) \div (1000 * ref) \in Int
  <2> HIDE DEF ref, share
  <2>1. m.size * share \in Int /\ 1000 * ref \in Int /\ 1000 * ref > 0
    BY <1>1, <1>2, <1>4, IntegerOps
  <2> QED
    BY <2>1, IntegerOps
<1>6. m.size - ExpertMB(m, n) \in Int
  BY <1>1, ExpertType
<1> QED
  BY <1>1, <1>5, <1>6 DEF GpuWeightsMB

LEMMA KvType ==
    ASSUME NEW i \in IntentType
    PROVE  KvMB(i) \in Int
<1> DEFINE m == i.model
           window == IF m.window > 0 THEN Least(i.ctx, m.window) ELSE i.ctx
<1>1. m \in ModelType /\ i.ctx \in Nat /\ i.kvK \in DOMAIN QuantFactor /\ i.kvV \in DOMAIN QuantFactor
  BY DEF IntentType
<1>2. m.window \in Nat /\ m.full \in Nat /\ m.swa \in Nat
  BY <1>1 DEF ModelType
<1>3. window \in Int
  BY <1>1, <1>2 DEF Least
<1>4. m.full * i.ctx + m.swa * window \in Int /\ i.ctx * KvPerTokenF16 \in Int
  <2> HIDE DEF window
  <2> QED
    BY <1>1, <1>2, <1>3, IntegerOps DEF KvPerTokenF16
<1>5. KvF16MB(m, i.ctx) \in Int
  BY <1>4 DEF KvF16MB
<1>6. QuantFactor[i.kvK] \in Int /\ QuantFactor[i.kvV] \in Int
  BY <1>1 DEF QuantFactor
<1>7. KvF16MB(m, i.ctx) * (QuantFactor[i.kvK] + QuantFactor[i.kvV]) \in Int
  BY <1>5, <1>6, IntegerOps
<1> QED
  BY <1>7, IntegerOps DEF KvMB

LEMMA EstimateType ==
    ASSUME NEW i \in IntentType
    PROVE  EstimateVramMB(i) \in Int
<1>1. i.model \in ModelType /\ i.offload \in Int /\ i.draft \in Nat /\ i.nDraft \in Nat
  BY DEF IntentType
<1>2. SpecWorkspaceMB(i) \in Int
  BY <1>1 DEF SpecWorkspaceMB, SpecBaseMB, SpecPerTokenMB
<1> QED
  BY <1>1, <1>2, WeightsType, KvType DEF EstimateVramMB, OverheadMB

LEMMA KeepoutType ==
    ASSUME NEW h \in HostType
    PROVE  MonitorKeepout(h) \in Nat /\ ClampKeepout(h) \in Nat
BY DEF HostType, MonitorKeepout, ClampKeepout, First, DefaultKeepoutMB, Unset

LEMMA CeilType ==
    ASSUME NEW x \in Int, NEW total \in Nat, NEW k \in Nat
    PROVE  KillCeil(x, total, k) \in Int
BY DEF KillCeil, Least, Most

\* A ceiling grows with the limit and shrinks with the keepout.
LEMMA CeilMonotone ==
    ASSUME NEW x \in Int, NEW y \in Int, x <= y, NEW total \in Nat,
           NEW j \in Nat, NEW k \in Nat, j <= k
    PROVE  KillCeil(x, total, k) <= KillCeil(y, total, j)
BY DEF KillCeil, Least, Most

\* The preflight never allows more than the ceiling of the monitor, unless it keeps less of the
\* GPU out of use (hardware.resolve_vram_limit_mb against dedicated_vram_kill_ceil).
LEMMA PreflightBelowMonitor ==
    ASSUME NEW i \in IntentType, NEW h \in HostType, VramFits(i, h),
           ClampKeepout(h) >= MonitorKeepout(h)
    PROVE  EstimateVramMB(i) <= KillCeil(ResolveLimit(ResolveLimit(h.vramLimit, h), h),
                                         h.totalVram, MonitorKeepout(h))
<1> DEFINE limit == ResolveLimit(ResolveLimit(h.vramLimit, h), h)
           budget == TrialBudget(i, h)
<1>1. h.vramLimit \in Nat /\ h.totalVram \in Nat /\ h.freeVram \in Nat /\ h.vramHeadroom \in Nat
  BY DEF HostType
<1>2. limit \in Int
  <2>1. \A x \in Int : ResolveLimit(x, h) \in Int
    BY <1>1, KeepoutType, CeilType DEF ResolveLimit
  <2> QED
    BY <1>1, <2>1
<1>3. budget \in Int /\ budget <= limit
  <2> HIDE DEF limit
  <2>1. EffectiveLimit(limit, h) \in Int /\ EffectiveLimit(limit, h) <= limit
    BY <1>1, <1>2 DEF EffectiveLimit, Least, Most
  <2>2. budget = limit \/ budget = EffectiveLimit(limit, h)
    BY DEF TrialBudget, limit
  <2> QED
    BY <1>2, <2>1, <2>2
<1>4. KillCeil(budget, h.totalVram, ClampKeepout(h)) <= KillCeil(limit, h.totalVram, MonitorKeepout(h))
  <2> HIDE DEF limit, budget
  <2> QED
    BY <1>1, <1>2, <1>3, KeepoutType, CeilMonotone
<1>5. EstimateVramMB(i) <= KillCeil(budget, h.totalVram, ClampKeepout(h))
  BY DEF VramFits, ResolveLimit
<1>6. /\ KillCeil(budget, h.totalVram, ClampKeepout(h)) \in Int
      /\ KillCeil(limit, h.totalVram, MonitorKeepout(h)) \in Int
  BY <1>1, <1>2, <1>3, KeepoutType, CeilType
<1> HIDE DEF limit, budget
<1>7. EstimateVramMB(i) <= KillCeil(limit, h.totalVram, MonitorKeepout(h))
  BY <1>4, <1>5, <1>6, EstimateType
<1> QED
  BY <1>7 DEF limit

-----------------------------------------------------------------------------
(* More and less of a setting.                                            *)

LEMMA DivMonotone ==
    ASSUME NEW a \in Int, NEW b \in Int, a <= b, NEW n \in Nat, n > 0
    PROVE  a \div n <= b \div n
<1> DEFINE p == a \div n
           q == b \div n
<1>1. p \in Int /\ q \in Int
  OBVIOUS
<1>2. n * p <= a /\ b < n * q + n
  OBVIOUS
<1> HIDE DEF p, q
<1>3. SUFFICES ASSUME p >= q + 1 PROVE FALSE
  BY <1>1 DEF p, q
<1>4. n * p >= n * (q + 1)
  BY <1>1, <1>3
<1>5. n * (q + 1) = n * q + n
  BY <1>1
<1>6. n * p \in Int /\ n * q \in Int
  BY <1>1
<1> QED
  BY <1>2, <1>4, <1>5, <1>6
\* Of more layers more of the experts are read.
LEMMA ExpertMonotone ==
    ASSUME NEW m \in ModelType, NEW j \in Nat, NEW k \in Nat, j <= k
    PROVE  ExpertMB(m, j) <= ExpertMB(m, k)
<1>1. m.experts \in Nat /\ m.blocks \in Nat
  BY DEF ModelType
<1>2. Least(j, m.blocks) \in Nat /\ Least(k, m.blocks) \in Nat /\ Least(j, m.blocks) <= Least(k, m.blocks)
  BY <1>1 DEF Least
<1>3. m.experts * Least(j, m.blocks) <= m.experts * Least(k, m.blocks)
  BY <1>1, <1>2
<1>4. m.experts * Least(j, m.blocks) \in Int /\ m.experts * Least(k, m.blocks) \in Int
  BY <1>1, <1>2, IntegerOps
<1>5. CASE ~m.readable \/ m.experts = 0
  BY <1>5 DEF ExpertMB, Unset
<1>6. CASE ~(~m.readable \/ m.experts = 0) /\ m.blocks = 0
  BY <1>1, <1>6 DEF ExpertMB
<1>7. CASE ~(~m.readable \/ m.experts = 0) /\ m.blocks # 0
  <2>1. m.blocks > 0
    BY <1>1, <1>7
  <2>2. (m.experts * Least(j, m.blocks)) \div m.blocks <= (m.experts * Least(k, m.blocks)) \div m.blocks
    BY <1>1, <1>3, <1>4, <2>1, DivMonotone
  <2> QED
    BY <1>7, <2>2 DEF ExpertMB
<1> QED
  BY <1>5, <1>6, <1>7

LEMMA ExpertPositive ==
    ASSUME NEW m \in ModelType, NEW n \in Nat, m.readable, m.experts > 0
    PROVE  ExpertMB(m, n) >= 0
<1>1. m.experts \in Nat /\ m.blocks \in Nat /\ Least(n, m.blocks) \in Nat
  BY DEF ModelType, Least
<1>2. m.experts * Least(n, m.blocks) >= 0 /\ m.experts * Least(n, m.blocks) \in Int
  BY <1>1
<1>3. m.blocks > 0 => (m.experts * Least(n, m.blocks)) \div m.blocks >= 0
  <2>1. SUFFICES ASSUME m.blocks > 0 PROVE (m.experts * Least(n, m.blocks)) \div m.blocks >= 0
    OBVIOUS
  <2>2. 0 \div m.blocks <= (m.experts * Least(n, m.blocks)) \div m.blocks
    BY <1>1, <1>2, <2>1, DivMonotone
  <2>3. 0 \div m.blocks = 0 /\ (m.experts * Least(n, m.blocks)) \div m.blocks \in Int
    BY <1>1, <1>2, <2>1, IntegerOps
  <2> QED
    BY <2>2, <2>3
<1> QED
  BY <1>1, <1>3 DEF ExpertMB

\* The more layers of experts are on the CPU, the less weights are on the GPU.
LEMMA WeightsMonotone ==
    ASSUME NEW m \in ModelType, NEW j \in Int, NEW k \in Int, j <= k
    PROVE  GpuWeightsMB(m, k) <= GpuWeightsMB(m, j)
<1> DEFINE ref == IF IsMoe(m) /\ m.blocks > 0 THEN m.blocks ELSE OffloadLayerRef
           byHeader == m.readable /\ m.experts > 0 /\ m.experts <= m.size
           Share(n) == NonExpertFrac * ref + (1000 - NonExpertFrac) * (ref - Least(n, ref))
           Part(n) == (m.size * Share(n)) \div (1000 * ref)
<1>1. m.size \in Nat /\ m.blocks \in Nat /\ m.experts \in Nat
  BY DEF ModelType
<1>2. ref \in Nat /\ ref > 0 /\ 1000 * ref \in Nat /\ 1000 * ref > 0
  BY <1>1 DEF OffloadLayerRef
<1>3. \A n \in Int : GpuWeightsMB(m, n) = IF n <= 0 THEN m.size
                                         ELSE IF byHeader THEN m.size - ExpertMB(m, n) ELSE Part(n)
  BY DEF GpuWeightsMB
<1>4. \A n \in Nat : Share(n) \in Nat /\ Share(n) <= 1000 * ref
  BY <1>2 DEF NonExpertFrac, Least
<1>5. \A a, b \in Nat : a <= b => Share(b) <= Share(a)
  BY <1>2 DEF NonExpertFrac, Least
<1> HIDE DEF ref, byHeader, Share
<1>6. \A n \in Nat : m.size * Share(n) \in Int /\ m.size * Share(n) <= m.size * (1000 * ref)
  BY <1>1, <1>2, <1>4
<1>7. (m.size * (1000 * ref)) \div (1000 * ref) = m.size
  BY <1>1, <1>2
<1>8. \A n \in Nat : Part(n) \in Int /\ Part(n) <= m.size
  <2> TAKE n \in Nat
  <2>1. m.size * (1000 * ref) \in Int
    BY <1>1, <1>2, IntegerOps
  <2>2. (m.size * Share(n)) \div (1000 * ref) <= (m.size * (1000 * ref)) \div (1000 * ref)
    BY <1>2, <1>6, <2>1, DivMonotone
  <2> QED
    BY <1>2, <1>6, <1>7, <2>2, IntegerOps
<1>9. \A a, b \in Nat : a <= b => Part(b) <= Part(a)
  <2> SUFFICES ASSUME NEW a \in Nat, NEW b \in Nat, a <= b PROVE Part(b) <= Part(a)
    OBVIOUS
  <2>1. m.size * Share(b) <= m.size * Share(a)
    BY <1>1, <1>4, <1>5
  <2> QED
    BY <1>2, <1>6, <2>1, DivMonotone
<1> HIDE DEF Part
<1>10. CASE k <= 0
  BY <1>1, <1>3, <1>10
<1>11. CASE k > 0 /\ j <= 0
  <2>1. GpuWeightsMB(m, j) = m.size /\ k \in Nat
    BY <1>3, <1>11
  <2>2. byHeader => ExpertMB(m, k) >= 0 /\ ExpertMB(m, k) \in Int
    BY <2>1, ExpertPositive, ExpertType DEF byHeader
  <2> QED
    BY <1>1, <1>3, <1>8, <1>11, <2>1, <2>2
<1>12. CASE j > 0
  <2>1. j \in Nat /\ k \in Nat /\ k > 0
    BY <1>12
  <2>2. ExpertMB(m, j) <= ExpertMB(m, k) /\ ExpertMB(m, j) \in Int /\ ExpertMB(m, k) \in Int
    BY <2>1, ExpertMonotone, ExpertType
  <2> QED
    BY <1>1, <1>3, <1>9, <1>12, <2>1, <2>2
<1> QED
  BY <1>10, <1>11, <1>12

\* A shorter context needs no more room for its cache.
LEMMA KvMonotone ==
    ASSUME NEW i \in IntentType, NEW c \in Nat, c <= i.ctx
    PROVE  KvMB([i EXCEPT !.ctx = c]) <= KvMB(i)
<1> DEFINE m == i.model
           Window(n) == IF m.window > 0 THEN Least(n, m.window) ELSE n
           factor == QuantFactor[i.kvK] + QuantFactor[i.kvV]
<1>1. i.ctx \in Nat /\ m.full \in Nat /\ m.swa \in Nat /\ m.window \in Nat
  BY DEF IntentType, ModelType
<1>2. factor \in Nat
  BY DEF IntentType, QuantFactor
<1>3. Window(c) \in Nat /\ Window(i.ctx) \in Nat /\ Window(c) <= Window(i.ctx)
  BY <1>1 DEF Least
<1>4. KvF16MB(m, c) <= KvF16MB(m, i.ctx) /\ KvF16MB(m, c) \in Int /\ KvF16MB(m, i.ctx) \in Int
  <2>1. \A n \in Nat : KvF16MB(m, n) = IF KvKnown(m) THEN (m.full * n + m.swa * Window(n)) \div 1024
                                     ELSE (n * 80) \div 1024
    BY DEF KvF16MB, KvPerTokenF16
  <2> HIDE DEF Window, m
  <2>2. m.full * c <= m.full * i.ctx /\ m.swa * Window(c) <= m.swa * Window(i.ctx)
    BY <1>1, <1>3
  <2>3. /\ m.full * c \in Int /\ m.full * i.ctx \in Int
        /\ m.swa * Window(c) \in Int /\ m.swa * Window(i.ctx) \in Int
    BY <1>1, <1>3, IntegerOps
  <2>4. (m.full * c + m.swa * Window(c)) \div 1024 <= (m.full * i.ctx + m.swa * Window(i.ctx)) \div 1024
    BY <2>2, <2>3
  <2>5. (c * 80) \div 1024 <= (i.ctx * 80) \div 1024
    BY <1>1
  <2> QED
    BY <1>1, <2>1, <2>3, <2>4, <2>5
<1>5. KvF16MB(m, c) * factor <= KvF16MB(m, i.ctx) * factor
  <2> HIDE DEF m, factor
  <2> QED
    BY <1>2, <1>4
<1>6. KvF16MB(m, c) * factor \in Int /\ KvF16MB(m, i.ctx) * factor \in Int
  <2> HIDE DEF m, factor
  <2> QED
    BY <1>2, <1>4, IntegerOps
<1>7. (KvF16MB(m, c) * factor) \div 2000 <= (KvF16MB(m, i.ctx) * factor) \div 2000
  BY <1>5, <1>6, DivMonotone
<1>8. /\ KvMB(i) = (KvF16MB(m, i.ctx) * factor) \div 2000
      /\ KvMB([i EXCEPT !.ctx = c]) = (KvF16MB(m, c) * factor) \div 2000
  BY DEF KvMB, IntentType
<1> QED
  BY <1>7, <1>8

\* The weights in host memory, and what is in them of the experts.
LEMMA HostWeightsType ==
    ASSUME NEW m \in ModelType, NEW n \in Int, NEW u \in BOOLEAN
    PROVE  HostWeightsMB(m, n, u) \in Int
<1>1. m.size \in Nat /\ ExpertMB(m, n) \in Int /\ (m.size * 720) \div 1000 \in Int
  BY ExpertType DEF ModelType
<1> QED
  BY <1>1 DEF HostWeightsMB, First, NonExpertFrac

\* A configuration that fits also fits with a shorter context, on the GPU and in host memory
\* (evaluation.py's two preflights): shortening the context is always a way back.
THEOREM LessContextStillFits ==
    ASSUME NEW i \in IntentType, NEW h \in HostType, NEW c \in Nat, c <= i.ctx,
           VramFits(i, h), HostFits(i, h)
    PROVE  VramFits([i EXCEPT !.ctx = c], h) /\ HostFits([i EXCEPT !.ctx = c], h)
<1> DEFINE l == [i EXCEPT !.ctx = c]
<1>1. /\ l \in IntentType /\ l.model = i.model /\ l.offload = i.offload /\ l.draft = i.draft
      /\ l.nDraft = i.nDraft /\ l.spec = i.spec
      /\ i.model \in ModelType /\ i.offload \in Int /\ i.draft \in Nat
  BY DEF IntentType
<1>2. KvMB(l) <= KvMB(i) /\ KvMB(l) \in Int /\ KvMB(i) \in Int
  BY <1>1, KvMonotone, KvType
<1> HIDE DEF l
<1>3. SpecOf(l) = SpecOf(i) /\ SpecWorkspaceMB(l) = SpecWorkspaceMB(i) /\ SpecWorkspaceMB(i) \in Int
  BY <1>1 DEF SpecOf, SpecWorkspaceMB, SpecBaseMB, SpecPerTokenMB, IntentType
<1>4. EstimateVramMB(l) <= EstimateVramMB(i) /\ EstimateVramMB(l) \in Int /\ EstimateVramMB(i) \in Int
  <2>1. GpuWeightsMB(i.model, i.offload) \in Int
    BY <1>1, WeightsType
  <2> QED
    BY <1>1, <1>2, <1>3, <2>1 DEF EstimateVramMB, OverheadMB
<1>5. VramFits(l, h)
  <2>1. TrialBudget(l, h) = TrialBudget(i, h)
    BY <1>1 DEF TrialBudget
  <2>2. ResolveLimit(TrialBudget(i, h), h) \in Int
    <3>1. h.vramLimit \in Nat /\ h.totalVram \in Nat /\ h.freeVram \in Nat /\ h.vramHeadroom \in Nat
      BY DEF HostType
    <3>2. \A x \in Int : ResolveLimit(x, h) \in Int
      BY <3>1, KeepoutType, CeilType DEF ResolveLimit
    <3>3. \A x \in Int : EffectiveLimit(x, h) \in Int
      BY <3>1 DEF EffectiveLimit, Least, Most
    <3> QED
      BY <3>1, <3>2, <3>3 DEF TrialBudget
  <2> QED
    BY <1>4, <2>1, <2>2 DEF VramFits
<1>6. HostFits(l, h)
  <2>1. h.unified \in BOOLEAN /\ h.ram \in Nat
    BY DEF HostType
  <2>2. HostWeightsMB(i.model, i.offload, h.unified) \in Int
    BY <1>1, <2>1, HostWeightsType
  <2>3. /\ EstimateHostMB(l, h.unified) <= EstimateHostMB(i, h.unified)
        /\ EstimateHostMB(l, h.unified) \in Int /\ EstimateHostMB(i, h.unified) \in Int
    BY <1>1, <1>2, <2>2 DEF EstimateHostMB, OverheadMB
  <2>4. HostBudgetMB(h) \in Int
    BY <2>1 DEF HostBudgetMB, HostHeadroomMB, First, Most, Unset, HostType
  <2> QED
    BY <2>3, <2>4 DEF HostFits
<1> QED
  BY <1>5, <1>6 DEF l

\* A configuration that fits on the GPU also fits with more layers of experts on the CPU: the
\* estimate shrinks, and the clamp to the free memory no longer applies (build_vram_estimate_intent,
\* effective_vram_limit).
THEOREM MoreOffloadStillFits ==
    ASSUME NEW i \in IntentType, NEW h \in HostType, NEW n \in Int, i.offload <= n,
           VramFits(i, h)
    PROVE  VramFits([i EXCEPT !.offload = n], h)
<1> DEFINE l == [i EXCEPT !.offload = n]
<1>1. /\ l \in IntentType /\ l.model = i.model /\ l.offload = n /\ l.draft = i.draft
      /\ l.nDraft = i.nDraft /\ l.spec = i.spec /\ KvMB(l) = KvMB(i)
      /\ i.model \in ModelType /\ i.offload \in Int /\ i.draft \in Nat /\ i.nDraft \in Nat
  BY DEF IntentType, KvMB
<1> HIDE DEF l
<1>2. SpecOf(l) = SpecOf(i)
  BY <1>1 DEF SpecOf
<1>3. /\ SpecWorkspaceMB(l) <= SpecWorkspaceMB(i)
      /\ SpecWorkspaceMB(l) \in Int /\ SpecWorkspaceMB(i) \in Int
  BY <1>1, <1>2 DEF SpecWorkspaceMB, SpecBaseMB, SpecPerTokenMB
<1>4. EstimateVramMB(l) <= EstimateVramMB(i) /\ EstimateVramMB(l) \in Int /\ EstimateVramMB(i) \in Int
  <2>1. /\ GpuWeightsMB(i.model, n) <= GpuWeightsMB(i.model, i.offload)
        /\ GpuWeightsMB(i.model, n) \in Int /\ GpuWeightsMB(i.model, i.offload) \in Int
    BY <1>1, WeightsMonotone, WeightsType
  <2>2. KvMB(i) \in Int
    BY KvType
  <2> QED
    BY <1>1, <1>2, <1>3, <2>1, <2>2 DEF EstimateVramMB, OverheadMB
<1>5. /\ TrialBudget(i, h) <= TrialBudget(l, h)
      /\ TrialBudget(i, h) \in Int /\ TrialBudget(l, h) \in Int
  <2> DEFINE limit == ResolveLimit(ResolveLimit(h.vramLimit, h), h)
  <2>1. h.vramLimit \in Nat /\ h.totalVram \in Nat /\ h.freeVram \in Nat /\ h.vramHeadroom \in Nat
    BY DEF HostType
  <2>2. \A x \in Int : ResolveLimit(x, h) \in Int
    BY <2>1, KeepoutType, CeilType DEF ResolveLimit
  <2>3. limit \in Int
    BY <2>1, <2>2
  <2>4. /\ TrialBudget(i, h) = IF i.offload > 0 \/ ~h.freeClamp THEN limit ELSE EffectiveLimit(limit, h)
        /\ TrialBudget(l, h) = IF n > 0 \/ ~h.freeClamp THEN limit ELSE EffectiveLimit(limit, h)
    BY <1>1 DEF TrialBudget
  <2> HIDE DEF limit
  <2>5. EffectiveLimit(limit, h) <= limit /\ EffectiveLimit(limit, h) \in Int
    BY <2>1, <2>3 DEF EffectiveLimit, Least, Most
  <2> QED
    BY <1>1, <2>3, <2>4, <2>5
<1>6. ResolveLimit(TrialBudget(i, h), h) <= ResolveLimit(TrialBudget(l, h), h)
  BY <1>5, KeepoutType, CeilMonotone DEF ResolveLimit, HostType
<1>7. ResolveLimit(TrialBudget(i, h), h) \in Int /\ ResolveLimit(TrialBudget(l, h), h) \in Int
  BY <1>5, KeepoutType, CeilType DEF ResolveLimit, HostType
<1> QED
  BY <1>4, <1>6, <1>7 DEF VramFits, l

\* ... and what fits in host memory with layers of experts on the CPU also fits with fewer of
\* them, as long as there are some: the two preflights bound the offload from either side.
THEOREM LessOffloadStillFitsHost ==
    ASSUME NEW i \in IntentType, NEW h \in HostType, NEW n \in Nat, 0 < n, n <= i.offload,
           HostFits(i, h), RamFits(i, h)
    PROVE  HostFits([i EXCEPT !.offload = n], h) /\ RamFits([i EXCEPT !.offload = n], h)
<1> DEFINE l == [i EXCEPT !.offload = n]
<1>1. /\ l.model = i.model /\ l.offload = n /\ l.draft = i.draft /\ KvMB(l) = KvMB(i)
      /\ i.model \in ModelType /\ i.offload \in Nat /\ i.offload > 0 /\ i.draft \in Nat /\ KvMB(i) \in Int
      /\ h.unified \in BOOLEAN /\ h.ram \in Nat /\ h.freeRam \in Nat \cup {Unset}
  BY KvType DEF IntentType, HostType, KvMB
<1> HIDE DEF l
<1>2. /\ HostWeightsMB(i.model, n, h.unified) \in Int
      /\ HostWeightsMB(i.model, i.offload, h.unified) \in Int
  BY <1>1, HostWeightsType
<1>3. HostWeightsMB(i.model, n, h.unified) <= HostWeightsMB(i.model, i.offload, h.unified)
  <2> DEFINE m == i.model
             share == (m.size * (1000 - NonExpertFrac)) \div 1000
  <2>1. /\ ExpertMB(m, n) <= ExpertMB(m, i.offload)
        /\ ExpertMB(m, n) \in Int /\ ExpertMB(m, i.offload) \in Int
    BY <1>1, ExpertMonotone, ExpertType
  <2>2. ExpertMB(m, n) = Unset <=> ExpertMB(m, i.offload) = Unset
    <3>1. ~m.readable \/ m.experts = 0 => ExpertMB(m, n) = Unset /\ ExpertMB(m, i.offload) = Unset
      BY DEF ExpertMB
    <3>2. m.readable /\ m.experts # 0 => ExpertMB(m, n) >= 0 /\ ExpertMB(m, i.offload) >= 0
      BY <1>1, ExpertPositive DEF ModelType
    <3> QED
      BY <1>1, <2>1, <3>1, <3>2 DEF Unset, ModelType
  <2>3. m.size \in Nat /\ share \in Int
    BY <1>1 DEF ModelType, NonExpertFrac
  <2>4. /\ HostWeightsMB(m, n, h.unified) = IF h.unified THEN m.size ELSE First(ExpertMB(m, n), share)
        /\ HostWeightsMB(m, i.offload, h.unified)
             = IF h.unified THEN m.size ELSE First(ExpertMB(m, i.offload), share)
    BY <1>1 DEF HostWeightsMB, Shrunk
  <2> HIDE DEF share
  <2> QED
    BY <2>1, <2>2, <2>3, <2>4 DEF First
<1>4. HostFits(l, h)
  <2>1. /\ EstimateHostMB(l, h.unified) <= EstimateHostMB(i, h.unified)
        /\ EstimateHostMB(l, h.unified) \in Int /\ EstimateHostMB(i, h.unified) \in Int
    BY <1>1, <1>2, <1>3 DEF EstimateHostMB, OverheadMB, Shrunk
  <2>2. HostBudgetMB(h) \in Int
    BY <1>1 DEF HostBudgetMB, HostHeadroomMB, First, Most, Unset, HostType
  <2> QED
    BY <2>1, <2>2 DEF HostFits
<1>5. RamFits(l, h)
  BY <1>1, <1>2, <1>3 DEF RamFits, WorkspaceMB, MarginMB, Unset
<1> QED
  BY <1>4, <1>5 DEF l

-----------------------------------------------------------------------------
(* The stages.                                                             *)

Stages == {"config", "vram", "host", "plan", "bench", "perplexity", "engine", "start", "entry",
           "coding", "tier", "issues", "score", "leave", "done"}
TrialType == [intent : IntentType, host : HostType, opt : OptionType, tasks : [{"quick", "full"} -> Nat]]
PlanType == [coding : BOOLEAN, quick : BOOLEAN, full : BOOLEAN, issues : BOOLEAN]

\* The parts of the state that the properties read.
Typed ==
    /\ pc \in Stages /\ server \in {"none", "up", "dead"} /\ vramKilled \in BOOLEAN
    /\ trial \in TrialType /\ plan \in PlanType
    /\ DOMAIN res = DOMAIN NewResult
    /\ res.outcome \in Outcomes
    /\ res.bench \in Nat /\ res.codingTps \in Nat /\ res.tps \in Nat

\* What a preflight has let through stays as it is.
Checked ==
    /\ pc \notin {"config", "vram", "done"} => VramFits(trial.intent, trial.host)
    /\ pc \notin {"config", "vram", "host", "done"} => HostFits(trial.intent, trial.host)
    /\ server # "none" =>
         /\ pc \in {"entry", "coding", "tier", "issues", "score", "leave"}
         /\ Sglang \/ RamFits(trial.intent, trial.host)

\* The flag is raised while there is a runner, and is the verdict at the end.
FlagKept ==
    vramKilled => Serving \/ (pc = "done" /\ res.outcome = "WATCHDOG_KILL" /\ res.score = 0)

\* A rate is one of the coding run, which only a plan with coding has.
CodingRate ==
    /\ pc \in {"config", "vram", "host", "plan"} => ~res.tokens /\ res.codingTps = 0
    /\ pc = "coding" /\ todo # <<>> => plan.coding
    /\ res.tokens => plan.coding
    /\ res.codingTps > 0 => plan.coding

\* Nothing is scored before the last stage, and a score comes with its outcome and its rate.
EarnedSoFar ==
    /\ pc \notin {"leave", "done"} => res.score = 0 /\ res.outcome = "OK"
    /\ res.score # 0 =>
         /\ res.outcome = "OK"
         /\ res.tps >= Floor \/ (Opt.skipBench /\ res.codingTps = 0)

IInv == Typed /\ Checked /\ FlagKept /\ CodingRate /\ EarnedSoFar

Fields == {"outcome", "score", "bench", "perplexity", "coding", "tokens", "codingTps", "tier", "agentic",
           "count", "issues", "tps"}
LEMMA ResultFields == DOMAIN NewResult = Fields
BY DEF NewResult, Fields

LEMMA InitInv == Init => IInv
<1> SUFFICES ASSUME Init
             PROVE  IInv
  OBVIOUS
<1>1. /\ DOMAIN res = DOMAIN NewResult
      /\ res.outcome = "OK" /\ res.score = 0 /\ res.bench = 0 /\ res.codingTps = 0 /\ res.tps = 0
      /\ res.tokens = FALSE
  BY DEF Init, NewResult
<1>2. plan \in PlanType
  BY DEF Init, NoPlan, PlanType
<1>3. trial \in TrialType
  BY TrialAssumption DEF Init, TrialType
<1>4. Typed
  <2>1. pc \in Stages /\ server \in {"none", "up", "dead"} /\ vramKilled \in BOOLEAN
    BY DEF Init, Stages
  <2> QED
    BY <1>1, <1>2, <1>3, <2>1 DEF Typed, Outcomes
<1>5. Checked /\ FlagKept /\ CodingRate /\ EarnedSoFar
  BY <1>1 DEF Init, Checked, FlagKept, CodingRate, EarnedSoFar
<1> QED
  BY <1>4, <1>5 DEF IInv

\* An intent stays an intent when its offload is resolved.
LEMMA ResolvedType ==
    ASSUME NEW t \in TrialType
    PROVE  [t EXCEPT !.intent.offload = ResolveOffload(t.intent.model, t.intent.offload)] \in TrialType
<1>1. t.intent \in IntentType /\ t.intent.model \in ModelType /\ t.intent.offload \in Int
  BY DEF TrialType, IntentType
<1>2. ResolveOffload(t.intent.model, t.intent.offload) \in Int
  BY <1>1 DEF ResolveOffload, First, ModelType, Unset
<1>3. [t.intent EXCEPT !.offload = ResolveOffload(t.intent.model, t.intent.offload)] \in IntentType
  BY <1>1, <1>2 DEF IntentType
<1> QED
  BY <1>3 DEF TrialType

\* The first stages, before there is a server: they return, or go on with what they have measured.
LEMMA PreflightSteps ==
    ASSUME IInv, Configure \/ PreflightVram \/ PreflightHost \/ Plan
    PROVE  IInv'
<1> USE DEF At, Go, Return, BeforeServer
<1>1. /\ pc \in {"config", "vram", "host", "plan"} /\ pc' \in Stages
      /\ UNCHANGED <<server, vramKilled>>
      /\ res' = res \/ (pc' = "done" /\ \E o \in Outcomes : res' = [res EXCEPT !.outcome = o])
  BY DEF Configure, PreflightVram, PreflightHost, Plan, Outcomes, Stages
<1>2. DOMAIN res = Fields
  BY ResultFields DEF IInv, Typed
<1>3. /\ DOMAIN res' = DOMAIN res /\ res'.outcome \in Outcomes
      /\ \A f \in Fields : f # "outcome" => res'[f] = res[f]
      /\ pc' # "done" => res' = res
  BY <1>1, <1>2 DEF IInv, Typed, Fields
<1>4. res'.bench = res.bench /\ res'.codingTps = res.codingTps /\ res'.tps = res.tps
      /\ res'.tokens = res.tokens /\ res'.score = res.score
  BY <1>3 DEF Fields
<1>5. trial' \in TrialType
  BY ResolvedType DEF IInv, Typed, Configure, PreflightVram, PreflightHost, Plan
<1>6. plan' \in PlanType
  <2>1. Opt \in OptionType
    BY DEF IInv, Typed, TrialType, Opt
  <2>2. Planned \in PlanType
    <3>1. Opt.coding \in BOOLEAN /\ Opt.quick \in BOOLEAN /\ Opt.full \in BOOLEAN /\ Opt.issues \in BOOLEAN
      BY <2>1 DEF OptionType
    <3>2. \A q \in BOOLEAN : [NoPlan EXCEPT !.quick = q] \in PlanType
      BY DEF NoPlan, PlanType
    <3>3. [NoPlan EXCEPT !.quick = Opt.quick \/ ~Opt.full] \in PlanType
      BY <3>2
    <3>4. [coding |-> Opt.coding, quick |-> Opt.quick, full |-> Opt.full, issues |-> Opt.issues] \in PlanType
      BY <3>1 DEF PlanType
    <3> QED
      BY <3>3, <3>4 DEF Planned
  <2> QED
    BY <2>2 DEF IInv, Typed, Configure, PreflightVram, PreflightHost, Plan
<1>7. Typed'
  BY <1>1, <1>3, <1>4, <1>5, <1>6 DEF IInv, Typed
<1>8. Checked'
  BY <1>1 DEF IInv, Checked, Configure, PreflightVram, PreflightHost, Plan
<1>9. ~vramKilled
  BY <1>1 DEF IInv, FlagKept, Serving
<1>10. res.score = 0 /\ res.outcome = "OK"
  BY <1>1 DEF IInv, EarnedSoFar
<1>11. EarnedSoFar' /\ FlagKept'
  BY <1>1, <1>3, <1>4, <1>9, <1>10 DEF EarnedSoFar, FlagKept
<1>12. CodingRate'
  <2>1. pc' # "coding"
    BY DEF Configure, PreflightVram, PreflightHost, Plan
  <2> QED
    BY <1>1, <1>4, <2>1 DEF IInv, CodingRate
<1> QED
  BY <1>7, <1>8, <1>11, <1>12 DEF IInv

\* The stages of the engine: rates are measured, nothing is scored but by the last of them.
LEMMA EngineSteps ==
    ASSUME IInv, Bench \/ BenchFails \/ Perplexity \/ Engine
    PROVE  IInv'
<1> USE DEF At, Go, Return, BeforeServer
<1>1. /\ pc \in {"bench", "perplexity", "engine"}
      /\ pc' \in {"perplexity", "engine", "start", "done"}
      /\ UNCHANGED <<trial, plan, server, vramKilled>>
  BY DEF Bench, BenchFails, Perplexity, Engine
<1>2. /\ DOMAIN res = Fields /\ Typed
      /\ res.score = 0 /\ res.outcome = "OK" /\ ~vramKilled /\ server = "none"
  BY <1>1, ResultFields DEF IInv, Typed, EarnedSoFar, FlagKept, Serving, Checked
<1>3. /\ DOMAIN res' = DOMAIN res /\ res'.outcome \in Outcomes
      /\ res'.bench \in Nat /\ res'.codingTps = res.codingTps /\ res'.tps \in Nat
      /\ res'.tokens = res.tokens
      /\ res'.score = 0 \/ (pc' = "done" /\ res'.outcome = "OK" /\ res'.tps >= Floor)
      /\ pc' # "done" => res'.score = 0 /\ res'.outcome = "OK"
  <2>1. CASE Bench
    <3>1. PICK rate \in Rates :
            /\ rate < Floor => pc' = "done" /\ res' = [res EXCEPT !.bench = rate, !.outcome = "MODEL_REJECTED"]
            /\ ~(rate < Floor) => res' = [res EXCEPT !.bench = rate]
      BY <2>1 DEF Bench
    <3>2. rate \in Nat
      BY TrialAssumption
    <3> QED
      BY <1>2, <3>1, <3>2 DEF Fields, Typed, Outcomes
  <2>2. CASE BenchFails
    BY <1>2, <2>2 DEF BenchFails, Fields, Typed, Outcomes
  <2>3. CASE Perplexity
    BY <1>2, <2>3 DEF Perplexity, Fields, Typed, Outcomes
  <2>4. CASE Engine
    <3>1. res.bench \in Nat /\ Floor \in Nat
      BY <1>2, TrialAssumption DEF Typed
    <3>2. CASE ~EngineOnly
      BY <1>2, <2>4, <3>2 DEF Engine, Typed
    <3>3. CASE EngineOnly /\ res.bench < Floor
      BY <1>2, <2>4, <3>1, <3>3 DEF Engine, Fields, Typed, Outcomes
    <3>4. CASE EngineOnly /\ ~(res.bench < Floor)
      <4>1. res' = [res EXCEPT !.tps = res.bench, !.score = res.bench, !.outcome = "OK"] /\ pc' = "done"
        BY <2>4, <3>4 DEF Engine
      <4> QED
        BY <1>2, <3>1, <3>4, <4>1 DEF Fields, Typed, Outcomes
    <3> QED
      BY <3>2, <3>3, <3>4
  <2> QED
    BY <2>1, <2>2, <2>3, <2>4 DEF IInv
<1>4. Typed'
  BY <1>1, <1>2, <1>3 DEF Typed, Stages
<1>5. Checked' /\ FlagKept' /\ CodingRate'
  BY <1>1, <1>2, <1>3 DEF IInv, Checked, FlagKept, CodingRate
<1>6. EarnedSoFar'
  BY <1>1, <1>3 DEF EarnedSoFar
<1> QED
  BY <1>4, <1>5, <1>6 DEF IInv

\* The stages of the server: a return scores nothing, and the preflight of the RAM is the last check.
LEMMA ServerSteps ==
    ASSUME IInv,
           StartFails \/ Start \/ Entry \/ Dataset \/ CodingDone \/ TierTask \/ TiersDone \/ Issues
             \/ EvaluationRaises
    PROVE  IInv'
<1> USE DEF At, Go, Leave, Raised
<1> DEFINE Before == {"start", "entry", "coding", "tier", "issues"}
<1>1. /\ pc \in Before /\ pc' \in {"entry", "coding", "tier", "issues", "score", "leave"}
      /\ UNCHANGED <<trial, plan, vramKilled>>
  BY DEF StartFails, Start, Entry, Dataset, CodingDone, TierTask, TiersDone, Issues, EvaluationRaises
<1>2. /\ DOMAIN res = Fields /\ Typed
      /\ res.score = 0 /\ res.outcome = "OK"
      /\ VramFits(trial.intent, trial.host) /\ HostFits(trial.intent, trial.host)
  BY <1>1, ResultFields DEF IInv, Typed, EarnedSoFar, Checked
<1>3. server' = server \/ (Start /\ server' = "up" /\ (Sglang \/ RamFits(trial.intent, trial.host)))
  BY DEF StartFails, Start, Entry, Dataset, CodingDone, TierTask, TiersDone, Issues, EvaluationRaises
<1>4. /\ DOMAIN res' = DOMAIN res /\ res'.outcome \in Outcomes
      /\ res'.bench = res.bench /\ res'.tps = res.tps /\ res'.score = 0
      /\ res'.codingTps \in Nat
      /\ res'.outcome = "OK" \/ pc' = "leave"
      /\ res'.tokens => res.tokens \/ Dataset
      /\ res'.codingTps = res.codingTps \/ (CodingDone /\ (res'.codingTps > 0 => res.tokens))
  <2> USE DEF Fields, Typed, Outcomes
  <2>1. CASE StartFails \/ Start \/ Entry \/ TiersDone \/ EvaluationRaises
    BY <1>2, <2>1 DEF StartFails, Start, Entry, TiersDone, EvaluationRaises
  <2>2. CASE Dataset
    BY <1>2, <2>2 DEF Dataset
  <2>3. CASE CodingDone
    <3>1. CASE plan.coding /\ res.coding = 0
      BY <1>2, <2>3, <3>1 DEF CodingDone
    <3>2. CASE ~(plan.coding /\ res.coding = 0)
      <4>1. PICK rate \in Rates \cup {0} : ((rate > 0) <=> res.tokens) /\ res' = [res EXCEPT !.codingTps = rate]
        BY <2>3, <3>2 DEF CodingDone
      <4>2. rate \in Nat
        BY TrialAssumption
      <4> QED
        BY <1>2, <2>3, <4>1, <4>2
    <3> QED
      BY <3>1, <3>2
  <2>4. CASE TierTask
    BY <1>2, <2>4 DEF TierTask
  <2>5. CASE Issues
    BY <1>2, <2>5 DEF Issues
  <2> QED
    BY <2>1, <2>2, <2>3, <2>4, <2>5
<1>5. Typed'
  BY <1>1, <1>2, <1>3, <1>4 DEF Typed, Stages
<1>6. Checked'
  BY <1>1, <1>2, <1>3 DEF IInv, Checked, Start, Sglang
<1>7. FlagKept' /\ EarnedSoFar'
  BY <1>1, <1>4 DEF IInv, FlagKept, EarnedSoFar, Serving
<1>8. CodingRate'
  <2>1. Dataset => plan.coding
    BY DEF IInv, CodingRate, Dataset
  <2>2. pc' = "coding" => (plan.coding \/ todo' = <<>>)
    BY DEF IInv, CodingRate, StartFails, Start, Entry, Dataset, CodingDone, TierTask, TiersDone, Issues,
       EvaluationRaises
  <2> QED
    BY <1>1, <1>4, <2>1, <2>2 DEF IInv, CodingRate
<1> QED
  BY <1>5, <1>6, <1>7, <1>8 DEF IInv

\* What leaving the server can make of the result: its outcome and its score, and no more.
LEMMA LeftWith ==
    ASSUME DOMAIN res = Fields, Finish
    PROVE  /\ DOMAIN res' = Fields
           /\ \A g \in Fields : g \notin {"score", "outcome"} => res'[g] = res[g]
           /\ res'.score \in {0, res.score}
           /\ vramKilled => res'.outcome = "WATCHDOG_KILL" /\ res'.score = 0
           /\ ~vramKilled => \/ res' = res
                             \/ res'.outcome \in {"INFRA_ERROR", "CODE_ERROR"} /\ res'.score = 0
<1> DEFINE Left(r) == /\ DOMAIN r = Fields
                      /\ \A g \in Fields : g \notin {"score", "outcome"} => r[g] = res[g]
                      /\ r.score \in {0, res.score}
<1>1. PICK r \in Exited : res' = IF vramKilled THEN Killed(r) ELSE r
  BY DEF Finish
<1>2. Left(r) /\ (r = res \/ (r.outcome \in {"INFRA_ERROR", "CODE_ERROR"} /\ r.score = 0))
  <2>1. CASE r = res
    BY <2>1
  <2>2. ASSUME NEW o \in {"INFRA_ERROR", "CODE_ERROR"}, r = [res EXCEPT !.outcome = o, !.score = 0]
        PROVE  Left(r) /\ r.outcome = o /\ r.score = 0
    BY <2>2 DEF Fields
  <2> QED
    BY <2>1, <2>2 DEF Exited
<1>3. Left(Killed(r)) /\ Killed(r).outcome = "WATCHDOG_KILL" /\ Killed(r).score = 0
  BY <1>2 DEF Killed, Fields
<1> QED
  BY <1>1, <1>2, <1>3

\* The score is given with the rate, and taken back by a kill.
LEMMA LastSteps ==
    ASSUME IInv, Score \/ Finish
    PROVE  IInv'
<1> USE DEF At, Go
<1>1. UNCHANGED <<trial, plan, vramKilled>> /\ DOMAIN res = Fields /\ Typed
  BY ResultFields DEF Score, Finish, IInv, Typed
<1>2. CASE Score
  <2>1. pc = "score" /\ pc' = "leave" /\ server' = server /\ res.score = 0 /\ res.outcome = "OK"
    BY <1>2 DEF Score, IInv, EarnedSoFar
  <2>2. Rate \in Nat
    BY <1>1 DEF Typed, Rate
  <2>3. /\ DOMAIN res' = DOMAIN res /\ res'.outcome \in {"OK", "MODEL_REJECTED"} /\ res'.tps = Rate
        /\ res'.bench = res.bench /\ res'.codingTps = res.codingTps /\ res'.tokens = res.tokens
        /\ res'.score # 0 => res'.outcome = "OK" /\ ~(Measured /\ Rate < Floor)
    BY <1>1, <1>2, <2>1 DEF Score, Fields
  <2>4. ~(Measured /\ Rate < Floor) => Rate >= Floor \/ (Opt.skipBench /\ res.codingTps = 0)
    BY <1>1, <2>2, TrialAssumption DEF IInv, Typed, CodingRate, Measured
  <2>5. Typed'
    BY <1>1, <2>1, <2>2, <2>3 DEF Typed, Stages, Outcomes
  <2>6. EarnedSoFar'
    BY <1>1, <2>1, <2>3, <2>4 DEF EarnedSoFar, Opt
  <2>7. Checked' /\ FlagKept' /\ CodingRate'
    BY <1>1, <2>1, <2>3 DEF IInv, Checked, FlagKept, CodingRate, Serving, Sglang
  <2> QED
    BY <2>5, <2>6, <2>7 DEF IInv
<1>3. CASE Finish
  <2>1. pc = "leave" /\ pc' = "done" /\ server' = "none"
    BY <1>3 DEF Finish
  <2>2. /\ DOMAIN res' = DOMAIN res /\ res'.tps = res.tps
        /\ res'.bench = res.bench /\ res'.codingTps = res.codingTps /\ res'.tokens = res.tokens
        /\ vramKilled => res'.outcome = "WATCHDOG_KILL" /\ res'.score = 0
        /\ ~vramKilled => \/ res' = res
                          \/ res'.outcome \in {"INFRA_ERROR", "CODE_ERROR"} /\ res'.score = 0
    BY <1>1, <1>3, LeftWith DEF Fields
  <2>3. Typed'
    BY <1>1, <2>1, <2>2 DEF Typed, Stages, Outcomes
  <2>4. EarnedSoFar'
    BY <1>1, <2>1, <2>2 DEF IInv, EarnedSoFar, Opt
  <2>5. Checked' /\ FlagKept' /\ CodingRate'
    BY <1>1, <2>1, <2>2 DEF IInv, Checked, FlagKept, CodingRate
  <2> QED
    BY <2>3, <2>4, <2>5 DEF IInv
<1> QED
  BY <1>2, <1>3

LEMMA OutsideSteps ==
    ASSUME IInv, SamplerKills \/ ServerDies \/ UNCHANGED vars
    PROVE  IInv'
<1>1. UNCHANGED <<trial, pc, todo, plan, res>>
  BY DEF SamplerKills, ServerDies, vars
<1>2. /\ server' \in {"none", "up", "dead"} /\ (server' = "none" <=> server = "none")
      /\ vramKilled' \in BOOLEAN /\ (vramKilled' => vramKilled \/ Serving)
  <2>1. CASE SamplerKills
    BY <2>1 DEF SamplerKills, IInv, Typed
  <2>2. CASE ServerDies
    BY <2>2 DEF ServerDies, IInv, Typed
  <2>3. CASE UNCHANGED vars
    BY <2>3 DEF vars, IInv, Typed
  <2> QED
    BY <2>1, <2>2, <2>3
<1>3. Typed' /\ Checked'
  BY <1>1, <1>2 DEF IInv, Typed, Checked, Sglang
<1>4. FlagKept' /\ CodingRate' /\ EarnedSoFar'
  BY <1>1, <1>2 DEF IInv, FlagKept, CodingRate, EarnedSoFar, Serving, Opt
<1> QED
  BY <1>3, <1>4 DEF IInv

LEMMA InductiveInvariant == Spec => []IInv
<1>1. IInv /\ [Next]_vars => IInv'
  BY PreflightSteps, EngineSteps, ServerSteps, LastSteps, OutsideSteps DEF Next
<1> QED
  BY <1>1, InitInv, PTL DEF Spec

-----------------------------------------------------------------------------
\* What the preflights let through, the monitor of the server does not kill by its own ceiling, and
\* the host has the memory for (evaluation.py's preflights against llama_runner's sampler).
THEOREM ServedModelFits == Spec => []AcceptedFits
<1>1. IInv => AcceptedFits
  <2> SUFFICES ASSUME IInv, server # "none"
               PROVE  AcceptedFits
    BY DEF AcceptedFits
  <2>1. /\ VramFits(trial.intent, trial.host) /\ HostFits(trial.intent, trial.host)
        /\ Sglang \/ RamFits(trial.intent, trial.host)
    BY DEF IInv, Checked
  <2>2. trial.intent \in IntentType /\ trial.host \in HostType
    BY DEF IInv, Typed, TrialType
  <2>3. ClampKeepout(trial.host) \in Nat /\ MonitorKeepout(trial.host) \in Nat
    BY <2>2, KeepoutType
  <2>4. CASE ClampKeepout(trial.host) >= MonitorKeepout(trial.host)
    BY <2>1, <2>2, <2>4, PreflightBelowMonitor DEF AcceptedFits, MonitorCeilingMB
  <2>5. CASE ClampKeepout(trial.host) < MonitorKeepout(trial.host)
    BY <2>1, <2>5 DEF AcceptedFits
  <2> QED
    BY <2>3, <2>4, <2>5
<1> QED
  BY <1>1, InductiveInvariant, PTL

\* A positive score comes with a clean outcome and a rate that is not below the floor (run_trial).
THEOREM ScoresAreEarned == Spec => []ScoreIsEarned
<1>1. IInv => ScoreIsEarned
  BY DEF IInv, EarnedSoFar, ScoreIsEarned
<1> QED
  BY <1>1, InductiveInvariant, PTL

\* A Trial whose flag the sampler has raised is a kill, whatever else happened (run_trial, the end).
THEOREM KillsWin == Spec => []KillWins
<1>1. IInv => KillWins
  BY DEF IInv, FlagKept, KillWins, At, Serving
<1> QED
  BY <1>1, InductiveInvariant, PTL

-----------------------------------------------------------------------------
(* What a Trial has measured by the time it is clean.                      *)

\* Past the given stages, or at the end with nothing gone wrong.
Past(stages) == pc \in stages \/ (pc \in {"leave", "done"} /\ res.outcome = "OK")

FromScore == {"score"}
FromIssues == FromScore \cup {"issues"}
FromTier == FromIssues \cup {"tier"}
FromEngine == FromTier \cup {"engine", "start", "entry", "coding"}
FromPerplexity == FromEngine \cup {"perplexity"}
FromBench == FromPerplexity \cup {"bench"}

\* The numbers of a result stay within their bounds.
Bounded ==
    /\ res.score \in Nat /\ res.coding \in 0..100 /\ res.agentic \in 0..100
    /\ res.bench \in Rates \cup {0} /\ res.tps \in Rates \cup {0} /\ res.codingTps \in Rates \cup {0}
    /\ won \in Nat /\ (won <= TierTasks["quick"] \/ won <= TierTasks["full"])
    /\ pc \notin {"coding", "tier", "issues", "score", "leave", "done"} => res.coding = 0
    /\ pc \notin {"tier", "leave", "done"} => won = 0

\* What is left of the coding datasets weighs no more than what is left to earn.
CodingLeft ==
    pc = "coding" =>
        \/ todo = Datasets /\ res.coding = 0
        \/ todo = <<"mbpp", "lcb", "bigcode">> /\ res.coding \in 0..25
        \/ todo = <<"lcb", "bigcode">> /\ res.coding \in 0..50
        \/ todo = <<"bigcode">> /\ res.coding \in 0..85
        \/ todo = <<>>

\* The tasks that are queued: those of the quick tier, then those of the full one.
Queue(q, f) == [k \in 1..(q + f) |-> IF k <= q THEN "quick" ELSE "full"]

\* With q tasks of the quick tier and f of the full one to go, no more is won than was tried, and
\* the result of the last tier that was asked for is kept.
TiersAt(q, f) ==
    /\ todo = Queue(q, f)
    /\ q > 0 => won + q <= TierTasks["quick"] /\ (plan.full => f = TierTasks["full"])
    /\ f > 0 => plan.full
    /\ q = 0 /\ f > 0 => won + f <= TierTasks["full"]
    /\ q = 0 /\ f = 0 => won = 0
    /\ q = 0 /\ plan.quick /\ ~plan.full => res.tier = "quick"
    /\ q = 0 /\ f = 0 /\ plan.full => res.tier = "full" /\ res.count = TierTasks["full"]

TiersLeft == pc = "tier" => \E q, f \in Nat : TiersAt(q, f)

\* Each axis that was asked for is there once its stage is past.
PlanMade ==
    Past(FromBench) =>
        /\ \A t \in {"quick", "full"} : plan[t] => TierTasks[t] > 0
        /\ Opt.full /\ ~Opt.validation => plan.full
EngineMeasured ==
    /\ Past(FromPerplexity) => Opt.skipBench \/ res.bench >= Floor
    /\ Past(FromEngine) => (Opt.perplexity => res.perplexity)
ServerMeasured ==
    /\ Past(FromTier) => (plan.coding => res.coding > 0)
    /\ Past(FromIssues) =>
         /\ plan.full => res.tier = "full" /\ res.count = TierTasks["full"]
         /\ plan.quick /\ ~plan.full => res.tier = "quick"
    /\ Past(FromScore) => (plan.issues => res.issues # Unset)

Progress == Bounded /\ CodingLeft /\ TiersLeft /\ PlanMade /\ EngineMeasured /\ ServerMeasured

LEMMA QueueSeq ==
    ASSUME NEW q \in Nat, NEW f \in Nat
    PROVE  /\ Queue(q, f) \in Seq({"quick", "full"})
           /\ Len(Queue(q, f)) = q + f
           /\ \A k \in 1..(q + f) : Queue(q, f)[k] = IF k <= q THEN "quick" ELSE "full"
<1>1. Queue(q, f) \in [1..(q + f) -> {"quick", "full"}] /\ q + f \in Nat
  BY DEF Queue
<1> QED
  BY <1>1 DEF Queue

LEMMA QueueConcat ==
    ASSUME NEW q \in Nat, NEW f \in Nat
    PROVE  [k \in 1..q |-> "quick"] \o [k \in 1..f |-> "full"] = Queue(q, f)
<1> DEFINE s == [k \in 1..q |-> "quick"]
           t == [k \in 1..f |-> "full"]
<1>1. s \in Seq({"quick", "full"}) /\ Len(s) = q /\ \A k \in 1..q : s[k] = "quick"
  OBVIOUS
<1>2. t \in Seq({"quick", "full"}) /\ Len(t) = f /\ \A k \in 1..f : t[k] = "full"
  OBVIOUS
<1> HIDE DEF s, t
<1>3. /\ s \o t \in Seq({"quick", "full"}) /\ Len(s \o t) = q + f
      /\ \A k \in 1..(q + f) : (s \o t)[k] = IF k <= q THEN "quick" ELSE "full"
  BY <1>1, <1>2
<1>4. s \o t = Queue(q, f)
  <2>1. /\ Queue(q, f) \in Seq({"quick", "full"}) /\ Len(Queue(q, f)) = Len(s \o t)
        /\ \A k \in 1..Len(s \o t) : (s \o t)[k] = Queue(q, f)[k]
    BY <1>3, QueueSeq
  <2>2. s \o t \in Seq({"quick", "full"})
    BY <1>3
  <2> QED
    BY <2>1, <2>2, SeqEqual
<1> QED
  BY <1>4 DEF s, t

LEMMA QueueTail ==
    ASSUME NEW q \in Nat, NEW f \in Nat, q + f > 0
    PROVE  /\ q > 0 => Head(Queue(q, f)) = "quick" /\ Tail(Queue(q, f)) = Queue(q - 1, f)
           /\ q = 0 => Head(Queue(q, f)) = "full" /\ Tail(Queue(q, f)) = Queue(0, f - 1)
           /\ Queue(q, f) # <<>>
<1> DEFINE s == Queue(q, f)
<1>1. s \in Seq({"quick", "full"}) /\ Len(s) = q + f
      /\ \A k \in 1..(q + f) : s[k] = IF k <= q THEN "quick" ELSE "full"
  BY QueueSeq
<1> HIDE DEF s
<1>2. s # <<>> /\ Head(s) = s[1]
  BY <1>1
<1>3. /\ Tail(s) \in Seq({"quick", "full"}) /\ Len(Tail(s)) = q + f - 1
      /\ \A k \in 1..(q + f - 1) : Tail(s)[k] = s[k + 1]
  BY <1>1, <1>2
<1>4. CASE q > 0
  <2>1. /\ Queue(q - 1, f) \in Seq({"quick", "full"}) /\ Len(Queue(q - 1, f)) = q - 1 + f
        /\ \A k \in 1..(q - 1 + f) : Queue(q - 1, f)[k] = IF k <= q - 1 THEN "quick" ELSE "full"
    <3>1. q - 1 \in Nat
      BY <1>4
    <3> QED
      BY <3>1, QueueSeq
  <2>2. \A k \in 1..(q + f - 1) : Tail(s)[k] = Queue(q - 1, f)[k]
    BY <1>1, <1>3, <1>4, <2>1
  <2>3. Tail(s) = Queue(q - 1, f)
    <3>1. Len(Tail(s)) = Len(Queue(q - 1, f)) /\ \A k \in 1..Len(Tail(s)) : Tail(s)[k] = Queue(q - 1, f)[k]
      BY <1>3, <1>4, <2>1, <2>2
    <3>2. Tail(s) \in Seq({"quick", "full"}) /\ Queue(q - 1, f) \in Seq({"quick", "full"})
      BY <1>3, <2>1
    <3> HIDE DEF Queue
    <3> QED
      BY <3>1, <3>2, SeqEqual
  <2> QED
    BY <1>1, <1>2, <1>4, <2>3 DEF s
<1>5. CASE q = 0
  <2>1. /\ Queue(0, f - 1) \in Seq({"quick", "full"}) /\ Len(Queue(0, f - 1)) = f - 1
        /\ \A k \in 1..(f - 1) : Queue(0, f - 1)[k] = "full"
    <3>1. f - 1 \in Nat /\ 0 + (f - 1) = f - 1 /\ \A k \in 1..(f - 1) : ~(k <= 0)
      BY <1>5
    <3>2. /\ Queue(0, f - 1) \in Seq({"quick", "full"}) /\ Len(Queue(0, f - 1)) = 0 + (f - 1)
          /\ \A k \in 1..(0 + (f - 1)) : Queue(0, f - 1)[k] = IF k <= 0 THEN "quick" ELSE "full"
      BY <3>1, QueueSeq
    <3> QED
      BY <3>1, <3>2
  <2>2. \A k \in 1..(q + f - 1) : Tail(s)[k] = Queue(0, f - 1)[k]
    BY <1>1, <1>3, <1>5, <2>1
  <2>3. Tail(s) = Queue(0, f - 1)
    <3>1. Len(Tail(s)) = Len(Queue(0, f - 1)) /\ \A k \in 1..Len(Tail(s)) : Tail(s)[k] = Queue(0, f - 1)[k]
      BY <1>3, <1>5, <2>1, <2>2
    <3>2. Tail(s) \in Seq({"quick", "full"}) /\ Queue(0, f - 1) \in Seq({"quick", "full"})
      BY <1>3, <2>1
    <3> HIDE DEF Queue
    <3> QED
      BY <3>1, <3>2, SeqEqual
  <2> QED
    BY <1>1, <1>2, <1>5, <2>3 DEF s
<1> QED
  BY <1>2, <1>4, <1>5 DEF s

\* A share of the whole is a percentage.
LEMMA Percentage ==
    ASSUME NEW n \in Nat, n > 0, NEW c \in 0..n
    PROVE  (100 * c) \div n \in 0..100
<1> DEFINE p == (100 * c) \div n
<1>1. p \in Int /\ 100 * c \in Int
  OBVIOUS
<1>2. n * p <= 100 * c /\ 100 * c < n * p + n
  OBVIOUS
<1> HIDE DEF p
<1>3. p >= 0
  <2> SUFFICES ASSUME p <= -1 PROVE FALSE
    BY <1>1
  <2>1. n * p <= n * (-1)
    BY <1>1
  <2> QED
    BY <1>1, <1>2, <2>1
<1>4. p <= 100
  <2> SUFFICES ASSUME p >= 101 PROVE FALSE
    BY <1>1
  <2>1. n * p >= n * 101
    BY <1>1
  <2> QED
    BY <1>1, <1>2, <2>1
<1> QED
  BY <1>1, <1>3, <1>4 DEF p

LEMMA ProgressInit == Init => Progress
<1> SUFFICES ASSUME Init
             PROVE  Progress
  OBVIOUS
<1>1. pc = "config" /\ won = 0 /\ res = NewResult
  BY DEF Init
<1>2. TierTasks["quick"] \in Nat
  BY TrialAssumption DEF Init, TierTasks
<1>3. Bounded
  <2>1. /\ res.score = 0 /\ res.coding = 0 /\ res.agentic = 0
        /\ res.bench = 0 /\ res.tps = 0 /\ res.codingTps = 0
    BY <1>1 DEF NewResult
  <2> QED
    BY <1>1, <1>2, <2>1 DEF Bounded
<1>4. CodingLeft /\ TiersLeft
  BY <1>1 DEF CodingLeft, TiersLeft
<1>5. PlanMade /\ EngineMeasured /\ ServerMeasured
  BY <1>1 DEF PlanMade, EngineMeasured, ServerMeasured, Past, FromScore, FromIssues, FromTier, FromEngine,
              FromPerplexity, FromBench
<1> QED
  BY <1>3, <1>4, <1>5 DEF Progress

\* A preflight measures nothing; the plan has only tiers with tasks in them.
LEMMA ProgressPreflight ==
    ASSUME IInv, Progress, Configure \/ PreflightVram \/ PreflightHost \/ Plan
    PROVE  Progress'
<1> USE DEF At, Go, Return, BeforeServer
<1>1. /\ pc \in {"config", "vram", "host", "plan"}
      /\ pc' \in {"vram", "host", "plan", "bench", "perplexity", "done"}
      /\ won' = won
  BY DEF Configure, PreflightVram, PreflightHost, Plan
<1>2. res' = res \/ (pc' = "done" /\ \E o \in Outcomes \ {"OK"} : res' = [res EXCEPT !.outcome = o])
  <2> DEFINE Returns(o) == res' = [res EXCEPT !.outcome = o] /\ pc' = "done"
  <2>1. {"INVALID_CONFIG", "MODEL_REJECTED", "INFRA_ERROR"} \subseteq Outcomes \ {"OK"}
    BY DEF Outcomes
  <2>2. res' = res \/ Returns("INVALID_CONFIG") \/ Returns("MODEL_REJECTED") \/ Returns("INFRA_ERROR")
    BY DEF Configure, PreflightVram, PreflightHost, Plan
  <2> QED
    BY <2>1, <2>2
<1>3. DOMAIN res = Fields
  BY ResultFields DEF IInv, Typed
<1>4. /\ \A f \in Fields : f # "outcome" => res'[f] = res[f]
      /\ pc' = "done" => res'.outcome # "OK"
  <2>1. CASE res' = res
    <3>1. pc' # "done"
      BY <2>1, <1>3 DEF Configure, PreflightVram, PreflightHost, Plan, IInv, EarnedSoFar, Fields
    <3> QED
      BY <2>1, <3>1
  <2>2. CASE pc' = "done" /\ \E o \in Outcomes \ {"OK"} : res' = [res EXCEPT !.outcome = o]
    BY <2>2, <1>3 DEF Fields
  <2> QED
    BY <1>2, <2>1, <2>2
<1>5. /\ res'.bench = res.bench /\ res'.codingTps = res.codingTps /\ res'.tps = res.tps
      /\ res'.score = res.score /\ res'.coding = res.coding /\ res'.agentic = res.agentic
  BY <1>4 DEF Fields
<1>6. TierTasks' = TierTasks /\ Opt' = Opt
  BY DEF Configure, PreflightVram, PreflightHost, Plan, TierTasks, Opt, IInv, Typed, TrialType
<1>7. Bounded'
  BY <1>1, <1>5, <1>6 DEF Progress, Bounded
<1>8. CodingLeft' /\ TiersLeft'
  BY <1>1 DEF CodingLeft, TiersLeft
<1>9. pc' \in {"bench", "perplexity"} => Plan /\ ~(\E t \in {"quick", "full"} : Planned[t] /\ TierTasks[t] = 0)
  BY DEF Configure, PreflightVram, PreflightHost, Plan
<1>10. PlanMade'
  <2>1. Past(FromBench)' => pc' \in {"bench", "perplexity"}
    BY <1>1, <1>4 DEF Past, FromScore, FromIssues, FromTier, FromEngine, FromPerplexity, FromBench
  <2>2. \A t \in {"quick", "full"} : TierTasks[t] \in Nat
    BY DEF IInv, Typed, TrialType, TierTasks
  <2>3. Plan => plan' = Planned
    BY DEF Plan
  <2>4. Opt.full /\ ~Opt.validation => Planned.full
    BY DEF Planned
  <2> QED
    BY <1>6, <1>9, <2>1, <2>2, <2>3, <2>4 DEF PlanMade
<1>11. EngineMeasured' /\ ServerMeasured'
  <2>1. pc' = "perplexity" => Opt.skipBench
    BY DEF Configure, PreflightVram, PreflightHost, Plan
  <2> QED
    BY <1>1, <1>4, <1>6, <2>1 DEF EngineMeasured, ServerMeasured, Past, FromScore, FromIssues, FromTier,
                                  FromEngine, FromPerplexity
<1> QED
  BY <1>7, <1>8, <1>10, <1>11 DEF Progress

\* The engine's stages leave the rate of a bench that is not below the floor, and the perplexity.
LEMMA ProgressEngine ==
    ASSUME IInv, Progress, Bench \/ BenchFails \/ Perplexity \/ Engine
    PROVE  Progress'
<1> USE DEF At, Go, Return, BeforeServer
<1>1. /\ pc \in {"bench", "perplexity", "engine"}
      /\ pc' \in {"perplexity", "engine", "start", "done"}
      /\ UNCHANGED <<trial, plan, won>>
  BY DEF Bench, BenchFails, Perplexity, Engine
<1>2. /\ DOMAIN res = Fields /\ res.outcome = "OK" /\ res.score = 0
  BY <1>1, ResultFields DEF IInv, Typed, EarnedSoFar
<1>3. /\ res.bench \in Rates \cup {0} /\ res.coding = 0 /\ res.agentic \in 0..100
      /\ res.tps \in Rates \cup {0} /\ res.codingTps \in Rates \cup {0} /\ won = 0
      /\ \A t \in {"quick", "full"} : plan[t] => TierTasks[t] > 0
      /\ Opt.full /\ ~Opt.validation => plan.full
      /\ pc # "bench" => Opt.skipBench \/ res.bench >= Floor
      /\ pc = "engine" => (Opt.perplexity => res.perplexity)
  BY <1>1 DEF Progress, Bounded, PlanMade, EngineMeasured, Past, FromScore, FromIssues, FromTier, FromEngine,
              FromPerplexity, FromBench
<1>4. /\ res'.bench \in Rates \cup {0} /\ res'.coding = 0 /\ res'.agentic = res.agentic
      /\ res'.tps \in Rates \cup {0} /\ res'.codingTps = res.codingTps /\ res'.score \in Nat
      /\ pc' # "done" \/ res'.outcome = "OK" => Opt.skipBench \/ res'.bench >= Floor
      /\ pc' \in {"engine", "start"} \/ (pc' = "done" /\ res'.outcome = "OK") => (Opt.perplexity => res'.perplexity)
      /\ pc' = "done" /\ res'.outcome = "OK" => plan = NoPlan
  <2>1. CASE Bench
    <3>1. PICK rate \in Rates :
            /\ rate < Floor => pc' = "done" /\ res' = [res EXCEPT !.bench = rate, !.outcome = "MODEL_REJECTED"]
            /\ ~(rate < Floor) => pc' = "perplexity" /\ res' = [res EXCEPT !.bench = rate]
      BY <2>1 DEF Bench
    <3>2. rate \in Nat /\ Floor \in Nat
      BY TrialAssumption
    <3>3. rate < Floor \/ (~(rate < Floor) /\ rate >= Floor)
      BY <3>2
    <3>4. CASE rate < Floor
      <4>1. pc' = "done" /\ res' = [res EXCEPT !.bench = rate, !.outcome = "MODEL_REJECTED"]
        BY <3>1, <3>4
      <4> QED
        BY <1>2, <1>3, <4>1 DEF Fields
    <3>5. CASE ~(rate < Floor) /\ rate >= Floor
      <4>1. pc' = "perplexity" /\ res' = [res EXCEPT !.bench = rate]
        BY <3>1, <3>5
      <4> QED
        BY <1>2, <1>3, <3>5, <4>1 DEF Fields
    <3> QED
      BY <3>3, <3>4, <3>5
  <2>2. CASE BenchFails
    BY <1>2, <1>3, <2>2 DEF BenchFails, Fields
  <2>3. CASE Perplexity
    BY <1>2, <1>3, <2>3 DEF Perplexity, Fields
  <2>4. CASE Engine
    <3>1. res.bench \in Nat /\ Floor \in Nat /\ pc = "engine"
      BY <1>3, <2>4, TrialAssumption DEF Engine
    <3>2. CASE ~EngineOnly
      <4>1. res' = res /\ pc' = "start"
        BY <2>4, <3>2 DEF Engine
      <4> QED
        BY <1>2, <1>3, <3>1, <4>1
    <3>3. CASE EngineOnly /\ res.bench < Floor
      <4>1. res' = [res EXCEPT !.tps = res.bench, !.score = 0, !.outcome = "MODEL_REJECTED"] /\ pc' = "done"
        BY <2>4, <3>3 DEF Engine
      <4> QED
        BY <1>2, <1>3, <4>1 DEF Fields
    <3>4. CASE EngineOnly /\ ~(res.bench < Floor)
      <4>1. res' = [res EXCEPT !.tps = res.bench, !.score = res.bench, !.outcome = "OK"] /\ pc' = "done"
        BY <2>4, <3>4 DEF Engine
      <4> QED
        BY <1>2, <1>3, <2>4, <3>1, <3>4, <4>1 DEF Engine, EngineOnly, Fields
    <3> QED
      BY <3>2, <3>3, <3>4
  <2> QED
    BY <2>1, <2>2, <2>3, <2>4
<1>5. TierTasks' = TierTasks /\ Opt' = Opt
  BY <1>1 DEF TierTasks, Opt
<1>6. Bounded'
  BY <1>1, <1>3, <1>4, <1>5 DEF Progress, Bounded
<1>7. CodingLeft' /\ TiersLeft'
  BY <1>1 DEF CodingLeft, TiersLeft
<1>8. PlanMade'
  BY <1>1, <1>3, <1>5 DEF PlanMade
<1>9. EngineMeasured'
  BY <1>1, <1>4, <1>5 DEF EngineMeasured, Past, FromScore, FromIssues, FromTier, FromEngine, FromPerplexity
<1>10. ServerMeasured'
  BY <1>1, <1>4 DEF ServerMeasured, NoPlan, Past, FromScore, FromIssues, FromTier
<1> QED
  BY <1>6, <1>7, <1>8, <1>9, <1>10 DEF Progress

\* What every step from the server on leaves alone.
LEMMA ServerKeeps ==
    ASSUME IInv, Progress, pc \in {"start", "entry", "coding", "tier", "issues", "score"},
           UNCHANGED <<trial, plan>>
    PROVE  /\ DOMAIN res = Fields /\ res.outcome = "OK" /\ res.score = 0
           /\ TierTasks' = TierTasks /\ Opt' = Opt
           /\ \A t \in {"quick", "full"} : plan[t] => TierTasks[t] > 0
           /\ \A t \in {"quick", "full"} : TierTasks[t] \in Nat
           /\ Opt.full /\ ~Opt.validation => plan.full
           /\ Opt.skipBench \/ res.bench >= Floor
           /\ Opt.perplexity => res.perplexity
           /\ PlanMade'
           /\ res.coding \in 0..100 /\ res.agentic \in 0..100 /\ res.bench \in Rates \cup {0}
           /\ res.tps \in Rates \cup {0} /\ res.codingTps \in Rates \cup {0}
           /\ won \in Nat /\ (won <= TierTasks["quick"] \/ won <= TierTasks["full"])
           /\ pc # "tier" => won = 0
<1>1. DOMAIN res = Fields /\ res.outcome = "OK" /\ res.score = 0
  BY ResultFields DEF IInv, Typed, EarnedSoFar
<1>2. TierTasks' = TierTasks /\ Opt' = Opt
  BY DEF TierTasks, Opt
<1>3. pc \in FromEngine /\ pc \in FromPerplexity /\ pc \in FromBench
  BY DEF FromScore, FromIssues, FromTier, FromEngine, FromPerplexity, FromBench
<1>4. \A t \in {"quick", "full"} : TierTasks[t] \in Nat
  BY DEF IInv, Typed, TrialType, TierTasks
<1>5. /\ \A t \in {"quick", "full"} : plan[t] => TierTasks[t] > 0
      /\ Opt.full /\ ~Opt.validation => plan.full
  BY <1>3 DEF Progress, PlanMade, Past
<1>6. PlanMade'
  BY <1>2, <1>5 DEF PlanMade
<1>7. (Opt.skipBench \/ res.bench >= Floor) /\ (Opt.perplexity => res.perplexity)
  BY <1>3 DEF Progress, EngineMeasured, Past
<1>8. /\ res.coding \in 0..100 /\ res.agentic \in 0..100 /\ res.bench \in Rates \cup {0}
      /\ res.tps \in Rates \cup {0} /\ res.codingTps \in Rates \cup {0}
      /\ won \in Nat /\ (won <= TierTasks["quick"] \/ won <= TierTasks["full"])
      /\ pc # "tier" => won = 0
  BY DEF Progress, Bounded
<1> QED
  BY <1>1, <1>2, <1>4, <1>5, <1>6, <1>7, <1>8

\* An evaluation that is broken off leaves an outcome that is not clean.
LEMMA ProgressLeaves ==
    ASSUME IInv, Progress, pc \in {"start", "entry", "coding", "tier", "issues"},
           UNCHANGED <<trial, plan, won>>,
           NEW o \in Outcomes \ {"OK"}, Leave(o)
    PROVE  Progress'
<1>1. pc' = "leave" /\ res' = [res EXCEPT !.outcome = o, !.score = 0]
  BY DEF Leave, Go
<1>2. DOMAIN res = Fields /\ TierTasks' = TierTasks /\ Opt' = Opt /\ PlanMade'
  BY ServerKeeps
<1>3. /\ res'.outcome # "OK" /\ res'.score = 0
      /\ res'.bench = res.bench /\ res'.codingTps = res.codingTps /\ res'.tps = res.tps
      /\ res'.coding = res.coding /\ res'.agentic = res.agentic
  BY <1>1, <1>2 DEF Fields
<1>4. Bounded'
  BY <1>1, <1>2, <1>3, ServerKeeps DEF Bounded
<1>5. CodingLeft' /\ TiersLeft'
  BY <1>1 DEF CodingLeft, TiersLeft
<1>6. EngineMeasured' /\ ServerMeasured'
  BY <1>1, <1>3 DEF EngineMeasured, ServerMeasured, Past, FromScore, FromIssues, FromTier, FromEngine,
                    FromPerplexity
<1> QED
  BY <1>2, <1>4, <1>5, <1>6 DEF Progress

\* The starts, and the refusals and failures of every later stage.
LEMMA ProgressStarts ==
    ASSUME IInv, Progress, StartFails \/ Start \/ EvaluationRaises
    PROVE  Progress'
<1> DEFINE Leaves == \E o \in Outcomes \ {"OK"} : Leave(o)
<1>1. UNCHANGED <<trial, plan, won, todo>> /\ pc \in {"start", "coding", "tier", "issues"}
  BY DEF StartFails, Start, EvaluationRaises, At
<1>2. "CODE_ERROR" \in Outcomes \ {"OK"} /\ "INFRA_ERROR" \in Outcomes \ {"OK"}
  BY DEF Outcomes
<1>3. Leaves \/ (pc = "start" /\ pc' = "entry" /\ UNCHANGED res)
  <2>1. CASE StartFails
    BY <1>2, <2>1 DEF StartFails, Raised
  <2>2. CASE Start
    BY <1>2, <2>2 DEF Start, Raised, At, Go
  <2>3. CASE EvaluationRaises
    BY <1>2, <2>3 DEF EvaluationRaises, Raised
  <2> QED
    BY <2>1, <2>2, <2>3
<1>4. CASE Leaves
  <2>1. PICK o \in Outcomes \ {"OK"} : Leave(o)
    BY <1>4
  <2> QED
    BY <1>1, <2>1, ProgressLeaves
<1>5. CASE pc = "start" /\ pc' = "entry" /\ UNCHANGED res
  <2>1. TierTasks' = TierTasks /\ Opt' = Opt /\ PlanMade'
    BY <1>1, <1>5, ServerKeeps
  <2>2. Bounded'
    BY <1>1, <1>5, <2>1 DEF Progress, Bounded
  <2>3. EngineMeasured'
    BY <1>1, <1>5, <2>1, ServerKeeps DEF EngineMeasured
  <2>4. CodingLeft' /\ TiersLeft' /\ ServerMeasured'
    BY <1>5 DEF CodingLeft, TiersLeft, ServerMeasured, Past, FromScore, FromIssues, FromTier
  <2> QED
    BY <2>1, <2>2, <2>3, <2>4 DEF Progress
<1> QED
  BY <1>3, <1>4, <1>5

LEMMA ProgressEntry ==
    ASSUME IInv, Progress, Entry
    PROVE  Progress'
<1>1. UNCHANGED <<trial, plan, won>> /\ pc = "entry"
  BY DEF Entry, At
<1>2. CASE vramKilled
  <2>1. "WATCHDOG_KILL" \in Outcomes \ {"OK"} /\ Leave("WATCHDOG_KILL")
    BY <1>2 DEF Entry, Outcomes
  <2> QED
    BY <1>1, <2>1, ProgressLeaves
<1>3. CASE ~vramKilled
  <2>1. /\ pc' = "coding" /\ UNCHANGED res /\ todo' = IF plan.coding THEN Datasets ELSE <<>>
        /\ res.coding = 0
    BY <1>1, <1>3 DEF Entry, Go, Progress, Bounded
  <2>2. TierTasks' = TierTasks /\ Opt' = Opt /\ PlanMade'
    BY <1>1, ServerKeeps
  <2>3. Bounded'
    BY <1>1, <2>1, <2>2 DEF Progress, Bounded
  <2>4. EngineMeasured'
    BY <1>1, <2>1, <2>2, ServerKeeps DEF EngineMeasured
  <2>5. CodingLeft'
    BY <2>1 DEF CodingLeft
  <2>6. TiersLeft' /\ ServerMeasured'
    BY <2>1 DEF TiersLeft, ServerMeasured, Past, FromScore, FromIssues, FromTier
  <2> QED
    BY <2>2, <2>3, <2>4, <2>5, <2>6 DEF Progress
<1> QED
  BY <1>2, <1>3

\* A dataset earns at most its weight.
LEMMA ProgressDataset ==
    ASSUME IInv, Progress, Dataset
    PROVE  Progress'
<1>1. /\ UNCHANGED <<trial, pc, plan, won>> /\ pc = "coding" /\ todo # <<>> /\ todo' = Tail(todo)
  BY DEF Dataset, At
<1>2. DOMAIN res = Fields /\ TierTasks' = TierTasks /\ Opt' = Opt /\ PlanMade' /\ res.coding \in 0..100
  BY <1>1, ServerKeeps
<1>3. /\ res'.coding = res.coding \/ res'.coding = res.coding + Weight[Head(todo)]
      /\ \A f \in Fields : f \notin {"coding", "tokens"} => res'[f] = res[f]
  <2>1. PICK passed, answered \in BOOLEAN :
          res' = [res EXCEPT !.coding = @ + IF passed THEN Weight[Head(todo)] ELSE 0,
                             !.tokens = @ \/ answered]
    BY DEF Dataset
  <2>2. /\ res'.coding = res.coding + IF passed THEN Weight[Head(todo)] ELSE 0
        /\ \A f \in Fields : f \notin {"coding", "tokens"} => res'[f] = res[f]
    BY <1>2, <2>1 DEF Fields
  <2> QED
    BY <1>2, <2>2
<1>4. CodingLeft' /\ res'.coding \in 0..100
  <2>1. CASE todo = Datasets /\ res.coding = 0
    <3>1. Head(todo) = "humaneval" /\ todo' = <<"mbpp", "lcb", "bigcode">>
      BY <1>1, <2>1 DEF Datasets
    <3>2. Weight["humaneval"] = 25
      BY DEF Weight
    <3>3. res'.coding \in 0..25
      BY <1>3, <2>1, <3>1, <3>2
    <3>4. CodingLeft'
      BY <1>1, <3>1, <3>3 DEF CodingLeft
    <3> QED
      BY <3>3, <3>4
  <2>2. CASE todo = <<"mbpp", "lcb", "bigcode">> /\ res.coding \in 0..25
    <3>1. Head(todo) = "mbpp" /\ todo' = <<"lcb", "bigcode">>
      BY <1>1, <2>2
    <3> QED
      BY <1>1, <1>3, <2>2, <3>1 DEF CodingLeft, Weight
  <2>3. CASE todo = <<"lcb", "bigcode">> /\ res.coding \in 0..50
    <3>1. Head(todo) = "lcb" /\ todo' = <<"bigcode">>
      BY <1>1, <2>3
    <3> QED
      BY <1>1, <1>3, <2>3, <3>1 DEF CodingLeft, Weight
  <2>4. CASE todo = <<"bigcode">> /\ res.coding \in 0..85
    <3>1. Head(todo) = "bigcode" /\ todo' = <<>>
      BY <1>1, <2>4
    <3>2. Weight["bigcode"] = 15
      BY DEF Weight
    <3>3. res'.coding \in {res.coding, res.coding + 15} /\ res.coding \in 0..85
      BY <1>3, <2>4, <3>1, <3>2
    <3>4. res'.coding \in 0..100
      BY <3>3
    <3> QED
      BY <1>1, <3>1, <3>4 DEF CodingLeft
  <2> QED
    BY <1>1, <2>1, <2>2, <2>3, <2>4 DEF Progress, CodingLeft
<1>5. /\ res'.score = res.score /\ res'.agentic = res.agentic /\ res'.bench = res.bench
      /\ res'.tps = res.tps /\ res'.codingTps = res.codingTps /\ res'.perplexity = res.perplexity
  BY <1>3 DEF Fields
<1>6. Bounded'
  BY <1>1, <1>2, <1>4, <1>5 DEF Progress, Bounded
<1>7. EngineMeasured'
  BY <1>1, <1>2, <1>5, ServerKeeps DEF EngineMeasured
<1>8. TiersLeft' /\ ServerMeasured'
  BY <1>1 DEF TiersLeft, ServerMeasured, Past, FromScore, FromIssues, FromTier
<1> QED
  BY <1>2, <1>4, <1>6, <1>7, <1>8 DEF Progress

\* The queue of the tiers holds every task of each tier that was planned.
LEMMA TierQueueIs ==
    ASSUME NEW q \in Nat, NEW f \in Nat,
           q = IF plan.quick THEN TierTasks["quick"] ELSE 0,
           f = IF plan.full THEN TierTasks["full"] ELSE 0
    PROVE  TierQueue = Queue(q, f)
<1>1. Queued("quick") = [k \in 1..q |-> "quick"]
  <2>1. CASE plan.quick
    BY <2>1 DEF Queued, TasksOf
  <2>2. CASE ~plan.quick
    BY <2>2 DEF Queued
  <2> QED
    BY <2>1, <2>2
<1>2. Queued("full") = [k \in 1..f |-> "full"]
  <2>1. CASE plan.full
    BY <2>1 DEF Queued, TasksOf
  <2>2. CASE ~plan.full
    BY <2>2 DEF Queued
  <2> QED
    BY <2>1, <2>2
<1> QED
  BY <1>1, <1>2, QueueConcat DEF TierQueue

LEMMA ProgressCodingDone ==
    ASSUME IInv, Progress, CodingDone
    PROVE  Progress'
<1>1. UNCHANGED <<trial, plan, won>> /\ pc = "coding"
  BY DEF CodingDone, At
<1>2. CASE plan.coding /\ res.coding = 0
  <2>1. "MODEL_REJECTED" \in Outcomes \ {"OK"} /\ Leave("MODEL_REJECTED")
    BY <1>2 DEF CodingDone, Outcomes
  <2> QED
    BY <1>1, <2>1, ProgressLeaves
<1>3. CASE ~(plan.coding /\ res.coding = 0)
  <2>1. PICK rate \in Rates \cup {0} : res' = [res EXCEPT !.codingTps = rate]
    BY <1>3 DEF CodingDone
  <2>2. pc' = "tier" /\ todo' = TierQueue
    BY <1>3 DEF CodingDone, Go
  <2>3. /\ DOMAIN res = Fields /\ TierTasks' = TierTasks /\ Opt' = Opt /\ PlanMade' /\ won = 0
        /\ \A t \in {"quick", "full"} : TierTasks[t] \in Nat
        /\ \A t \in {"quick", "full"} : plan[t] => TierTasks[t] > 0
        /\ res.coding \in 0..100
    BY <1>1, ServerKeeps
  <2>4. /\ res'.codingTps \in Rates \cup {0}
        /\ res'.score = res.score /\ res'.agentic = res.agentic /\ res'.bench = res.bench
        /\ res'.tps = res.tps /\ res'.coding = res.coding /\ res'.perplexity = res.perplexity
    BY <2>1, <2>3 DEF Fields
  <2>5. Bounded'
    BY <1>1, <2>2, <2>3, <2>4 DEF Progress, Bounded
  <2>6. TiersLeft'
    <3>1. PICK q \in Nat, f \in Nat : /\ q = IF plan.quick THEN TierTasks["quick"] ELSE 0
                                     /\ f = IF plan.full THEN TierTasks["full"] ELSE 0
      BY <2>3
    <3>2. todo' = Queue(q, f)
      BY <2>2, <3>1, TierQueueIs
    <3>3. TiersAt(q, f)'
      BY <1>1, <2>3, <3>1, <3>2 DEF TiersAt
    <3> QED
      BY <3>3 DEF TiersLeft
  <2>7. EngineMeasured'
    BY <1>1, <2>3, <2>4, ServerKeeps DEF EngineMeasured
  <2>8. CodingLeft' /\ ServerMeasured'
    BY <1>1, <1>3, <2>2, <2>3, <2>4 DEF CodingLeft, ServerMeasured, Past, FromScore, FromIssues
  <2> QED
    BY <2>3, <2>5, <2>6, <2>7, <2>8 DEF Progress
<1> QED
  BY <1>2, <1>3

\* One task fewer in the queue; the result of the last tier that was asked for is kept when its
\* last task is done.
LEMMA ProgressTierTask ==
    ASSUME IInv, Progress, TierTask
    PROVE  Progress'
<1>1. UNCHANGED <<trial, pc, plan>> /\ pc = "tier" /\ todo # <<>> /\ todo' = Tail(todo)
  BY DEF TierTask, At
<1>2. /\ DOMAIN res = Fields /\ TierTasks' = TierTasks /\ Opt' = Opt /\ PlanMade' /\ won \in Nat
      /\ \A t \in {"quick", "full"} : TierTasks[t] \in Nat
      /\ \A t \in {"quick", "full"} : plan[t] => TierTasks[t] > 0
      /\ res.agentic \in 0..100
  BY <1>1, ServerKeeps
<1>3. PICK q \in Nat, f \in Nat : TiersAt(q, f)
  BY <1>1 DEF Progress, TiersLeft
<1>4. q + f > 0
  <2>1. q = 0 /\ f = 0 => todo = <<>>
    BY <1>3 DEF TiersAt, Queue
  <2> QED
    BY <1>1, <2>1
<1> DEFINE tier == Head(todo)
           last == Len(todo) = 1 \/ todo[2] # tier
<1>5. PICK passed \in BOOLEAN :
        /\ won' = IF last THEN 0 ELSE won + IF passed THEN 1 ELSE 0
        /\ res' = IF last /\ Kept(tier)
                  THEN [res EXCEPT !.tier = tier, !.count = TierTasks[tier],
                                   !.agentic = (100 * (won + IF passed THEN 1 ELSE 0)) \div TierTasks[tier]]
                  ELSE res
  BY DEF TierTask
<1> DEFINE count == won + IF passed THEN 1 ELSE 0
<1>6. count \in {won, won + 1}
  BY <1>2
<1>7. /\ won' = IF last THEN 0 ELSE count
      /\ res' = IF last /\ Kept(tier)
                THEN [res EXCEPT !.tier = tier, !.count = TierTasks[tier],
                                 !.agentic = (100 * count) \div TierTasks[tier]]
                ELSE res
  BY <1>5
<1> HIDE DEF count
<1>8. /\ Len(todo) = q + f
      /\ \A k \in 1..(q + f) : todo[k] = IF k <= q THEN "quick" ELSE "full"
  BY <1>3, QueueSeq DEF TiersAt
<1>9. /\ q > 0 => tier = "quick" /\ Tail(todo) = Queue(q - 1, f)
      /\ q = 0 => tier = "full" /\ Tail(todo) = Queue(0, f - 1)
  BY <1>3, <1>4, QueueTail DEF TiersAt
<1>10. tier \in {"quick", "full"} /\ TierTasks[tier] > 0 /\ count \in 0..TierTasks[tier]
  <2> HIDE DEF tier
  <2>1. CASE q > 0
    <3>1. tier = "quick" /\ won + q <= TierTasks["quick"]
      BY <1>3, <1>9, <2>1 DEF TiersAt
    <3> QED
      BY <1>2, <1>6, <2>1, <3>1
  <2>2. CASE q = 0
    <3>1. tier = "full" /\ won + f <= TierTasks["full"] /\ f > 0
      BY <1>3, <1>4, <1>9, <2>2 DEF TiersAt
    <3> QED
      BY <1>2, <1>6, <3>1
  <2> QED
    BY <2>1, <2>2
<1>11. (100 * count) \div TierTasks[tier] \in 0..100
  BY <1>2, <1>10, Percentage
<1>12. /\ res'.agentic \in 0..100
      /\ res'.score = res.score /\ res'.bench = res.bench /\ res'.tps = res.tps /\ res'.coding = res.coding
      /\ res'.codingTps = res.codingTps /\ res'.perplexity = res.perplexity
  <2> HIDE DEF tier, last
  <2> QED
    BY <1>2, <1>7, <1>11 DEF Fields
<1>13. Bounded'
  <2>1. won' \in Nat /\ (won' <= TierTasks["quick"] \/ won' <= TierTasks["full"])
    <3> HIDE DEF last
    <3> QED
      BY <1>2, <1>7, <1>10
  <2> QED
    BY <1>1, <1>2, <1>12, <2>1 DEF Progress, Bounded
<1>14. TiersLeft'
  <2>1. CASE q > 0
    <3>1. tier = "quick" /\ todo' = Queue(q - 1, f)
      BY <1>1, <1>9, <2>1
    <3>2. last <=> q = 1
      <4>1. /\ Len(todo) = q + f
            /\ q + f >= 2 => todo[2] = IF 2 <= q THEN "quick" ELSE "full"
        BY <1>8
      <4> QED
        BY <1>4, <2>1, <3>1, <4>1
    <3>3. won' = IF q = 1 THEN 0 ELSE count
      BY <1>7, <3>2
    <3>4. q = 1 /\ plan.quick /\ ~plan.full => res'.tier = "quick"
      BY <1>2, <1>7, <3>1, <3>2 DEF Kept, Fields
    <3>5. plan.full => f > 0
      BY <1>2, <1>3, <2>1 DEF TiersAt
    <3>6. TiersAt(q - 1, f)'
      <4> HIDE DEF tier, last
      <4>1. /\ won + q <= TierTasks["quick"] /\ (plan.full => f = TierTasks["full"])
            /\ f > 0 => plan.full
        BY <1>3, <2>1 DEF TiersAt
      <4>2. TierTasks["quick"] \in Nat /\ TierTasks["full"] \in Nat
        BY <1>2
      <4>3. q - 1 > 0 => won' + (q - 1) <= TierTasks["quick"]
        BY <1>2, <1>6, <2>1, <3>3, <4>1, <4>2
      <4>4. q - 1 = 0 /\ f > 0 => won' + f <= TierTasks["full"]
        BY <2>1, <3>3, <4>1, <4>2
      <4>5. q - 1 = 0 => won' = 0
        BY <2>1, <3>3
      <4>6. q - 1 = 0 /\ f = 0 => ~plan.full
        BY <3>5
      <4>7. q - 1 = 0 /\ plan.quick /\ ~plan.full => res'.tier = "quick"
        BY <2>1, <3>4
      <4> QED
        BY <1>1, <1>2, <3>1, <4>1, <4>3, <4>4, <4>5, <4>6, <4>7 DEF TiersAt
    <3> QED
      BY <2>1, <3>6 DEF TiersLeft
  <2>2. CASE q = 0
    <3>1. f > 0 /\ tier = "full" /\ todo' = Queue(0, f - 1)
      BY <1>1, <1>4, <1>9, <2>2
    <3>2. last <=> f = 1
      <4>1. Len(todo) = f /\ (f >= 2 => todo[2] = "full")
        BY <1>8, <2>2
      <4> QED
        BY <3>1, <4>1
    <3>3. won' = IF f = 1 THEN 0 ELSE count
      BY <1>7, <3>2
    <3>4. f = 1 => res'.tier = "full" /\ res'.count = TierTasks["full"]
      BY <1>2, <1>7, <3>1, <3>2 DEF Kept, Fields
    <3>5. plan.full /\ won + f <= TierTasks["full"]
      BY <1>3, <2>2, <3>1 DEF TiersAt
    <3>6. TiersAt(0, f - 1)'
      <4> HIDE DEF tier, last
      <4>1. f - 1 > 0 => won' + (f - 1) <= TierTasks["full"]
        BY <1>2, <1>6, <3>1, <3>3, <3>5
      <4>2. f - 1 = 0 => won' = 0 /\ res'.tier = "full" /\ res'.count = TierTasks["full"]
        BY <3>1, <3>3, <3>4
      <4>3. plan'.full /\ f - 1 \in Nat
        BY <1>1, <3>1, <3>5
      <4> QED
        BY <1>2, <3>1, <4>1, <4>2, <4>3 DEF TiersAt
    <3> QED
      BY <3>1, <3>6 DEF TiersLeft
  <2> QED
    BY <2>1, <2>2
<1>15. EngineMeasured'
  BY <1>1, <1>2, <1>12, ServerKeeps DEF EngineMeasured
<1>16. ServerMeasured'
  BY <1>1, <1>12 DEF Progress, ServerMeasured, Past, FromScore, FromIssues, FromTier
<1>17. CodingLeft'
  BY <1>1 DEF CodingLeft
<1> QED
  BY <1>2, <1>13, <1>14, <1>15, <1>16, <1>17 DEF Progress

\* The end of the tiers, and the issues.
LEMMA ProgressIssues ==
    ASSUME IInv, Progress, TiersDone \/ Issues
    PROVE  Progress'
<1>1. UNCHANGED <<trial, plan, won>> /\ pc \in {"tier", "issues"} /\ pc' \in {"issues", "score"}
  BY DEF TiersDone, Issues, At, Go
<1>2. /\ DOMAIN res = Fields /\ TierTasks' = TierTasks /\ Opt' = Opt /\ PlanMade'
  BY <1>1, ServerKeeps
<1>3. /\ \A g \in Fields : g # "issues" => res'[g] = res[g]
      /\ pc' = "score" => (plan.issues => res'.issues # Unset)
  <2>1. CASE TiersDone
    BY <2>1, <1>2 DEF TiersDone, At, Go
  <2>2. CASE Issues
    <3>1. CASE plan.issues
      <4>1. PICK score \in {0, 100} : res' = [res EXCEPT !.issues = score]
        BY <2>2, <3>1 DEF Issues
      <4> QED
        BY <1>2, <4>1 DEF Fields, Unset
    <3>2. CASE ~plan.issues
      BY <1>2, <2>2, <3>2 DEF Issues
    <3> QED
      BY <3>1, <3>2
  <2> QED
    BY <2>1, <2>2
<1>4. /\ res'.score = res.score /\ res'.bench = res.bench /\ res'.tps = res.tps /\ res'.coding = res.coding
      /\ res'.codingTps = res.codingTps /\ res'.perplexity = res.perplexity
      /\ res'.agentic = res.agentic /\ res'.tier = res.tier /\ res'.count = res.count
  BY <1>3 DEF Fields
<1>5. won = 0 /\ (pc = "tier" => pc' = "issues" /\ todo = <<>>)
      /\ (pc = "issues" => pc' = "score")
  <2>1. TiersDone => pc = "tier" /\ pc' = "issues" /\ todo = <<>>
    BY DEF TiersDone, At, Go
  <2>2. Issues => pc = "issues" /\ pc' = "score"
    BY DEF Issues, At, Go
  <2>3. TiersDone => won = 0
    <3>1. SUFFICES ASSUME TiersDone PROVE won = 0
      OBVIOUS
    <3>2. PICK q \in Nat, f \in Nat : TiersAt(q, f)
      BY <2>1, <3>1 DEF Progress, TiersLeft
    <3>3. q = 0 /\ f = 0
      BY <2>1, <3>1, <3>2, QueueTail DEF TiersAt
    <3> QED
      BY <3>2, <3>3 DEF TiersAt
  <2>4. Issues => won = 0
    BY <2>2 DEF Progress, Bounded
  <2> QED
    BY <2>1, <2>2, <2>3, <2>4
<1>6. Bounded'
  BY <1>1, <1>2, <1>4, <1>5 DEF Progress, Bounded
<1>7. EngineMeasured'
  BY <1>1, <1>2, <1>4, ServerKeeps DEF EngineMeasured
<1>8. /\ plan.coding => res.coding > 0
      /\ plan.full => res.tier = "full" /\ res.count = TierTasks["full"]
      /\ plan.quick /\ ~plan.full => res.tier = "quick"
  <2>1. plan.coding => res.coding > 0
    BY <1>1 DEF Progress, ServerMeasured, Past, FromScore, FromIssues, FromTier
  <2>2. CASE pc = "tier"
    <3>1. PICK q \in Nat, f \in Nat : TiersAt(q, f)
      BY <2>2 DEF Progress, TiersLeft
    <3>2. q = 0 /\ f = 0
      BY <1>5, <2>2, <3>1, QueueTail DEF TiersAt
    <3> QED
      BY <2>1, <3>1, <3>2 DEF TiersAt
  <2>3. CASE pc = "issues"
    BY <2>1, <2>3 DEF Progress, ServerMeasured, Past, FromScore, FromIssues
  <2> QED
    BY <1>1, <2>1, <2>2, <2>3
<1>9. ServerMeasured'
  BY <1>1, <1>2, <1>3, <1>4, <1>5, <1>8 DEF ServerMeasured, Past, FromScore
<1>10. CodingLeft' /\ TiersLeft'
  BY <1>1 DEF CodingLeft, TiersLeft
<1> QED
  BY <1>2, <1>6, <1>7, <1>9, <1>10 DEF Progress

\* The score is a percentage or a rate; a kill takes it back, and is not clean.
LEMMA ProgressScore ==
    ASSUME IInv, Progress, Score
    PROVE  Progress'
<1>1. UNCHANGED <<trial, plan, won>> /\ pc = "score" /\ pc' = "leave"
  BY DEF Score, At, Go
<1>2. /\ DOMAIN res = Fields /\ TierTasks' = TierTasks /\ Opt' = Opt /\ PlanMade'
      /\ res.bench \in Rates \cup {0} /\ res.codingTps \in Rates \cup {0}
      /\ res.agentic \in 0..100 /\ res.coding \in 0..100
  BY <1>1, ServerKeeps
<1>3. Rate \in Rates \cup {0} /\ Rate \in Nat
  <2>1. Rate \in {res.codingTps, res.bench, 0}
    BY DEF Rate
  <2>2. Rate \in Rates \cup {0}
    BY <1>2, <2>1
  <2> QED
    BY <2>2, TrialAssumption
<1>4. Quality \in Nat
  <2>1. Quality \in {res.agentic, res.coding, Rate, 0}
    BY DEF Quality
  <2>2. res.agentic \in Nat /\ res.coding \in Nat
    BY <1>2
  <2> QED
    BY <1>3, <2>1, <2>2
<1>5. /\ \A g \in Fields : g \notin {"tps", "score", "outcome"} => res'[g] = res[g]
      /\ res'.tps = Rate /\ res'.score \in Nat
  <2>1. CASE Measured /\ Rate < Floor
    <3>1. res' = [res EXCEPT !.tps = Rate, !.score = 0, !.outcome = "MODEL_REJECTED"]
      BY <2>1 DEF Score
    <3> QED
      BY <1>2, <3>1 DEF Fields
  <2>2. CASE ~(Measured /\ Rate < Floor)
    <3>1. res' = [res EXCEPT !.tps = Rate, !.score = Quality]
      BY <2>2 DEF Score
    <3> QED
      BY <1>2, <1>4, <3>1 DEF Fields
  <2> QED
    BY <2>1, <2>2
<1>6. /\ res'.bench = res.bench /\ res'.coding = res.coding
      /\ res'.codingTps = res.codingTps /\ res'.perplexity = res.perplexity /\ res'.issues = res.issues
      /\ res'.agentic = res.agentic /\ res'.tier = res.tier /\ res'.count = res.count
  BY <1>5 DEF Fields
<1>7. Bounded'
  BY <1>1, <1>2, <1>3, <1>5, <1>6 DEF Progress, Bounded
<1>8. EngineMeasured'
  BY <1>1, <1>2, <1>6, ServerKeeps DEF EngineMeasured
<1>9. ServerMeasured'
  <2>1. /\ plan.coding => res.coding > 0
        /\ plan.full => res.tier = "full" /\ res.count = TierTasks["full"]
        /\ plan.quick /\ ~plan.full => res.tier = "quick"
        /\ plan.issues => res.issues # Unset
    BY <1>1 DEF Progress, ServerMeasured, Past, FromScore, FromIssues, FromTier
  <2> QED
    BY <1>1, <1>2, <1>6, <2>1 DEF ServerMeasured
<1>10. CodingLeft' /\ TiersLeft'
  BY <1>1 DEF CodingLeft, TiersLeft
<1> QED
  BY <1>2, <1>7, <1>8, <1>9, <1>10 DEF Progress

LEMMA ProgressFinish ==
    ASSUME IInv, Progress, Finish
    PROVE  Progress'
<1>1. UNCHANGED <<trial, plan, won>> /\ pc = "leave" /\ pc' = "done" /\ DOMAIN res = Fields
  BY ResultFields DEF Finish, At, Go, IInv, Typed
<1>2. /\ \A g \in Fields : g \notin {"score", "outcome"} => res'[g] = res[g]
      /\ res'.score \in {0, res.score}
      /\ res'.outcome = "OK" => res' = res
  BY <1>1, LeftWith
<1>3. TierTasks' = TierTasks /\ Opt' = Opt
  BY <1>1 DEF TierTasks, Opt
<1>4. /\ res'.bench = res.bench /\ res'.coding = res.coding /\ res'.tps = res.tps
      /\ res'.codingTps = res.codingTps /\ res'.agentic = res.agentic
  BY <1>2 DEF Fields
<1>5. Bounded'
  BY <1>1, <1>2, <1>3, <1>4 DEF Progress, Bounded
<1>6. PlanMade' /\ EngineMeasured' /\ ServerMeasured'
  BY <1>1, <1>2, <1>3 DEF Progress, PlanMade, EngineMeasured, ServerMeasured, Past, FromScore, FromIssues,
                          FromTier, FromEngine, FromPerplexity, FromBench
<1>7. CodingLeft' /\ TiersLeft'
  BY <1>1 DEF CodingLeft, TiersLeft
<1> QED
  BY <1>5, <1>6, <1>7 DEF Progress

\* Neither the sampler nor the death of a server touches what was measured.
LEMMA ProgressOutside ==
    ASSUME Progress, SamplerKills \/ ServerDies \/ UNCHANGED vars
    PROVE  Progress'
<1>1. UNCHANGED <<trial, pc, todo, plan, won, res>>
  BY DEF SamplerKills, ServerDies, vars
<1>2. Bounded' /\ CodingLeft'
  BY <1>1 DEF Progress, Bounded, CodingLeft, TierTasks
<1>3. TiersLeft'
  BY <1>1 DEF Progress, TiersLeft, TiersAt, TierTasks
<1>4. PlanMade' /\ EngineMeasured' /\ ServerMeasured'
  BY <1>1 DEF Progress, PlanMade, EngineMeasured, ServerMeasured, Past, TierTasks, Opt
<1> QED
  BY <1>2, <1>3, <1>4 DEF Progress

LEMMA ProgressInductive == Spec => []Progress
<1>1. IInv /\ Progress /\ [Next]_vars => Progress'
  BY ProgressPreflight, ProgressEngine, ProgressStarts, ProgressEntry, ProgressDataset, ProgressCodingDone,
     ProgressTierTask, ProgressIssues, ProgressScore, ProgressFinish, ProgressOutside DEF Next
<1> QED
  BY <1>1, ProgressInit, InductiveInvariant, PTL DEF Spec

\* Every field keeps its type and its bounds: a coding or agentic score is a percentage, whatever
\* the tasks, and a rate is one that was measured (run_trial, run_agentic_eval).
THEOREM TypeCorrect == Spec => []TypeOK
<1>1. IInv /\ Progress => TypeOK
  <2> SUFFICES ASSUME IInv, Progress
               PROVE  TypeOK
    OBVIOUS
  <2>1. plan \in [DOMAIN NoPlan -> BOOLEAN]
    <3>1. DOMAIN NoPlan = {"coding", "quick", "full", "issues"}
      BY DEF NoPlan
    <3> QED
      BY <3>1 DEF IInv, Typed, PlanType
  <2>2. TierTasks["quick"] \in Nat /\ TierTasks["full"] \in Nat
    BY DEF IInv, Typed, TrialType, TierTasks
  <2>3. won \in 0..Most(TierTasks["quick"], TierTasks["full"])
    BY <2>2 DEF Progress, Bounded, Most
  <2> QED
    BY <2>1, <2>3 DEF TypeOK, IInv, Typed, Stages, Progress, Bounded
<1> QED
  BY <1>1, InductiveInvariant, ProgressInductive, PTL

\* A clean Trial measured every axis that was asked for, and kept the result of the last tier,
\* with as many tasks as that tier has (run_trial).
THEOREM CleanIsComplete == Spec => []OkIsComplete
<1>1. Progress => OkIsComplete
  BY DEF Progress, PlanMade, EngineMeasured, ServerMeasured, Past, OkIsComplete, At
<1> QED
  BY <1>1, ProgressInductive, PTL

-----------------------------------------------------------------------------
(* The life of the server that the Trial relies on.                        *)

\* Inside the with statement only the flag makes a kill.
KillNamed == pc = "leave" /\ res.outcome = "WATCHDOG_KILL" => vramKilled

Early == {"config", "vram", "host", "plan", "bench", "perplexity", "engine"}

EarlySteps ==
    Configure \/ PreflightVram \/ PreflightHost \/ Plan \/ Bench \/ BenchFails \/ Perplexity \/ Engine
ServedSteps ==
    StartFails \/ Start \/ Entry \/ Dataset \/ CodingDone \/ TierTask \/ TiersDone \/ Issues
      \/ EvaluationRaises \/ Score

LEMMA EarlyFacts ==
    ASSUME IInv, EarlySteps
    PROVE  /\ pc \in Early /\ pc' \in Early \cup {"start", "done"}
           /\ server = "none" /\ server' = "none" /\ ~vramKilled /\ ~vramKilled'
<1> USE DEF At, Go, Return, BeforeServer
<1>1. pc \in Early
  BY DEF EarlySteps, Early, Configure, PreflightVram, PreflightHost, Plan, Bench, BenchFails, Perplexity, Engine
<1>2. UNCHANGED <<server, vramKilled>>
  BY DEF EarlySteps, Configure, PreflightVram, PreflightHost, Plan, Bench, BenchFails, Perplexity, Engine
<1>3. pc' \in Early \cup {"start", "done"}
  <2>1. CASE Configure \/ PreflightVram \/ PreflightHost \/ Plan
    BY <2>1 DEF Early, Configure, PreflightVram, PreflightHost, Plan
  <2>2. CASE Bench \/ BenchFails \/ Perplexity \/ Engine
    BY <2>2 DEF Early, Bench, BenchFails, Perplexity, Engine
  <2> QED
    BY <2>1, <2>2 DEF EarlySteps
<1>4. server = "none" /\ ~vramKilled
  BY <1>1 DEF IInv, Checked, FlagKept, Early, Serving
<1> QED
  BY <1>1, <1>2, <1>3, <1>4

Evaluating == {"coding", "tier", "issues", "score"}

\* The ways through the with statement, and what is known of the outcome on leaving it.
LEMMA ServedFacts ==
    ASSUME IInv, ServedSteps
    PROVE  /\ \/ Start /\ server = "none" /\ server' = "up" /\ pc = "start" /\ pc' = "entry"
              \/ UNCHANGED server
           /\ UNCHANGED vramKilled
           /\ \/ pc = "start" /\ pc' = "entry"
              \/ pc \in {"start"} \cup Evaluating /\ pc' = "leave" /\ UNCHANGED server
              \/ pc = "entry" /\ pc' \in {"coding", "leave"} /\ UNCHANGED server
              \/ pc \in Evaluating /\ pc' \in Evaluating
           /\ pc' = "leave" /\ res'.outcome = "WATCHDOG_KILL" => vramKilled
<1> USE DEF At, Go, Leave, Raised, Evaluating
<1>1. DOMAIN res = Fields /\ "outcome" \in Fields
  BY ResultFields DEF IInv, Typed, Fields
<1>2. CASE StartFails \/ Start \/ Entry
  <2>1. pc = "start" => server = "none"
    BY DEF IInv, Checked
  <2> QED
    BY <1>1, <1>2, <2>1 DEF StartFails, Start, Entry
<1>3. CASE Dataset \/ CodingDone \/ TierTask \/ TiersDone \/ Issues \/ EvaluationRaises
  <2>1. pc \in Evaluating /\ pc' \in Evaluating \cup {"leave"} /\ UNCHANGED <<server, vramKilled>>
    BY <1>3 DEF Dataset, CodingDone, TierTask, TiersDone, Issues, EvaluationRaises
  <2>2. pc' = "leave" => res'.outcome # "WATCHDOG_KILL"
    BY <1>1, <1>3 DEF Dataset, CodingDone, TierTask, TiersDone, Issues, EvaluationRaises
  <2> QED
    BY <2>1, <2>2
<1>4. CASE Score
  <2>1. pc = "score" /\ pc' = "leave" /\ UNCHANGED <<server, vramKilled>> /\ res.outcome = "OK"
    BY <1>4 DEF Score, IInv, EarnedSoFar
  <2>2. res'.outcome # "WATCHDOG_KILL"
    BY <1>1, <1>4, <2>1 DEF Score
  <2> QED
    BY <2>1, <2>2
<1> QED
  BY <1>2, <1>3, <1>4 DEF ServedSteps

LEMMA KillNamedStep == IInv /\ KillNamed /\ [Next]_vars => KillNamed'
<1> SUFFICES ASSUME IInv, KillNamed, [Next]_vars
             PROVE  KillNamed'
  OBVIOUS
<1>1. CASE EarlySteps
  BY <1>1, EarlyFacts DEF KillNamed, Early
<1>2. CASE ServedSteps
  BY <1>2, ServedFacts DEF KillNamed
<1>3. CASE Finish \/ SamplerKills \/ ServerDies \/ UNCHANGED vars
  BY <1>3 DEF KillNamed, Finish, Go, SamplerKills, ServerDies, vars
<1> QED
  BY <1>1, <1>2, <1>3 DEF Next, EarlySteps, ServedSteps

LEMMA EarlyLife ==
    ASSUME IInv, EarlySteps
    PROVE  Life!Next \/ UNCHANGED Life!vars
<1>1. /\ pc \in Early /\ pc' \in Early \cup {"start", "done"}
      /\ server = "none" /\ server' = "none" /\ ~vramKilled /\ ~vramKilled'
  BY EarlyFacts
<1>2. Live = {} /\ Flagged = {} /\ UNCHANGED <<Live, Flagged>> /\ Phase = "starting"
  BY <1>1 DEF Live, Flagged, Phase, At, Early
<1>3. CASE pc' = "done"
  <2>1. Phase' = "over" /\ Verdict' \in Life!Verdicts
    BY <1>3 DEF Phase, Verdict, At, Life!Verdicts
  <2> QED
    BY <1>2, <2>1 DEF Life!Next, Life!Quit
<1>4. CASE pc' # "done"
  <2>1. UNCHANGED <<Phase, Verdict>>
    BY <1>1, <1>4 DEF Phase, Verdict, At, Early
  <2> QED
    BY <1>2, <2>1 DEF Life!vars
<1> QED
  BY <1>3, <1>4

LEMMA ServedLife ==
    ASSUME IInv, ServedSteps
    PROVE  Life!Next \/ UNCHANGED Life!vars
<1>1. /\ \/ Start /\ server = "none" /\ server' = "up" /\ pc = "start" /\ pc' = "entry"
         \/ UNCHANGED server
      /\ UNCHANGED vramKilled
      /\ \/ pc = "start" /\ pc' = "entry"
         \/ pc \in {"start"} \cup Evaluating /\ pc' = "leave" /\ UNCHANGED server
         \/ pc = "entry" /\ pc' \in {"coding", "leave"} /\ UNCHANGED server
         \/ pc \in Evaluating /\ pc' \in Evaluating
  BY ServedFacts
<1>2. UNCHANGED <<Flagged, Verdict>> /\ (UNCHANGED server => UNCHANGED Live)
  BY <1>1 DEF Flagged, Verdict, At, Evaluating, Live
<1>3. CASE pc = "start" /\ pc' = "entry"
  <2>1. UNCHANGED Phase /\ Phase = "starting"
    BY <1>3 DEF Phase, At
  <2>2. CASE server = "none" /\ server' = "up"
    <3>1. Live = {} /\ Live' = {"server"}
      BY <2>2 DEF Live
    <3> QED
      BY <1>2, <2>1, <3>1 DEF Life!Next, Life!Load
  <2>3. CASE UNCHANGED server
    BY <1>2, <2>1, <2>3 DEF Life!vars
  <2> QED
    BY <1>1, <2>2, <2>3
<1>4. CASE pc \in {"start", "entry"} \cup Evaluating /\ pc' = "leave" /\ UNCHANGED server
  <2>1. Phase \in {"starting", "serving"} /\ Phase' = "leaving"
    BY <1>4 DEF Phase, At, Evaluating
  <2> QED
    BY <1>2, <1>4, <2>1 DEF Life!Next, Life!Leave
<1>5. CASE pc = "entry" /\ pc' = "coding" /\ UNCHANGED server
  <2>1. Phase = "starting" /\ Phase' = "serving"
    BY <1>5 DEF Phase, At
  <2> QED
    BY <1>2, <1>5, <2>1 DEF Life!Next, Life!Serve
<1>6. CASE pc \in Evaluating /\ pc' \in Evaluating
  <2>1. UNCHANGED Phase
    BY <1>6 DEF Phase, At, Evaluating
  <2>2. UNCHANGED server
    BY <1>1, <1>6 DEF Evaluating
  <2> QED
    BY <1>2, <2>1, <2>2 DEF Life!vars
<1> QED
  BY <1>1, <1>3, <1>4, <1>5, <1>6

LEMMA FinishLife ==
    ASSUME IInv, KillNamed, Finish
    PROVE  Life!Next
<1>1. /\ pc = "leave" /\ pc' = "done" /\ server' = "none" /\ UNCHANGED vramKilled
  BY DEF Finish, At, Go
<1>2. Phase = "leaving" /\ Phase' = "over" /\ Live' = {} /\ UNCHANGED Flagged
  BY <1>1 DEF Phase, Live, Flagged, At
<1>3. res'.outcome = "WATCHDOG_KILL" <=> vramKilled
  <2>1. DOMAIN res = Fields
    BY ResultFields DEF IInv, Typed
  <2> QED
    BY <1>1, <2>1, LeftWith DEF KillNamed
<1>4. Verdict' \in Life!Verdicts /\ (Verdict' = "watchdog" <=> "vram" \in Flagged)
  BY <1>1, <1>3 DEF Verdict, At, Flagged, Life!Verdicts
<1> QED
  BY <1>2, <1>4 DEF Life!Next, Life!Over

LEMMA OutsideLife ==
    ASSUME IInv, SamplerKills \/ ServerDies \/ UNCHANGED vars
    PROVE  Life!Next \/ UNCHANGED Life!vars
<1>1. UNCHANGED <<Phase, Verdict>>
  BY DEF SamplerKills, ServerDies, vars, Phase, Verdict, At
<1>2. CASE SamplerKills
  <2>1. Live' \subseteq Live /\ Flagged = {} /\ Flagged' = {"vram"}
    BY <1>2 DEF SamplerKills, Live, Flagged
  <2> QED
    BY <1>1, <2>1 DEF Life!Next, Life!Flag, Life!Monitors
<1>3. CASE ServerDies
  <2>1. Live' = {} /\ Live # {} /\ UNCHANGED Flagged
    BY <1>3 DEF ServerDies, Live, Flagged
  <2> QED
    BY <1>1, <2>1 DEF Life!Next, Life!Fall
<1>4. CASE UNCHANGED vars
  BY <1>1, <1>4 DEF vars, Life!vars, Live, Flagged
<1> QED
  BY <1>2, <1>3, <1>4

\* The stages of a Trial assume no more of its server than the runner keeps (run_trial against
\* LlamaServerRunner): compare ServerRunnerProofs!RunnerImplementsLife.
THEOREM TrialImplementsLife == Spec => ImplementsLife
<1>1. Init => Life!Init /\ KillNamed
  BY DEF Init, Life!Init, KillNamed, Phase, Live, Flagged, Verdict, At
<1>2. IInv /\ KillNamed /\ [Next]_vars => [Life!Next]_(Life!vars)
  BY EarlyLife, ServedLife, FinishLife, OutsideLife DEF Next, EarlySteps, ServedSteps
<1> QED
  BY <1>1, <1>2, KillNamedStep, InductiveInvariant, PTL DEF Spec, ImplementsLife, Life!Spec
=============================================================================
