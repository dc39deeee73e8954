----------------------------- MODULE VramBudget -----------------------------
(***************************************************************************)
(* What a load is estimated to need, and the budgets it has to fit         *)
(* (llama_runner.py, model_arch.py, hardware.py, circuit_breaker.py).      *)
(* Memory is in MiB, rounded down; fractions are in thousandths.           *)
(*                                                                         *)
(* A model is a GGUF file or, for SGLang, a directory (dir), and what its  *)
(* header says when it can be read: the size of the file and of its expert *)
(* tensors, its blocks (0 when missing), whether it tells the width and    *)
(* the heads of its attention (attn), and its f16 KV cells per token in    *)
(* full and in sliding-window layers.  An intent is a model with its       *)
(* context, KV types, draft, speculation and layers of experts on the CPU. *)
(* A host is the memory there is and the settings that bound its use.      *)
(* What cannot be detected is 0, and a setting that is not there is Unset. *)
(***************************************************************************)
EXTENDS Integers

Unset == -1
Least(a, b) == IF a < b THEN a ELSE b
Most(a, b) == IF a > b THEN a ELSE b
First(a, b) == IF a # Unset THEN a ELSE b

OverheadMB == 300
SpecBaseMB == 512
SpecPerTokenMB == 256
NonExpertFrac == 280
OffloadLayerRef == 32
DefaultKeepoutMB == 256
KvPerTokenF16 == 80       \* KiB, when the header does not tell

QuantFactor == [f16 |-> 1000, q8 |-> 550, q5 |-> 380, q4 |-> 280, turbo4 |-> 180,
                turbo3 |-> 140, turbo2 |-> 137, other |-> 300]

ModelType ==
    [dir : BOOLEAN, readable : BOOLEAN, moe : BOOLEAN, mtp : BOOLEAN, size : Nat, experts : Nat,
     blocks : Nat, attn : BOOLEAN, full : Nat, swa : Nat, window : Nat]
IntentType ==
    [model : ModelType, ctx : Nat, kvK : DOMAIN QuantFactor, kvV : DOMAIN QuantFactor, draft : Nat,
     spec : {"unset", "none", "draft", "ngram", "both"}, nDraft : Nat, offload : Int]
HostType ==
    [totalVram : Nat, freeVram : Nat, vramLimit : Nat, vramHeadroom : Nat, ram : Nat,
     envKeepout : Nat \cup {Unset}, configKeepout : Nat \cup {Unset}, hostHeadroom : Nat \cup {Unset},
     freeRam : Nat \cup {Unset}, freeClamp : BOOLEAN, unified : BOOLEAN]

\* gguf_is_moe, gguf_has_mtp: what an unreadable header says is "no".
IsMoe(m) == m.readable /\ m.moe
HasMtp(m) == m.readable /\ m.mtp

\* resolve_n_cpu_moe.  A directory keeps what was asked for.  A file that is no mixture of experts, or
\* that cannot be read, is loaded as dense whatever was asked for; a mixture takes all its blocks
\* unless told otherwise, and "refused" is the ValueError of a header that does not tell them.
OffloadRefused(m, n) == ~m.dir /\ IsMoe(m) /\ n = Unset /\ m.blocks = 0
ResolveOffload(m, n) ==
    IF m.dir THEN n
    ELSE IF ~IsMoe(m) THEN Unset
    ELSE First(n, m.blocks)

\* gguf_expert_bytes_mb of the first limit blocks, Unset when there is nothing to read.
ExpertMB(m, limit) ==
    IF ~m.readable \/ m.experts = 0 THEN Unset
    ELSE IF m.blocks = 0 THEN m.experts
    ELSE (m.experts * Least(limit, m.blocks)) \div m.blocks

\* The weights on the GPU when the experts of n layers are on the CPU.
GpuWeightsMB(m, n) ==
    LET ref == IF IsMoe(m) /\ m.blocks > 0 THEN m.blocks ELSE OffloadLayerRef
        kept == ref - Least(n, ref)
        byHeader == m.readable /\ m.experts > 0 /\ m.experts <= m.size
    IN IF n <= 0 THEN m.size
       ELSE IF byHeader THEN m.size - ExpertMB(m, n)
       ELSE (m.size * (NonExpertFrac * ref + (1000 - NonExpertFrac) * kept)) \div (1000 * ref)

\* ram_resident_bytes_mb: the weights in host memory, and whether only the experts count.
Shrunk(n, unified) == n > 0 /\ ~unified
HostWeightsMB(m, n, unified) ==
    IF ~Shrunk(n, unified) THEN m.size
    ELSE First(ExpertMB(m, n), (m.size * (1000 - NonExpertFrac)) \div 1000)

\* gguf_kv_f16_mb: sliding-window layers hold the window at most.  A header without the blocks or the
\* attention tells nothing, and the flat charge applies.
KvKnown(m) == m.readable /\ m.blocks > 0 /\ m.attn
KvF16MB(m, ctx) ==
    LET window == IF m.window > 0 THEN Least(ctx, m.window) ELSE ctx
    IN IF KvKnown(m) THEN (m.full * ctx + m.swa * window) \div 1024
       ELSE (ctx * KvPerTokenF16) \div 1024

KvMB(i) == (KvF16MB(i.model, i.ctx) * (QuantFactor[i.kvK] + QuantFactor[i.kvV])) \div 2000

\* Speculation is by a neural drafter ("draft"), by n-grams, by both, or absent.
Ngram(s) == s \in {"ngram", "both"}
SpecEnabled(s, n) == s # "none" /\ (n > 0 \/ Ngram(s))
\* resolve_spec_estimate_args: a model with an embedded drafter speculates unless told otherwise.
SpecOf(i) == IF i.spec = "unset" THEN IF HasMtp(i.model) THEN "draft" ELSE "none" ELSE i.spec

SpecWorkspaceMB(i) ==
    IF ~SpecEnabled(SpecOf(i), i.nDraft) \/ i.offload > 0 \/ SpecOf(i) = "ngram"
    THEN 0
    ELSE SpecBaseMB + SpecPerTokenMB * i.nDraft

EstimateVramMB(i) ==
    GpuWeightsMB(i.model, i.offload)
    + (IF SpecEnabled(SpecOf(i), i.nDraft) THEN i.draft ELSE 0)
    + KvMB(i) + OverheadMB + SpecWorkspaceMB(i)

\* The draft counts here whether it is used or not.
EstimateHostMB(i, unified) ==
    HostWeightsMB(i.model, i.offload, unified) + OverheadMB
    + IF Shrunk(i.offload, unified) THEN 0 ELSE i.draft + KvMB(i)

(***************************************************************************)
(* Budgets.                                                                *)
(***************************************************************************)
KillCeil(limit, total, keepout) ==
    IF total > 0 THEN Least(limit, Most(0, total - keepout)) ELSE limit

\* The keepout of the run-time monitors, and that of the preflight's clamp, which also looks at
\* the configuration.
MonitorKeepout(h) == First(h.envKeepout, DefaultKeepoutMB)
ClampKeepout(h) == First(h.envKeepout, First(h.configKeepout, DefaultKeepoutMB))

ResolveLimit(limit, h) == KillCeil(limit, h.totalVram, ClampKeepout(h))

EffectiveLimit(configured, h) ==
    IF h.freeVram <= 0 THEN configured ELSE Least(configured, Most(0, h.freeVram - h.vramHeadroom))

\* The free-at-start clamp is off unless asked for, and never applies to expert offload.
TrialBudget(i, h) ==
    LET configured == ResolveLimit(ResolveLimit(h.vramLimit, h), h)
    IN IF i.offload > 0 \/ ~h.freeClamp THEN configured ELSE EffectiveLimit(configured, h)

VramFits(i, h) == EstimateVramMB(i) <= ResolveLimit(TrialBudget(i, h), h)

HostHeadroomMB(h) ==
    First(h.hostHeadroom,
          IF h.unified THEN Most(6144, (h.ram * 20) \div 100) ELSE Most(4096, (h.ram * 15) \div 100))
HostBudgetMB(h) == Most(0, h.ram - HostHeadroomMB(h))

\* Unknown memory fails where it is shared with the GPU and passes elsewhere.
HostFits(i, h) ==
    IF h.ram <= 0 THEN ~h.unified ELSE EstimateHostMB(i, h.unified) <= HostBudgetMB(h)

\* circuit_breaker.preflight_ram, at the start of the server.
WorkspaceMB == 1024
MarginMB == 512
RamFits(i, h) ==
    h.freeRam = Unset \/ h.freeRam >= HostWeightsMB(i.model, i.offload, h.unified) + WorkspaceMB + MarginMB
=============================================================================
