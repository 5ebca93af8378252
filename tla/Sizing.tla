------------------------------- MODULE Sizing -------------------------------
(***************************************************************************)
(* The memory plan a process makes at start-up: main.rs `ram_target' to    *)
(* `wire_adaptive_cache', and the context window serve.rs offers.  A host  *)
(* is [total, avail, swap, earlyoom] with earlyoom's percentage or NoOom;  *)
(* a model is what the plan reads of it: bytes of its dense tier, of the   *)
(* device's copy, of one expert, and the layers and experts it holds.      *)
(***************************************************************************)
EXTENDS Integers, Sequences

CONSTANTS TARGET_RAM_PCT, RUNTIME_RESERVE, WORKING_RESERVE,
          ADAPTIVE_DANGER_FLOOR, ADAPTIVE_HARD_FLOOR, OOM_MARGIN,
          CACHE_CAP_DIVISOR, MIN_BUDGET, CTX_RAM_RESERVE, KV_BUDGET_CAP,
          NEARFIT_COVERAGE_PCT, O_DIRECT_MAX_COVERAGE_PCT, MMAP_MIN_COVERAGE_PCT,
          FFN_DEVCOPY_MAX_COVERAGE_PCT, DISK_BOUND_COVERAGE_PCT

NoOom == 0
Above(a, b) == IF a >= b THEN a ELSE b
Below(a, b) == IF a <= b THEN a ELSE b
Less(a, b)  == IF a >= b THEN a - b ELSE 0         \* saturating_sub

ram_target(total) == (total \div 100) * TARGET_RAM_PCT

\* What the expert cache may hold: the target without the dense tier, both of
\* its copies, and without the runtime's share.
fill_within_headroom(requested, dense_ram, total) ==
    Below(requested, Less(Less(ram_target(total), dense_ram), RUNTIME_RESERVE))
clamp_fill_to_headroom(requested, m, total) ==
    fill_within_headroom(requested, m.resident + m.duplicate, total)

\* The guard acts before whoever would kill the process does.
oom_guard_floor(total, earlyoom_pct) ==
    IF earlyoom_pct = NoOom THEN ADAPTIVE_HARD_FLOOR
    ELSE LET trigger == (total \div 100) * earlyoom_pct
         IN  Above(ADAPTIVE_HARD_FLOOR, trigger + Above(trigger \div 4, OOM_MARGIN))

\* The cache's first budget, before the monitor takes over.
budget_from(avail, reserve, total) ==
    Above(Below(Less(Less(avail, reserve), WORKING_RESERVE), total \div CACHE_CAP_DIVISOR), MIN_BUDGET)

\* Bytes of the experts this node owns, over the layers that hold any.
expert_footprint(n_moe, per_expert, owned_experts) == per_expert * owned_experts * n_moe

\* What fits of the experts, in percent.
covers_pct(m, total) ==
    LET all == expert_footprint(m.n_moe, m.per, m.owned)
    IN  IF all > 0 THEN (clamp_fill_to_headroom(total, m, total) * 100) \div all ELSE 0

\* Five choices that hang off the coverage, each at its own threshold.
near_fit(pct)      == pct >= NEARFIT_COVERAGE_PCT
o_direct(pct)      == pct < O_DIRECT_MAX_COVERAGE_PCT
mmap_experts(pct)  == pct >= MMAP_MIN_COVERAGE_PCT
ffn_devcopy(pct)   == pct < FFN_DEVCOPY_MAX_COVERAGE_PCT
narrow_reader(pct) == pct < DISK_BOUND_COVERAGE_PCT

\* The read paths the coverage picks.
read_paths(pct) ==
    [o_direct |-> o_direct(pct), mmap |-> mmap_experts(pct), devcopy |-> ffn_devcopy(pct),
     narrow |-> narrow_reader(pct)]

\* What the ledger is created with, and the fill asked of the cache: all that
\* is left, clamped again.
memory_plan(m, total) ==
    LET natural_fill == clamp_fill_to_headroom(total, m, total)
    IN  [ceiling |-> ram_target(total), dense |-> m.resident + m.duplicate,
         natural_fill |-> natural_fill,
         fill_target |-> clamp_fill_to_headroom(natural_fill, m, total)]

\* wire_adaptive_cache: the plan, the monitor's floors, and whether every
\* expert fits with room to spare.
wire_adaptive_cache(m, host) ==
    LET pct  == covers_pct(m, host.total)
        plan == memory_plan(m, host.total)
        hard == oom_guard_floor(host.total, host.earlyoom)
    IN  [paths |-> read_paths(pct), fadvise |-> near_fit(pct), plan |-> plan,
         hard_floor |-> hard, danger_floor |-> Above(ADAPTIVE_DANGER_FLOOR, hard),
         maxres |-> near_fit(pct) /\ expert_footprint(m.n_moe, m.per, m.owned)
                                       <= (plan.natural_fill \div 100) * 85]

\* serve: the window offered, clamped to the model's and to what RAM could hold.
ctx_len(requested, max_ctx, allow_long, total, kv_pt, kv_fixed) ==
    LET model_max == IF max_ctx > 0 /\ ~allow_long THEN max_ctx ELSE requested
        ram_ctx == Above(Less(Less(total, CTX_RAM_RESERVE), kv_fixed) \div Above(kv_pt, 1), 1)
    IN  Below(Above(1, Below(requested, model_max)), ram_ctx)

serve_budget(host, kv_worst_case) ==
    budget_from(host.avail, Below(kv_worst_case, KV_BUDGET_CAP), host.total)
=============================================================================
