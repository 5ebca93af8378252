------------------------------ MODULE Container ------------------------------
(***************************************************************************)
(* Converting, re-converting, augmenting and requantising a container, with*)
(* passes that may be cut off anywhere, and loading what is then on disk:  *)
(* convert.rs `convert_snapshot` and `requant_experts_nvfp4`, main.rs      *)
(* `cmd_convert` and `cmd_requant_nvfp4`, safetensors `Shards::open`,      *)
(* lib.rs `load_model_with`.                                               *)
(*                                                                         *)
(* A pass writes its shards one after another, each with its header first, *)
(* then the codes, then the floats, and copies `config.json` last.  A file *)
(* is what it was written as, and how much of it reached the disk.         *)
(***************************************************************************)
EXTENDS ModelLoad

CONSTANTS Models,          \* checkpoints by name: [json, files, stages, headless]
          ConvertEnvs(_),  \* the settings a checkpoint is converted with
          MaxPasses        \* passes over the directories in a behaviour

VARIABLES model,      \* the name of the checkpoint
          config,     \* its config.json, parsed
          disk,       \* directory |-> file |-> what is written there
          conf,       \* the directories with a config.json
          job,        \* the pass that runs
          passes,     \* passes started
          finished,   \* the directories whose last full pass came to its end
          answer,     \* what the last load gave
          expert      \* the experts last read for the loaded model: <<layer, experts>>

vars == <<model, config, disk, conf, job, passes, finished, answer, expert>>

Dirs == {"main", "req"}

Idle == [kind |-> "idle"]

\* Config::load: read once by every command, and never changed.
load_config(m) == from_json(Models[m].json)

Files == Models[model].files

------------------------------------------------------------------------------
(* Directories.                                                            *)

\* A file: its tensors by name with their place in it, and how many of them are all there
\* (-1: not even the header is).
File(entries, there) ==
    [tab |-> [n \in {entries[k].name : k \in DOMAIN entries} |->
                LET k == CHOOSE k \in DOMAIN entries : entries[k].name = n
                IN [bytes |-> entries[k].bytes, at |-> k]],
     there |-> there]

TornHeader(d) == \E f \in DOMAIN disk[d] : disk[d][f].there < 0

Torn(d) == \E f \in DOMAIN disk[d] : disk[d][f].there < Cardinality(DOMAIN disk[d][f].tab)

Merged(d, kind) ==
    LET files == {f \in DOMAIN disk[d] : f[1] = kind}
        at(n) == CHOOSE f \in files : /\ n \in DOMAIN disk[d][f].tab
                                      /\ \A g \in files : n \in DOMAIN disk[d][g].tab => g[2] <= f[2]
    IN [n \in UNION {DOMAIN disk[d][f].tab : f \in files} |->
          [bytes |-> disk[d][at(n)].tab[n].bytes, ok |-> disk[d][at(n)].tab[n].at <= disk[d][at(n)].there]]

\* Shards::open: the files in the order of their names; of two tensors of one name the later holds.
Opened(d) == Merged(d, "out") @@ Merged(d, "mtp")

\* The files of a directory in that order.
Before(f, g) == IF f[1] = g[1] THEN f[2] < g[2] ELSE f[1] = "mtp"

Sorted(d) ==
    [k \in 1 .. Cardinality(DOMAIN disk[d]) |->
       CHOOSE f \in DOMAIN disk[d] : Cardinality({g \in DOMAIN disk[d] : Before(g, f)}) = k - 1]

------------------------------------------------------------------------------
(* A pass.                                                                 *)

\* The number of shards it goes over, and what becomes of the tensors of one.
Shards == IF job.kind = "convert" THEN Len(Files) ELSE Len(job.order)

Outs(k) ==
    IF job.kind = "convert" THEN [j \in DOMAIN Files[k] |-> process_one(Files[k][j], job.opts)]
    ELSE LET tab == disk["main"][job.order[k]].tab
             sh == Opened("main")
         IN [j \in 1 .. Cardinality(DOMAIN tab) |->
               requant_one(CHOOSE n \in DOMAIN tab : tab[n].at = j, sh, config, job.resident)]

Target == IF job.kind = "convert" THEN "main" ELSE "req"

FileOf(k) == <<IF job.kind = "convert" /\ job.opts.mtp_only THEN "mtp" ELSE "out", k>>

Idled == /\ job' = Idle
         /\ UNCHANGED <<model, config, passes, answer, expert>>

\* Containers from before the converter kept the head are still in use.
Headless ==
    LET opts == ConvertOpts(config, [keep_indexer |-> FALSE, xfp8 |-> FALSE, io16 |-> FALSE, mtp_only |-> FALSE], Models[model].stages)
        outs(k) == [j \in DOMAIN Files[k] |->
                      IF OutName(Files[k][j], opts).layer >= config.n_layers THEN Skipped ELSE process_one(Files[k][j], opts)]
        Whole(entries) == File(entries, Len(entries))
    IN [f \in {<<"out", k>> : k \in DOMAIN Files} |-> Whole(Layout(outs(f[2])))]

Init ==
    /\ model \in DOMAIN Models
    /\ config = load_config(model)
    /\ disk = [d \in Dirs |-> IF d = "main" /\ Models[model].headless THEN Headless ELSE <<>>]
    /\ conf = IF Models[model].headless THEN {"main"} ELSE {}
    /\ finished = conf
    /\ job = Idle /\ passes = 0
    /\ answer = Idle /\ expert = <<>>

\* cmd_convert: the options come from the checkpoint's config and the environment.
StartConvert(env) ==
    /\ job = Idle /\ passes < MaxPasses
    /\ job' = [kind |-> "convert", opts |-> ConvertOpts(config, env, Models[model].stages), at |-> 1]
    /\ passes' = passes + 1
    /\ finished' = IF env.mtp_only THEN finished ELSE finished \ {"main"}
    /\ answer' = Idle /\ expert' = <<>>
    /\ UNCHANGED <<model, config, disk, conf>>

\* cmd_requant_nvfp4: wants the config of the container and an index of its shards.
StartRequant(resident) ==
    /\ job = Idle /\ passes < MaxPasses
    /\ "main" \in conf /\ ~TornHeader("main")
    /\ job' = [kind |-> "requant", resident |-> resident, order |-> Sorted("main"), at |-> 1]
    /\ passes' = passes + 1
    /\ finished' = finished \ {"req"}
    /\ answer' = Idle /\ expert' = <<>>
    /\ UNCHANGED <<model, config, disk, conf>>

\* One shard: nothing is written when a tensor is refused or none is kept.
WriteShard ==
    /\ job # Idle /\ job.at <= Shards
    /\ \E outs \in {Outs(job.at)} :
         IF \E j \in DOMAIN outs : outs[j].kind = "err"
         THEN UNCHANGED <<disk, conf, finished>> /\ Idled
         ELSE /\ \E entries \in {Layout(outs)} :
                   disk' = IF entries = <<>> THEN disk
                           ELSE [disk EXCEPT ![Target] = (FileOf(job.at) :> File(entries, Len(entries))) @@ @]
              /\ job' = [job EXCEPT !.at = @ + 1]
              /\ UNCHANGED <<model, config, conf, passes, finished, answer, expert>>

\* A pass ends in the middle of a shard: killed, or out of space.
CutPoints(entries) ==
    LET codes == Len(SelectSeq(entries, LAMBDA e : IsCodes(e.bytes.enc)))
    IN {-1, codes, Len(entries) - 1}

CutOff ==
    /\ job # Idle /\ job.at <= Shards
    /\ \E outs \in {Outs(job.at)} :
         /\ \A j \in DOMAIN outs : outs[j].kind # "err"
         /\ \E entries \in {Layout(outs)} \ {<<>>} : \E cut \in CutPoints(entries) :
              disk' = [disk EXCEPT ![Target] = (FileOf(job.at) :> File(entries, cut)) @@ @]
    /\ UNCHANGED <<conf, finished>>
    /\ Idled

\* A pass ends between two shards, or before the config is copied.
Killed ==
    /\ job # Idle
    /\ UNCHANGED <<disk, conf, finished>>
    /\ Idled

\* After the last shard `config.json` is copied; a pass for the head alone leaves it.
Finish ==
    /\ job # Idle /\ job.at > Shards
    /\ IF job.kind = "convert" /\ job.opts.mtp_only
       THEN UNCHANGED <<conf, finished>>
       ELSE conf' = conf \cup {Target} /\ finished' = finished \cup {Target}
    /\ UNCHANGED disk
    /\ Idled

------------------------------------------------------------------------------
(* Loading.                                                                *)

HoldsE4m3(d) == \E f \in DOMAIN disk[d] : \E n \in DOMAIN disk[d][f].tab : disk[d][f].tab[n].bytes.enc = "e4m3"

LoadEnvs(d) ==
    {[mtp_off |-> off, dspark |-> ds, fp8 |-> HoldsE4m3(d)] :
       off \in IF config.arch \in {"GlmMoeDsa", "NemotronH"} THEN BOOLEAN ELSE {FALSE}, ds \in IF config.arch = "DeepseekV4" THEN BOOLEAN ELSE {FALSE}}

\* `coli serve` on a directory nobody is writing to.
Load(d, env) ==
    /\ job = Idle /\ disk[d] # <<>>
    /\ answer' = [kind |-> "load", dir |-> d, fp8 |-> env.fp8,
                  res |-> IF d \notin conf \/ TornHeader(d) THEN LoadRefused ELSE load_model_with(Opened(d), config, env)]
    /\ expert' = <<>>
    /\ UNCHANGED <<model, config, disk, conf, job, passes, finished>>

Serving == answer.kind = "load" /\ answer.res.ok

\* The layers whose experts the loaded model can be asked for.
ExpertLayers(c) ==
    moe_layers(c)
    \cup IF answer.res.has_mtp
         THEN IF c.mtp_layer_kind = <<>> THEN {c.n_layers}
              ELSE {c.n_layers + j - 1 : j \in {j \in DOMAIN c.mtp_layer_kind : c.mtp_layer_kind[j] = "Moe"}}
         ELSE {}

\* The tokens of a prompt need all experts of a layer; a read that fails is an error of
\* that request.
ReadExperts ==
    /\ Serving /\ expert = <<>>
    /\ \E l \in ExpertLayers(config) :
         LET eids == [n \in 1 .. config.n_experts |-> n - 1]
         IN expert' = <<l, load_experts_batch(Opened(answer.dir), config, l, eids, answer.fp8)>>
    /\ UNCHANGED <<model, config, disk, conf, job, passes, finished, answer>>

Next ==
    \/ \E env \in ConvertEnvs(config) : StartConvert(env)
    \/ \E resident \in BOOLEAN : StartRequant(resident)
    \/ WriteShard
    \/ CutOff
    \/ Killed
    \/ Finish
    \/ \E d \in Dirs : \E env \in LoadEnvs(d) : Load(d, env)
    \/ ReadExperts

Spec == Init /\ [][Next]_vars

------------------------------------------------------------------------------
(* Properties.                                                             *)

SourceOf(name) ==
    LET opts == ConvertOpts(config, [keep_indexer |-> TRUE, xfp8 |-> FALSE, io16 |-> FALSE, mtp_only |-> FALSE], Models[model].stages)
    IN CHOOSE t \in UNION {ToSet(Files[k]) : k \in DOMAIN Files} : OutName(t, opts) = name

\* Weights the container is said to keep unrounded: Maple's ternary ones, experts trained in MXFP4.
KeptExact(name) ==
    \/ config.arch = "Maple" /\ name.layer >= 0
    \/ name.expert >= 0 /\ SourceOf(name).enc = "mxfp4"

AsTrained(name, val) ==
    /\ val.of = "trained"
    /\ val.plus = (IF config.gemma_norm /\ IsNorm(name) THEN 1 ELSE 0)
    /\ KeptExact(name) => val.exact

\* Two files of a directory hold one tensor in two encodings: a head augmented in one expert
\* format shadowed by a conversion to another.
FormatsMixed(d) ==
    \E f, g \in DOMAIN disk[d] : \E n \in DOMAIN disk[d][f].tab \cap DOMAIN disk[d][g].tab :
       disk[d][f].tab[n].bytes.enc # disk[d][g].tab[n].bytes.enc

\* Whatever passes ran over a directory, with whatever settings, and wherever they were cut
\* off: a tensor or an expert that a loaded model holds decodes to what the checkpoint was
\* trained to, with the Gemma offset folded in once, and unrounded where the converter says
\* so.  A container that lacks or misplaces something is refused, never misread.
\* (process_one and requant_one against qt_load, ld and expert_from_views)
LoadedAsTrained ==
    Serving /\ ~FormatsMixed(answer.dir) =>
      /\ \A r \in DOMAIN answer.res.held : AsTrained(r[2], answer.res.held[r])
      /\ expert # <<>> =>
           \A n \in DOMAIN expert[2] : \A k \in DOMAIN expert[2][n] :
              AsTrained(weight_name(config, expert[1], n - 1, projs(config)[k]), expert[2][n][k])

\* A directory whose last full pass came to its end, and that holds no file left torn by
\* another pass, loads, and each of its experts can be read: every name the loader of the
\* architecture asks for is one the converter writes.
CompletedLoads ==
    answer.kind = "load" /\ answer.dir \in finished /\ ~Torn(answer.dir) =>
      /\ answer.res.ok
      /\ expert # <<>> => expert[2] # <<>>

\* The names of the head's tensors, all its experts included.
HeadNames ==
    LET opts == ConvertOpts(config, [keep_indexer |-> FALSE, xfp8 |-> FALSE, io16 |-> FALSE, mtp_only |-> TRUE], Models[model].stages)
    IN {o.out : o \in UNION {{process_one(t, opts) : t \in ToSet(Files[k])} : k \in DOMAIN Files} \ {Skipped}}

\* A speculative head is used whole or not at all: when a load turns it on, every tensor of it
\* that the converter keeps is in the container, the experts between the first and the last
\* that the gate asks for included, although a pass for the head may stop after any shard.
HeadWholeOrOff == Serving /\ answer.res.has_mtp => HeadNames \subseteq DOMAIN Opened(answer.dir)
==============================================================================
