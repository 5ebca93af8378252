------------------------------ MODULE Shipping ------------------------------
(***************************************************************************)
(* How a node gets the experts it owns, and how a process gets them all:   *)
(* `coli shard-serve' with `coli shard-pull', and `coli shard-export',     *)
(* which build a node's snapshot, and `coli repack' with COLI_PRELOAD,     *)
(* which packs every expert for one parallel read (preload.rs).            *)
(*                                                                         *)
(* One snapshot directory and one packed directory are followed through    *)
(* passes that may be cut off anywhere, by a kill, a broken connection or  *)
(* a read that fails.  Bytes are cells: a cell of a tensor is the tensor   *)
(* and a position in it.  All passes read the same source.                 *)
(***************************************************************************)
EXTENDS Sharding, SequencesExt

CONSTANTS Layers,         \* number of layers that hold experts
          ShipCounts,     \* the expert counts that are shipped, of ExpertCounts
          MaxFile,        \* bytes a shard file may hold (5 GB)
          FileCounts,     \* values of num_files of repack
          LoadBudgets,    \* values of ram_budget()
          MaxPasses       \* bound on the passes of a behaviour

ASSUME ShippingAssumption ==
  /\ Layers \in Nat \ {0} /\ ShipCounts \subseteq ExpertCounts
  /\ MaxFile \in Nat /\ FileCounts \subseteq Nat \ {0}
  /\ LoadBudgets \subseteq Nat /\ MaxPasses \in Nat

VARIABLES
  use,      \* what is run: nothing but the placement, ship or repack
  pass,     \* the pass under way, or NoPass
  passes,   \* passes begun
  dir,      \* the node's snapshot: number of an out file -> file
  conf,     \* whether it holds config.json
  shard,    \* the request whose pass went through last, or NoShard (history)
  pack,     \* the packed directory: file -> cells
  manifest, \* its manifest, or NoManifest
  begun     \* num_files of the repack begun last (history)

shipVars == <<use, pass, passes, dir, conf, shard, pack, manifest, begun>>

NoPass     == [kind |-> "none"]
NoShard    == [nodes |-> 0, rank |-> 0]
NoManifest == [num_files |-> 0, locs |-> <<>>, whole |-> FALSE]
NoExpert   == -1

Tensor(l, e) == [layer |-> l, eid |-> e]

\* The source's tensors in the order of its index: per layer what is resident,
\* and the experts.
Source ==
  FlattenSeq([l \in 1 .. Layers |->
    <<Tensor(l, NoExpert)>> \o [e \in 1 .. in.n_experts |-> Tensor(l, e - 1)]])

nbytes(t) == IF t.eid = NoExpert THEN 1 ELSE 2

Cells(t) == [k \in 1 .. nbytes(t) |-> <<t, k>>]

Data(g) == FlattenSeq([k \in 1 .. Len(g) |-> Cells(g[k])])

Weight(ts) == Len(Data(ts))

-----------------------------------------------------------------------------
(* What a node is sent.                                                    *)

\* The resident tensors and the experts the contiguous map gives the rank.
Needs(req, t) == \/ t.eid = NoExpert
                 \/ contiguous(t.eid, req.nodes, in.n_experts) = req.rank

\* Those of the source, in its order: what is kept of the first i, for every i.
select_shard_names(req) ==
  LET src == Source
      kept[i \in 0 .. Len(src)] ==
        IF i = 0 THEN <<>>
        ELSE IF Needs(req, src[i]) THEN Append(kept[i - 1], src[i]) ELSE kept[i - 1]
  IN  kept[Len(src)]

\* Tensors in order, into files of at most MaxFile bytes or one tensor: the
\* files after the first i tensors, for every i.
Groups(items) ==
  LET gs[i \in 0 .. Len(items)] ==
        IF i = 0 THEN <<>>
        ELSE IF i > 1 /\ Weight(Last(gs[i - 1])) + nbytes(items[i]) <= MaxFile
             THEN [gs[i - 1] EXCEPT ![Len(gs[i - 1])] = Append(@, items[i])]
             ELSE Append(gs[i - 1], <<items[i]>>)
  IN  gs[Len(items)]

\* Mutant: the offsets count from the start of the file.
Header_FromFileStart(g) ==
  [k \in DOMAIN g |-> [name |-> g[k], lo |-> 1 + Weight(SubSeq(g, 1, k - 1)),
                                      hi |-> 1 + Weight(SubSeq(g, 1, k))]]

\* A file's header: each tensor's offsets in the data that follows.
Header(g) ==
  [k \in DOMAIN g |-> [name |-> g[k], lo |-> Weight(SubSeq(g, 1, k - 1)),
                                      hi |-> Weight(SubSeq(g, 1, k))]]

\* A file that exists and holds nothing yet; `head` says its header is whole.
Created == [head |-> FALSE, tab |-> <<>>, data |-> <<>>]

\* A file after one more piece, the n-th: the header, then the data.
Written(file, g, n) ==
  IF n = 0 THEN [file EXCEPT !.head = TRUE, !.tab = Header(g)]
           ELSE [file EXCEPT !.data = Append(@, Data(g)[n])]

\* The size shard-serve announces before a file's bytes.
file_size(g) == 1 + Weight(g)

-----------------------------------------------------------------------------
(* shard-pull and shard-export: files one after the other, then config.    *)

Files == Groups(select_shard_names(pass.req))

\* A pull asks shard-serve for a rank's shard, an export makes it in place.  A
\* rank outside the cluster is refused, with nothing sent or written.
ShipBegin(kind, req) ==
  /\ use = "ship" /\ req.nodes >= 1 /\ req.rank < req.nodes /\ pass = NoPass /\ passes < MaxPasses
  /\ pass' = [kind |-> kind, req |-> req, at |-> 0, left |-> 0]
  /\ passes' = passes + 1
  /\ UNCHANGED <<use, dir, conf, shard, pack, manifest, begun>>

Pull(req)   == ShipBegin("pull", req)
Export(req) == ShipBegin("export", req)

\* The next file is created, empty.
ShipCreate ==
  /\ pass.kind \in {"pull", "export"} /\ pass.left = 0 /\ pass.at < Len(Files)
  /\ pass' = [pass EXCEPT !.at = @ + 1, !.left = file_size(Files[pass.at + 1])]
  /\ dir' = [n \in DOMAIN dir \cup {pass.at} |-> IF n = pass.at THEN Created ELSE dir[n]]
  /\ shard' = NoShard
  /\ UNCHANGED <<use, passes, conf, pack, manifest, begun>>

\* One more piece of it.
ShipWrite ==
  /\ pass.kind \in {"pull", "export"} /\ pass.left > 0
  /\ pass' = [pass EXCEPT !.left = @ - 1]
  /\ LET g == Files[pass.at]
     IN dir' = [dir EXCEPT ![pass.at - 1] = Written(@, g, file_size(g) - pass.left)]
  /\ UNCHANGED <<use, passes, conf, shard, pack, manifest, begun>>

\* The metadata comes last.  An export that cannot copy it goes through all
\* the same.
ShipEnd ==
  /\ pass.kind \in {"pull", "export"} /\ pass.left = 0 /\ pass.at = Len(Files)
  /\ conf' \in (IF pass.kind = "pull" THEN {TRUE} ELSE {TRUE, conf})
  /\ shard' = pass.req
  /\ pass' = NoPass
  /\ UNCHANGED <<use, passes, dir, pack, manifest, begun>>

-----------------------------------------------------------------------------
(* repack: every expert, round robin over the files, then the manifest.    *)

\* Every expert of every layer, in the order repack visits them.
Routed ==
  FlattenSeq([l \in 1 .. Layers |-> [e \in 1 .. in.n_experts |-> Tensor(l, e - 1)]])

\* All files are created anew before the first expert is read.
RepackBegin(n) ==
  /\ use = "repack" /\ pass = NoPass /\ passes < MaxPasses
  /\ pass' = [kind |-> "repack", num_files |-> n, locs |-> <<>>]
  /\ passes' = passes + 1
  /\ pack' = [f \in DOMAIN pack \cup 0 .. n - 1 |-> IF f < n THEN <<>> ELSE pack[f]]
  /\ begun' = n
  /\ UNCHANGED <<use, dir, conf, shard, manifest>>

Repack == \E n \in FileCounts : RepackBegin(n)

\* Mutant: the offset is taken after the blob is written.
RepackWrite_OffsetAfter ==
  /\ pass.kind = "repack" /\ Len(pass.locs) < Len(Routed)
  /\ LET idx == Len(pass.locs)
         f   == idx % pass.num_files
         ex  == Routed[idx + 1]
     IN /\ pack' = [pack EXCEPT ![f] = @ \o Cells(ex)]
        /\ pass' = [pass EXCEPT !.locs =
                      Append(@, [name |-> ex, file |-> f, offset |-> Len(pack'[f])])]
  /\ UNCHANGED <<use, passes, dir, conf, shard, manifest, begun>>

\* The expert's blob at the end of its file.
RepackWrite ==
  /\ pass.kind = "repack" /\ Len(pass.locs) < Len(Routed)
  /\ LET idx == Len(pass.locs)
         f   == idx % pass.num_files
         ex  == Routed[idx + 1]
     IN /\ pack' = [pack EXCEPT ![f] = @ \o Cells(ex)]
        /\ pass' = [pass EXCEPT !.locs =
                      Append(@, [name |-> ex, file |-> f, offset |-> Len(pack[f])])]
  /\ UNCHANGED <<use, passes, dir, conf, shard, manifest, begun>>

RepackEnd ==
  /\ pass.kind = "repack" /\ Len(pass.locs) = Len(Routed)
  /\ manifest' = [num_files |-> pass.num_files, locs |-> pass.locs, whole |-> TRUE]
  /\ pass' = NoPass
  /\ UNCHANGED <<use, passes, dir, conf, shard, pack, begun>>

\* What a pass leaves when it is cut off: in the metadata, a config that is no
\* longer whole; of a repack also part of a blob, or a manifest that ends
\* anywhere, which the parser reads as far as it goes: the last number it finds
\* may lack digits.
CutOff ==
  /\ pass # NoPass
  /\ pass' = NoPass
  /\ \/ UNCHANGED <<pack, manifest>>
     \/ /\ pass.kind = "repack" /\ Len(pass.locs) < Len(Routed)
        /\ LET idx == Len(pass.locs)
           IN pack' = [pack EXCEPT ![idx % pass.num_files] = Append(@, <<Routed[idx + 1], 1>>)]
        /\ UNCHANGED manifest
     \/ /\ pass.kind = "repack" /\ Len(pass.locs) = Len(Routed)
        /\ \E n \in DOMAIN pass.locs : \E o \in 0 .. pass.locs[n].offset :
             manifest' = [num_files |-> pass.num_files, whole |-> FALSE,
                          locs |-> [SubSeq(pass.locs, 1, n) EXCEPT ![n].offset = o]]
        /\ UNCHANGED pack
  /\ \/ UNCHANGED conf
     \/ pass.kind \in {"pull", "export"} /\ pass.left = 0 /\ pass.at = Len(Files) /\ conf' = FALSE
  /\ UNCHANGED <<use, passes, dir, shard, begun>>

-----------------------------------------------------------------------------
(* Reading it back.                                                        *)

\* Shards::open and Config::load.
Opens == conf /\ DOMAIN dir # {} /\ \A n \in DOMAIN dir : dir[n].head

Holds(n, t) == \E k \in DOMAIN dir[n].tab : dir[n].tab[k].name = t

\* The later file's entry counts; a read past the end of the file is an error.
Readable(t) ==
  LET n == CHOOSE m \in DOMAIN dir : Holds(m, t) /\ \A o \in DOMAIN dir : o > m => ~Holds(o, t)
      e == dir[n].tab[CHOOSE k \in DOMAIN dir[n].tab : dir[n].tab[k].name = t]
  IN  IF (\E m \in DOMAIN dir : Holds(m, t)) /\ e.hi <= Len(dir[n].data)
      THEN {SubSeq(dir[n].data, e.lo + 1, e.hi)} ELSE {}

blob_bytes == nbytes(Tensor(1, 0))

\* The experts PreloadStore::load reads of file f, in the order of their
\* offsets (a stable sort) until the budget is reached, one at least.
Loaded(f, budget) ==
  LET locs         == manifest.locs
      mine         == {i \in DOMAIN locs : locs[i].file = f}
      before(i, j) == \/ locs[i].offset < locs[j].offset
                      \/ locs[i].offset = locs[j].offset /\ i < j
      fit          == Max({1, budget \div blob_bytes})
  IN  {locs[i] : i \in {i \in mine : Cardinality({j \in mine : before(j, i)}) < fit}}

\* The share of a file of the memory there is.
per_file(budget) == Max({1, budget \div Max({1, manifest.num_files})})

\* Every thread must read all of its share, or the load fails.
LoadsAt(budget) ==
  \A f \in 0 .. manifest.num_files - 1 :
    f \in DOMAIN pack /\ \A l \in Loaded(f, budget) : l.offset + blob_bytes <= Len(pack[f])

\* preload_parallel: the experts in the order of their offsets in the model's
\* own files, a chunk to each thread, which goes on until it has more than its
\* share of the budget.
preload_parallel(nthreads, budget) ==
  LET per      == Max({1, div_ceil(Len(Routed), nthreads)})
      chunk(k) == SubSeq(Routed, (k - 1) * per + 1, Min({k * per, Len(Routed)}))
      goes     == (budget \div nthreads) \div blob_bytes + 1
  IN  UNION {ToSet(SubSeq(chunk(k), 1, Min({goes, Len(chunk(k))}))) : k \in 1 .. nthreads}

-----------------------------------------------------------------------------
ShipInit ==
  /\ use \in (IF in.kind = "contiguous" /\ in.num_nodes = 1 /\ in.n_experts \in ShipCounts
              THEN {"ship", "repack"} ELSE {"none"})
  /\ pass = NoPass /\ passes = 0
  /\ dir = <<>> /\ conf = FALSE /\ shard = NoShard
  /\ pack = <<>> /\ manifest = NoManifest /\ begun = 0

ShipNext ==
  \/ \E nodes \in NodeCounts : \E rank \in 0 .. nodes :
       LET req == [nodes |-> nodes, rank |-> rank] IN Pull(req) \/ Export(req)
  \/ ShipCreate \/ ShipWrite \/ ShipEnd
  \/ Repack \/ RepackWrite \/ RepackEnd \/ CutOff

AllVars == <<vars, shipVars>>

AllNext ==
  \/ Next /\ UNCHANGED shipVars
  \/ ShipNext /\ UNCHANGED vars

AllInit == PlaceInit /\ ShipInit

AllSpec == AllInit /\ [][AllNext]_AllVars

-----------------------------------------------------------------------------
\* Files of an earlier pass that this shard has no file for.
Leftover(req) == DOMAIN dir \ 0 .. Len(Groups(select_shard_names(req))) - 1

\* A shard: after any passes, for any ranks and counts, cut off anywhere, a
\* tensor read back is the source's or an error; a shard that went through,
\* over nothing an earlier pass left behind, has all that its rank needs.
ShardExact ==
  /\ Opens => \A t \in ToSet(Source) : Readable(t) \subseteq {Cells(t)}
  /\ Opens /\ shard # NoShard /\ Leftover(shard) = {} =>
       \A t \in ToSet(Source) : Needs(shard, t) => Readable(t) # {}

\* The last location of a manifest that was cut off: its offset may lack digits.
Torn(l) == ~manifest.whole /\ l = Last(manifest.locs)

\* A packed directory that loads, whatever passes were cut off over it: every
\* location but a torn one gives an expert its own bytes if the manifest is of
\* the file count the files were begun with, torn or left by an earlier pass as
\* it may be.  A repack for another count that was cut off has written its own
\* files under the old manifest, and then an expert gets some expert's bytes,
\* whole, but not always its own.  A whole manifest loads all that fit.
PackExact ==
  \A b \in {per_file(m) : m \in LoadBudgets} :
    /\ LoadsAt(b) => \A f \in 0 .. manifest.num_files - 1 : \A l \in Loaded(f, b) :
         LET got == SubSeq(pack[f], l.offset + 1, l.offset + blob_bytes)
         IN  Torn(l) \/ IF manifest.num_files = begun THEN got = Cells(l.name)
                        ELSE \E e \in ToSet(Routed) : got = Cells(e)
    /\ manifest.whole /\ b >= Len(Routed) * blob_bytes =>
         \A e \in ToSet(Routed) : \E f \in 0 .. manifest.num_files - 1 :
           \E l \in Loaded(f, b) : l.name = e

\* Preloading from the model's own files leaves no expert between two threads'
\* chunks, and passes its budget by at most one expert for each thread.
PreloadExact ==
  \A n \in FileCounts, b \in LoadBudgets :
    LET got == preload_parallel(n, b)
    IN  /\ Cardinality(got) * blob_bytes <= b + n * blob_bytes
        /\ b >= n * Len(Routed) * blob_bytes => got = ToSet(Routed)

\* The doc of cmd_shard_export, "the exported experts are exactly what
\* ShardsExpertProvider will ask this node for", and of preload.rs: what a
\* node's snapshot and the model's own files give back, after any passes over
\* them, cut off anywhere, is the source's bytes, all of them or an error; of
\* a packed directory, as far as PackExact says.
WeightsExact == ShardExact /\ PackExact /\ (use = "repack" => PreloadExact)
=============================================================================
