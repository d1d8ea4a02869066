---------------------------- MODULE NoiseEngine -----------------------------
(***************************************************************************)
(* The DeepFilterNet engine of a client (libs/proxa-client/src/encode.rs   *)
(* and dfn3.rs): which model it is of, how it is loaded in the background  *)
(* and how it is kept for the next client.                                 *)
(*                                                                         *)
(* A frame of the microphone that finds no engine starts a load of the     *)
(* model that is set then; the load takes the lock of EncodeState only     *)
(* when it has ended.  A model is its path, and so is an engine: the path  *)
(* it was loaded from.  What denoising does to the samples is left out.    *)
(***************************************************************************)
EXTENDS Integers

CONSTANTS
  Models,     \* paths of models
  NoModel     \* None

ASSUME ModelAssumption == NoModel \notin Models

VARIABLES
  dfn,        \* denoise_method is DFN3
  path,       \* dfn3_model_path
  engine,     \* dfn3_engine: the path it was loaded from
  busy,       \* dfn3_loading
  loading,    \* the path a load is at work on
  overtaken,  \* another path was set while it was (history)
  kept        \* GLOBAL_DFN3_ENGINE: a path, and the engine kept under it

noise == <<dfn, path, engine, busy, loading, overtaken, kept>>

Option == Models \cup {NoModel}
Pair   == [path : Option, engine : Option]
NoPair == [path |-> NoModel, engine |-> NoModel]

NoiseTypeOK ==
  /\ dfn \in BOOLEAN /\ busy \in BOOLEAN /\ overtaken \in BOOLEAN
  /\ path \in Option /\ engine \in Option /\ loading \in Option
  /\ kept \in Pair

\* ProxaClient::new: the engine that was kept, under its path; or the path of
\* a directory that exists; or neither.
NoiseInit ==
  /\ dfn = FALSE
  /\ kept \in {NoPair} \cup {[path |-> p, engine |-> p] : p \in Models}
  /\ path \in (IF kept = NoPair THEN Option ELSE {kept.path})
  /\ engine = kept.engine
  /\ busy = FALSE /\ loading = NoModel /\ overtaken = FALSE

SameNoise == UNCHANGED noise

-----------------------------------------------------------------------------
\* set_denoise_method.
SetMethod(b) ==
  /\ dfn' = b
  /\ UNCHANGED <<path, engine, busy, loading, overtaken, kept>>

\* Mistake (EngineIsOfPath): the engine of the old path stays.
LoadModelsKeepingEngine(p) ==
  /\ path' = p
  /\ overtaken' = (loading \notin {p, NoModel})
  /\ UNCHANGED <<dfn, engine, busy, loading, kept>>

\* load_dfn3_models.  With the path it has, and an engine, nothing changes.
LoadModels(p) ==
  /\ path # p \/ engine = NoModel
  /\ path' = p /\ engine' = NoModel
  /\ overtaken' = (loading \notin {p, NoModel})
  /\ UNCHANGED <<dfn, busy, loading, kept>>

\* process_dfn3, on a frame: a load is started unless there is an engine, no
\* path, or a load already.
NeedsLoad == dfn /\ engine = NoModel /\ path # NoModel /\ ~busy

ProcessNoise ==
  /\ IF NeedsLoad THEN busy' = TRUE /\ loading' = path
                  ELSE UNCHANGED <<busy, loading>>
  /\ UNCHANGED <<dfn, path, engine, overtaken, kept>>

\* The load ends well: its engine is installed, whatever the path is now.
LoadDone ==
  /\ loading # NoModel
  /\ engine' = loading
  /\ loading' = NoModel /\ busy' = FALSE
  /\ UNCHANGED <<dfn, path, overtaken, kept>>

\* Mistake (NoiseSettles): dfn3_loading stays.
LoadFailsStuck ==
  /\ loading # NoModel
  /\ path' = NoModel
  /\ loading' = NoModel
  /\ UNCHANGED <<dfn, engine, busy, overtaken, kept>>

\* It fails: the path is forgotten, whatever it is now.
LoadFails ==
  /\ loading # NoModel
  /\ path' = NoModel
  /\ loading' = NoModel /\ busy' = FALSE
  /\ UNCHANGED <<dfn, engine, overtaken, kept>>

\* Drop: an engine is kept for the next client, under the path that is set.
Keep ==
  /\ kept' = IF path # NoModel /\ engine # NoModel
               THEN [path |-> path, engine |-> engine] ELSE kept
  /\ UNCHANGED <<dfn, path, engine, busy, loading, overtaken>>

-----------------------------------------------------------------------------
(* Properties.                                                             *)

\* The engine a client denoises with, and the one it leaves to the next, is of
\* the path it goes by, but for one case: another path was set during the
\* load, and then the engine of the old path stays under the new one.
EngineIsOfPath ==
  ~overtaken => /\ engine # NoModel => engine = path
                /\ kept.engine = kept.path
=============================================================================
