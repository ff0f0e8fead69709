------------------------------ MODULE Evidence ------------------------------
(***************************************************************************)
(* The typed payload fields of an observation: the accessors of            *)
(* observation.cpp, and how obscli turns the words of a script into typed  *)
(* fields and the script into a sequence of observations (cli.cpp:         *)
(* parse_script, apply_entry, cmd_ingest).                                 *)
(*                                                                         *)
(* A field value keeps its variant alternative and, where it has one, its  *)
(* number.  A word of a script is a Boolean (true or false, as 1 and 0),   *)
(* an integer, a decimal (it has a '.' or an exponent) or other text; ids  *)
(* are not words here: the request a line belongs to is fixed and the      *)
(* model identity is an attribute of the line.                             *)
(***************************************************************************)
EXTENDS Integers, SequencesExt

CONSTANT None   \* an absent timestamp or identity

Value(kind, num) == [kind |-> kind, num |-> num]

-----------------------------------------------------------------------------
(* Accessors: the alternatives each one understands *)

Reads(o, k, kinds) == k \in DOMAIN o.fields /\ o.fields[k].kind \in kinds

U64Field(o, k, def) == IF Reads(o, k, {"u64", "i64"}) THEN o.fields[k].num ELSE def
F64Field(o, k, def) == IF Reads(o, k, {"f64", "i64", "u64"}) THEN o.fields[k].num ELSE def
BoolField(o, k, def) == IF Reads(o, k, {"bool"}) THEN o.fields[k].num = 1 ELSE def

-----------------------------------------------------------------------------
(* Scripts *)

Word(form, num) == [form |-> form, num |-> num]

\* The words true, false, 1 and 0.
IsFlag(w) == w.form \in {"boolean", "integer"} /\ w.num \in {0, 1}

\* A flag is a Boolean whatever the field means, and is_warm is FALSE for any
\* word that is no flag.
ScriptValue(k, w) ==
  CASE IsFlag(w) -> Value("bool", w.num)
    [] ~IsFlag(w) /\ k = "is_warm" -> Value("bool", 0)
    [] ~IsFlag(w) /\ k # "is_warm" /\ w.form = "decimal" -> Value("f64", w.num)
    [] ~IsFlag(w) /\ k # "is_warm" /\ w.form = "integer" -> Value("u64", w.num)
    [] ~IsFlag(w) /\ k # "is_warm" /\ w.form = "text" -> Value("string", 0)

\* apply_entry: the seq-th observation of the source with configuration cfg.
\* A time of 0 in the line is no time.
ApplyEntry(cfg, line, seq) ==
  [id |-> cfg.id + seq,             \* derive_observation_id, injective
   type |-> line.type, seq |-> seq,
   boot |-> cfg.boot, src_gen |-> cfg.src_gen, obs_gen |-> cfg.obs_gen, epoch |-> cfg.epoch,
   recv_ts |-> line.recv,
   obs_ts |-> IF line.obs_ts = 0 THEN None ELSE line.obs_ts,
   provenance |-> "MEASURED",
   model |-> line.model, outcome |-> line.outcome,
   fields |-> [k \in DOMAIN line.words |-> ScriptValue(k, line.words[k])]]

\* parse_script and the loop over its entries: comments and unknown keywords
\* are no entries, SLEEP entries are no observations.
RunScript(cfg, lines) ==
  LET obs == SelectSeq(lines, LAMBDA l : l.kw = "OBS") IN
  [i \in 1..Len(obs) |-> ApplyEntry(cfg, obs[i], i)]
=============================================================================
