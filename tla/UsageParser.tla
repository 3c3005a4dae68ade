---------------------------- MODULE UsageParser ----------------------------
(***************************************************************************)
(* One request of the Claude adapter, from the credential to the windows:  *)
(* poll_outcome (scheduler.rs), probe (claude/mod.rs) and the parser of    *)
(* the usage payload (claude/parser.rs).                                   *)
(*                                                                         *)
(* A name is the sequence of the words and the separators it is made of,   *)
(* and a slug the sequence of its parts, which the code joins with `_`; a  *)
(* window id is a slug, too.  A reading is a number or Unreadable, which   *)
(* stands for a field that is absent or that does not convert.             *)
(***************************************************************************)
EXTENDS Integers, Sequences, FiniteSets, SequencesExt

Unreadable == -2
NoModel    == [id |-> <<>>, name |-> <<>>]
Absent     == [used |-> Unreadable, resets_at |-> Unreadable, carried |-> FALSE]

-----------------------------------------------------------------------------
(* Names.                                                                  *)

Separators == {" ", "-", ".", "_"}
Digits     == {"1", "4", "5"}
Capitals   == [Claude |-> "claude", Opus |-> "opus", Fable |-> "fable",
               Mini |-> "mini"]

Lowercase(word) == IF word \in DOMAIN Capitals THEN Capitals[word] ELSE word

\* Lower-case runs, whatever separates them.
ModelSlug(name) ==
  LET slug[n \in 0 .. Len(name)] ==
        IF n = 0 THEN <<>>
        ELSE IF name[n] \in Separators THEN slug[n - 1]
        ELSE Append(slug[n - 1], Lowercase(name[n]))
  IN  slug[Len(name)]

WithoutVendor(slug) ==
  IF Len(slug) > 1 /\ slug[1] = "claude" THEN Tail(slug) ELSE slug

\* No vendor prefix and no version tail; digits alone are a name.
CanonicalModel(slug) ==
  LET parts == WithoutVendor(slug)
  IN  IF parts = <<>> \/ parts[1] \in Digits THEN parts
      ELSE SubSeq(parts, 1, SelectLastInSeq(parts, LAMBDA p : p \notin Digits))

\* Mutant of SameModel: a name that contains the model's is the model.
SameModelContained(slug, fixed) == \E i \in DOMAIN slug : fixed = <<slug[i]>>

SameModel(slug, fixed) == CanonicalModel(slug) = fixed

-----------------------------------------------------------------------------
(* The payload.                                                            *)

\* The fixed buckets, in order; an account-wide one has no model.
Specs ==
  <<[bucket |-> "five_hour",        id |-> <<"session", "5h">>,    model |-> <<>>],
    [bucket |-> "seven_day",        id |-> <<"weekly">>,           model |-> <<>>],
    [bucket |-> "seven_day_opus",   id |-> <<"weekly", "opus">>,   model |-> <<"opus">>],
    [bucket |-> "seven_day_sonnet", id |-> <<"weekly", "sonnet">>, model |-> <<"sonnet">>]>>

IsServerDerived(id) == \A i \in DOMAIN Specs : Specs[i].id # id

\* Mutant of FixedModels: only a bucket that was read speaks for its model.
FixedModelsRead(usage) ==
  {s.model : s \in {t \in ToSet(Specs) :
     /\ usage.buckets[t.bucket].carried /\ t.model # <<>>
     /\ usage.buckets[t.bucket].used # Unreadable}}

\* The models of the buckets the payload carries, readable or not.
FixedModels(usage) ==
  {s.model : s \in {t \in ToSet(Specs) :
     usage.buckets[t.bucket].carried /\ t.model # <<>>}}

\* A bucket without a utilization is skipped; one without a reset is not.
AddBucket(windows, spec, bucket) ==
  IF bucket.carried /\ bucket.used # Unreadable
  THEN Append(windows, [id |-> spec.id, scope |-> spec.model, used |-> bucket.used,
                        reset_at |-> bucket.resets_at])
  ELSE windows

FixedWindows(usage) ==
  LET read[n \in 0 .. Len(Specs)] ==
        IF n = 0 THEN <<>>
        ELSE AddBucket(read[n - 1], Specs[n], usage.buckets[Specs[n].bucket])
  IN  read[Len(Specs)]

\* The server's own id when it sends one, the label's slug otherwise.
SlugOf(model) ==
  IF ModelSlug(model.id) # <<>> THEN ModelSlug(model.id)
  ELSE ModelSlug(model.name)

WindowIdOf(slug) == <<"weekly">> \o slug

\* A `weekly_scoped` row that names its model.
NamesACap(row) ==
  /\ row.decodes
  /\ row.kind = "weekly_scoped"
  /\ row.model # NoModel
  /\ SlugOf(row.model) # <<>>

\* The first row of an id wins, and so does a fixed bucket.
AddRow(windows, row, fixed_models) ==
  LET slug == SlugOf(row.model)
  IN  IF /\ NamesACap(row)
         /\ \A i \in DOMAIN windows : windows[i].id # WindowIdOf(slug)
         /\ \A m \in fixed_models : ~SameModel(slug, m)
         /\ row.percent # Unreadable
      THEN Append(windows, [id |-> WindowIdOf(slug), scope |-> slug,
                            used |-> row.percent, reset_at |-> row.resets_at])
      ELSE windows

\* Absent, null and not an array are all no rows.
LimitRows(limits) == IF limits.is_array THEN limits.rows ELSE <<>>

AllWindows(usage) ==
  LET rows == LimitRows(usage.limits)
      read[n \in 0 .. Len(rows)] ==
        IF n = 0 THEN FixedWindows(usage)
        ELSE AddRow(read[n - 1], rows[n], FixedModels(usage))
  IN  read[Len(rows)]

SchemaDrift == [drift |-> TRUE, windows |-> <<>>]

Parse(raw) ==
  IF raw.status # 200 \/ ~raw.is_json \/ AllWindows(raw.usage) = <<>>
  THEN SchemaDrift
  ELSE [drift |-> FALSE, windows |-> AllWindows(raw.usage)]

\* warn_on_orphaned_window_history: the per-model ids that it names.
OrphanedIds(previous, current) ==
  {w.id : w \in {v \in ToSet(previous) :
     /\ v.scope # <<>> /\ IsServerDerived(v.id)
     /\ \A i \in DOMAIN current : current[i].id # v.id}}

-----------------------------------------------------------------------------
(* The request.                                                            *)

Probe(response) ==
  IF ~response.arrived THEN "network"
  ELSE CASE response.status \in {401, 403} -> "auth"
         [] response.status = 429         -> "rate_limited"
         [] response.status \in 200 .. 299 -> "raw"
         [] OTHER                         -> "provider"

\* What the client is told, and how far the poll got.
PollOutcome(has_credential, response) ==
  IF ~has_credential
  THEN [stage |-> "credential", outcome |-> "auth_error", windows |-> <<>>]
  ELSE [stage   |-> "provider",
        windows |-> IF Probe(response) = "raw" THEN Parse(response).windows
                    ELSE <<>>,
        outcome |-> CASE Probe(response) = "auth"         -> "auth_error"
                      [] Probe(response) = "rate_limited" -> "rate_limited"
                      [] Probe(response) \in {"network", "provider"} ->
                           "network_error"
                      [] OTHER -> IF Parse(response).drift THEN "schema_drift"
                                  ELSE "success"]

=============================================================================
