------------------------------- MODULE Settings -------------------------------
(***************************************************************************)
(* The configuration (config.rs) over the life of a process: flags, file,     *)
(* legacy keys and defaults are resolved at boot and again by every reload,   *)
(* which puts some keys in force and reports what it did and what it could not. *)
(*                                                                         *)
(* One key stands for all that are treated alike.  A file gives each key a   *)
(* value or None; "legacy" is its deprecated spelling, "fragment" the file    *)
(* that alias_file or index_file name.                                      *)
(***************************************************************************)
EXTENDS Integers, Sequences, FiniteSets, SequencesExt

CONSTANT None

Override == {"port", "auth", "audit_level"}      \* flag, file, legacy, default
Switch == {"read_only", "trust_proxy"}           \* flag or file
Appended == {"admin_uids", "sync_peer"}            \* the file's, then the flags'
Inline == {"aliases"}                            \* the file's, then the fragment's
Optional == {"public_url"}                       \* flag, file, nothing
Keys == Override \cup Switch \cup Appended \cup Inline \cup Optional

RELOADABLE == {"auth", "audit_level", "read_only", "sync_peer", "aliases"}

Default(k) == CASE k \in Override -> 0 [] k \in Switch -> FALSE
                [] k \in Appended \cup Inline -> <<>> [] OTHER -> None

First(vs) == LET given == {i \in DOMAIN vs : vs[i] # None}
             IN  IF given = {} THEN None ELSE vs[Min(given)]

Given(src, k) == IF src[k] = None THEN Default(k) ELSE src[k]

\* resolve.  A file that is not named explicitly and cannot be read is the empty one.
Resolve(flags, file) ==
    [k \in Keys |->
        CASE k \in Override -> First(<<flags[k], file.keys[k], file.legacy[k], Default(k)>>)
          [] k \in Optional -> First(<<flags[k], file.keys[k]>>)
          [] k \in Switch -> Given(flags, k) \/ Given(file.keys, k)
          [] k \in Appended -> Given(file.keys, k) \o Given(flags, k)
          [] k \in Inline -> Given(file.keys, k) \o Given(file.fragment, k)]

\* reload_diff: the changed keys, by what reload does with them.
Diff(before, after) == {k \in Keys : before[k] # after[k]}
Applied(before, after) == Diff(before, after) \cap RELOADABLE
RequiresRestart(before, after) == Diff(before, after) \ RELOADABLE

\* Mutant: the new configuration is remembered as it is.
AppliedWhole(before, after) == after

\* applied_snapshot
AppliedSnapshot(before, after) == [k \in Keys |-> IF k \in RELOADABLE THEN after[k] ELSE before[k]]

\* UB_PUBLIC_URL is filled while it is empty, at boot or by a reload, and then stays.
Bridged(running, cfg) == IF running["public_url"] = None THEN cfg["public_url"] ELSE running["public_url"]

\* The process: what is in force, the snapshot it compares with, the last report.
Boot(flags, file) ==
    LET cfg == Resolve(flags, file)
    IN  [running |-> cfg, last_config |-> cfg, cfg |-> cfg, applied |-> {}, restart |-> {}, ok |-> TRUE]

\* reload with the file as it is now; outcome says where it fails.  The URL and the audit
\* level are set before the step that may fail.
Reload(p, flags, file, outcome) ==
    LET cfg == Resolve(flags, file)
        url == [p.running EXCEPT !["public_url"] = Bridged(p.running, cfg)]
    IN  CASE outcome = "databases" -> [p EXCEPT !.running = url, !.cfg = cfg, !.ok = FALSE]
          [] outcome = "chain" ->
               [p EXCEPT !.running = [url EXCEPT !["audit_level"] = cfg["audit_level"]],
                         !.cfg = cfg, !.ok = FALSE]
          [] outcome = "ok" ->
               [running |-> [k \in Keys |-> IF k \in RELOADABLE THEN cfg[k] ELSE url[k]],
                last_config |-> AppliedSnapshot(p.last_config, cfg),
                cfg |-> cfg,
                applied |-> Applied(p.last_config, cfg),
                restart |-> RequiresRestart(p.last_config, cfg),
                ok |-> TRUE]

\* A life: the file at boot, then reloads, each with the file it finds and its outcome.
After(flags, first, reloads) ==
    LET P[n \in 0..Len(reloads)] ==
          IF n = 0 THEN Boot(flags, first)
          ELSE Reload(P[n - 1], flags, reloads[n].file, reloads[n].outcome)
    IN P

Life(flags, first, reloads) == After(flags, first, reloads)[Len(reloads)]

\* "a key reload cannot touch is named instead of being implied by ok", "stays reported on
\* every later reload until the process actually restarts": after any sequence of edits and
\* reloads, a successful one names exactly the keys whose value in force is not the file's,
\* and everything else is as a restart would have it.  The public URL is left out: the first
\* value given, at boot or by a reload, is in force from then on whatever the report says.
ReportTellsTheTruth(flags, first, reloads) ==
    LET p == Life(flags, first, reloads)
        pending == {k \in Keys : p.running[k] # p.cfg[k]}
    IN  p.ok => /\ p.restart \ {"public_url"} = pending \ {"public_url"}
                /\ flags["port"] # None => p.cfg["port"] = flags["port"]
=============================================================================
