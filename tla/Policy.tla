------------------------------- MODULE Policy -------------------------------
(***************************************************************************)
(* The rules a run is judged by and the identity they give a benchmark:    *)
(* which commands and paths are forbidden (audit.rs), how the lists of the *)
(* project and of the task are merged, what the fingerprint of a benchmark *)
(* covers (orchestration.rs) and how a custom agent's arguments are built  *)
(* and written to the audit (agents/custom.rs).                            *)
(*                                                                         *)
(* A command line is [words, balanced]: the words its quotes and blanks    *)
(* make, and whether the quotes are balanced.  Substrings are runs of whole*)
(* words.                                                                  *)
(***************************************************************************)
EXTENDS SafePaths

CONSTANTS
  Base,         \* the last path component of a word, for every word
  Dashed,       \* the words that begin with a dash
  CommandFlags, \* those of them that hold a "c"
  Assigned,     \* the words of the form name=value
  Quoted        \* the command line in a word that was quoted, for such words

Text(word) ==
  IF word \in DOMAIN Quoted THEN Quoted[word] ELSE [words |-> <<word>>, balanced |-> TRUE]

Shells == {"sh", "bash", "dash", "zsh", "ksh"}

AfterOptions(words, options) ==
  LET first == SelectInSeq(words, LAMBDA w : w \notin options)
  IN  IF first = 0 THEN <<>> ELSE SubSeq(words, first, Len(words))

AfterWrapper(words) ==
  IF words # <<>> /\ Base[words[1]] \in {"sudo", "command"}
  THEN AfterOptions(Tail(words), Dashed)
  ELSE words

(* There are no more wrappers than words.                                  *)
AfterWrappers(words) == FoldLeft(LAMBDA rest, w : AfterWrapper(rest), words, words)

AfterEnv(words) ==
  IF words # <<>> /\ Base[words[1]] = "env"
  THEN AfterOptions(Tail(words), Dashed \cup Assigned)
  ELSE words


Greedy(words, needed) ==
  FoldLeft(LAMBDA n, w : IF n < Len(needed) /\ w = needed[n + 1] THEN n + 1 ELSE n, 0, words)

InvocationMatches(observed, needle) ==
  LET command == AfterEnv(AfterWrappers(observed))
  IN  /\ command # <<>>
      /\ Base[command[1]] = Base[needle[1]]
      /\ Greedy(Tail(command), Tail(needle)) = Len(Tail(needle))

(* Payload(text): the text is a command that contains the forbidden one.   *)
ShellPayloadMatches(observed, Payload(_)) ==
  /\ observed # <<>> /\ Base[observed[1]] \in Shells
  /\ \E i \in 1 .. Len(observed) - 1 :
       observed[i] \in CommandFlags /\ Payload(Text(observed[i + 1]))

CommandContainsForbidden(command, forbidden) ==
  LET contains[c \in {command} \cup {Text(word) : word \in DOMAIN Base}] ==
        IF ~c.balanced \/ ~forbidden.balanced
        THEN forbidden.words \in SubSeqs(c.words)
        ELSE /\ forbidden.words # <<>>
             /\ \/ InvocationMatches(c.words, forbidden.words)
                \/ ShellPayloadMatches(c.words, LAMBDA text : contains[text])
  IN  contains[command]

(* A path that cannot be normalized is forbidden, and so is everything when*)
(* the rule itself cannot be.                                              *)
PathIsForbidden(changed, forbidden) ==
  LET Unclear(path) == \E i \in DOMAIN Components(path) : Components(path)[i] \in {"..", "/"}
  IN  \/ Unclear(changed) \/ Unclear(forbidden)
      \/ Normals(forbidden) # <<>> /\ IsPrefix(Normals(forbidden), Normals(changed))

-----------------------------------------------------------------------------
(* The events of an agent, one JSON value a line: a function from places   *)
(* (<<>> the value itself) to nodes [node, key, text]; what a node holds   *)
(* lies at the places one step below, an object's fields in the order of   *)
(* their keys.  A malformed line is one node of kind "malformed".          *)

CommandTypes == {"command_execution", "command", "shell_command"}

Children(value, at) ==
  LET places == [i \in 1 .. Cardinality(DOMAIN value) |-> Append(at, i)]
  IN  Without(places, ToSet(places) \ DOMAIN value)

TextField(value, at, key) ==
  LET Other(place) == value[place].key # key \/ value[place].node # "text"
      nested == Children(value, at)
      found  == Without(nested, {place \in ToSet(nested) : Other(place)})
  IN  IF value[at].node = "object" THEN [i \in DOMAIN found |-> value[found[i]].text] ELSE <<>>

(* The object or one it lies in is typed as a command.                     *)
InCommandEvent(value, at) ==
  \E n \in 0 .. Len(at) :
    LET type == TextField(value, SubSeq(at, 1, n), "type")
    IN  type # <<>> /\ type[1] \in CommandTypes

CollectCommandEvents(value) ==
  LET collect[at \in DOMAIN value] ==
        LET nested == Children(value, at) IN
        (IF InCommandEvent(value, at)
         THEN TextField(value, at, "command") \o TextField(value, at, "cmd") ELSE <<>>)
        \o FlattenSeq([i \in DOMAIN nested |-> collect[nested[i]]])
  IN  collect[<<>>]

ExtractCodexCommands(lines) ==
  FlattenSeq([i \in DOMAIN lines |-> CollectCommandEvents(lines[i])])

-----------------------------------------------------------------------------
(* append_unique; merge_strings and merge_paths; deduplicate_errors is the *)
(* same over one list.                                                     *)
AppendUnique(destination, values) ==
  FoldLeft(LAMBDA kept, v : IF Contains(kept, v) THEN kept ELSE Append(kept, v),
           destination, values)

Deduplicate(list) == AppendUnique(<<>>, list)

Merge(left, right) == Deduplicate(left \o right)

Limits == {"timeout_seconds", "max_output_bytes", "max_changed_files", "max_diff_lines"}

Least(a, b) == IF a <= b THEN a ELSE b

EffectiveLimits(task, settings) ==
  [limit \in Limits |-> Least(task.limits[limit], settings.limits[limit])]

(* The hash is taken over the fields one after the other, each with its    *)
(* length; that of the fields is the identity up to collisions of SHA-256. *)
TaskFingerprint(task, settings) ==
  LET limits == EffectiveLimits(task, settings) IN
  <<task, limits["timeout_seconds"], limits["max_output_bytes"],
    limits["max_changed_files"], limits["max_diff_lines"]>>
  \o settings.environment
  \o Merge(settings.commands, task.commands)
  \o Merge(settings.paths, task.paths)

-----------------------------------------------------------------------------
(* Custom agents.  A text is a sequence of tokens: braces, the names that  *)
(* may stand between them, and anything else.                              *)

Placeholders == <<"prompt", "prompt_file", "workspace", "task_id", "run_id", "result_dir">>

Marker(name) == <<"{", name, "}">>

(* TRUE when every brace belongs to a placeholder that is known.           *)
ValidatePlaceholders(template) ==
  \A i \in DOMAIN template :
    /\ template[i] = "{" => /\ i + 2 <= Len(template) /\ template[i + 2] = "}"
                            /\ Contains(Placeholders, template[i + 1])
    /\ template[i] = "}" => i > 2 /\ template[i - 2] = "{"

Replace(text, marker, value) ==
  LET n == Len(marker)
      from[i \in 1 .. Len(text) + 1] ==
        IF i > Len(text) THEN <<>>
        ELSE IF i + n <= Len(text) + 1 /\ SubSeq(text, i, i + n - 1) = marker
          THEN value \o from[i + n]
        ELSE <<text[i]>> \o from[i + 1]
  IN  from[1]

Sensitive == {"token", "secret", "password", "api-key", "api_key", "authorization"}

RedactSensitiveArgument(argument) ==
  LET equals == SelectInSeq(argument, LAMBDA t : t = "=") IN
  IF \A i \in DOMAIN argument : argument[i] \notin Sensitive THEN argument
  ELSE SubSeq(argument, 1, equals) \o <<"<redacted:secret>">>

(* The placeholders are replaced one after the other, so that a value that *)
(* itself holds a later placeholder is expanded again.                     *)
Expand(template, values) ==
  LET Substitute(state, name) ==
        IF Marker(name) \notin SubSeqs(state.expanded) THEN state
        ELSE [expanded |-> Replace(state.expanded, Marker(name), values[name]),
              redacted |-> Replace(state.redacted, Marker(name),
                             IF name = "prompt" THEN <<"<redacted:prompt>">> ELSE values[name]),
              file     |-> state.file \/ name = "prompt_file"]
  IN  FoldLeft(Substitute, [expanded |-> template, redacted |-> template, file |-> FALSE],
               Placeholders)

BuildInvocation(templates, values) ==
  LET made == [i \in DOMAIN templates |-> Expand(templates[i], values)]
  IN  [args        |-> [i \in DOMAIN made |-> made[i].expanded],
       audit       |-> [i \in DOMAIN made |-> RedactSensitiveArgument(made[i].redacted)],
       prompt_file |-> \E i \in DOMAIN made : made[i].file]

=============================================================================
