----------------------------- MODULE MCCommand -----------------------------
(* Command with archives named "a", under every extension.                 *)
EXTENDS Command

A(ext) == <<"a">> \o ext
MCNames == {A(ext) : ext \in
  {<< >>, <<"goxa">>, <<"goxa", "b64">>, <<"goxa", "b32">>, <<"b64">>, <<"b64", "goxa">>,
   <<"goxaf">>, <<"tar">>, <<"tar", "gz">>, <<"tar", "xz">>, <<"tar", "gz", "b64">>}}
           \cup {<<"archive", "goxa">>}

Make(ext) ==
  [mode |-> "c", arc |-> A(ext), format |-> "goxa", comp |-> "any", valid |-> TRUE,
   force |-> FALSE, progress |-> TRUE, stdout |-> "no", dest |-> "none", absolute |-> FALSE,
   size |-> 3, data |-> 2, parity |-> 1, level |-> ""]
Take(ext) == [Make(ext) EXCEPT !.mode = "x", !.dest = "there"]

Creations ==
  {Make(<< >>), [Make(<< >>) EXCEPT !.format = "tar", !.comp = "xz"],
   [Make(<< >>) EXCEPT !.format = "tar"],
   [Make(<< >>) EXCEPT !.format = "tar", !.comp = "none"],
   Make(<<"goxa">>), [Make(<<"goxa">>) EXCEPT !.force = TRUE],
   [Make(<<"goxa">>) EXCEPT !.stdout = "pipe"], [Make(<<"goxa">>) EXCEPT !.stdout = "file"],
   Make(<<"goxa", "b64">>), [Make(<<"goxa", "b64">>) EXCEPT !.stdout = "pipe"],
   [Make(<<"goxa", "b32">>) EXCEPT !.progress = FALSE], Make(<<"b64">>),
   Make(<<"goxaf">>), [Make(<<"goxaf">>) EXCEPT !.size = 9],
   [Make(<<"goxaf">>) EXCEPT !.size = 8],
   [Make(<<"goxaf">>) EXCEPT !.data = 256, !.parity = 0],
   [Make(<<"goxaf">>) EXCEPT !.data = 256], [Make(<<"goxaf">>) EXCEPT !.level = "high"],
   [Make(<<"goxaf">>) EXCEPT !.stdout = "file"],
   Make(<<"tar">>), Make(<<"tar", "gz">>), [Make(<<"tar", "gz">>) EXCEPT !.comp = "xz"],
   [Make(<<"tar", "gz">>) EXCEPT !.comp = "none"],
   Make(<<"tar", "xz">>), Make(<<"tar", "gz", "b64">>)}

Readings ==
  {Take(ext) : ext \in
     {<< >>, <<"goxa">>, <<"goxa", "b64">>, <<"goxa", "b32">>, <<"b64">>, <<"b64", "goxa">>,
      <<"goxaf">>, <<"tar">>, <<"tar", "gz">>, <<"tar", "xz">>, <<"tar", "gz", "b64">>}}
  \cup {[Take(<<"goxa">>) EXCEPT !.dest = "none"],
        [Take(<<"goxa">>) EXCEPT !.arc = <<"archive", "goxa">>],
        [Take(<<"goxa">>) EXCEPT !.absolute = TRUE],
        [Take(<<"goxa">>) EXCEPT !.mode = "l"],
        [Take(<<"goxa", "b64">>) EXCEPT !.mode = "j"],
        [Take(<<"goxaf">>) EXCEPT !.mode = "l"],
        [Take(<<"tar", "gz">>) EXCEPT !.mode = "l"],
        [Take(<<"tar", "gz">>) EXCEPT !.comp = "none"],
        [Take(<<"tar", "gz">>) EXCEPT !.dest = "none"],
        [Take(<<"tar">>) EXCEPT !.dest = "none", !.absolute = TRUE],
        [Take(<<"tar", "xz">>) EXCEPT !.dest = "here"],
        [Take(<<"goxa">>) EXCEPT !.dest = "here"],
        [Take(<<"goxa">>) EXCEPT !.dest = "here", !.force = TRUE],
        [Take(<<"goxa">>) EXCEPT !.valid = FALSE],
        [Make(<<"goxa">>) EXCEPT !.mode = "other"]}

Again == {Make(<<"goxa">>), [Make(<<"goxa">>) EXCEPT !.force = TRUE], Make(<<"goxa", "b64">>),
          Make(<<"goxaf">>), Make(<<"tar", "gz">>)}

MCCommands == <<Creations, Readings \cup Again,
                {Take(ext) : ext \in {<<"goxa">>, <<"goxa", "b64">>, <<"goxaf">>, <<"tar", "gz">>}}
                \cup {[Take(<<"goxa">>) EXCEPT !.dest = "none"]}>>
MCDefault == <<"archive", "goxa">>
=============================================================================
