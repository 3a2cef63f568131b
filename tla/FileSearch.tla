----------------------------- MODULE FileSearch -----------------------------
(* The Glob and Grep tools (shared/bash_tools.py) over helpers/filesystem.py, as
   functions of the workspace.

   The workspace is a function from paths to contents, a content a sequence of
   lines; `order` lists the paths as glob finds them, newest first.  A pattern
   is the set of lines it matches; with `multiline` each of them is one match,
   patterns that span lines are left out.  A search takes in one file after
   another; here they stand still meanwhile.                                  *)
EXTENDS Naturals, Sequences, SequencesExt

(* glob: every file that matches, or the first `limit` of them. *)
Found(files, order) ==
    FoldLeft(LAMBDA acc, p : IF p \in DOMAIN files THEN Append(acc, p) ELSE acc, <<>>, order)

Glob(files, order, limit) ==
    LET found == Found(files, order)
    IN  IF limit > 0 THEN SubSeq(found, 1, IF limit < Len(found) THEN limit ELSE Len(found))
        ELSE found

(* What a search has skipped and collected so far, and whether it has stopped. *)
Searching == [skipped |-> 0, results |-> <<>>, stopped |-> FALSE]

(* Mutant: a skipped match is not counted, so every match is skipped or none. *)
CollectUncounted(s, item, offset) ==
    IF s.skipped < offset THEN s ELSE [s EXCEPT !.results = Append(@, item)]

(* One match: skipped while the offset is not used up, else collected. *)
Collect(s, item, offset) ==
    IF s.skipped < offset THEN [s EXCEPT !.skipped = @ + 1]
    ELSE [s EXCEPT !.results = Append(@, item)]

StopAt(s, head) == [s EXCEPT !.stopped = Len(s.results) >= head]

Matching(content, pattern) == {i \in 1 .. Len(content) : content[i] \in pattern}

(* "content": a match shows the lines around it; the search stops in the middle
   of a file once it has enough.                                              *)
Shown(path, content, i, around) ==
    [path |-> path,
     first |-> IF i > around THEN i - around ELSE 1,
     last |-> IF i + around < Len(content) THEN i + around ELSE Len(content)]

Take(s, item, offset, head) ==
    LET next == Collect(s, item, offset)
    IN  IF next.results = s.results THEN next ELSE StopAt(next, head)

AtLine(s, path, content, pattern, around, offset, head, i) ==
    IF s.stopped \/ i \notin Matching(content, pattern) THEN s
    ELSE Take(s, Shown(path, content, i, around), offset, head)

GrepLines(s, path, content, pattern, around, offset, head) ==
    FoldLeftDomain(LAMBDA acc, i : AtLine(acc, path, content, pattern, around, offset, head, i),
                   s, content)

(* "files_with_matches" and "count": one result for a file. *)
GrepFile(s, mode, path, content, pattern, offset) ==
    LET n == Cardinality(Matching(content, pattern))
    IN  IF n = 0 THEN s
        ELSE Collect(s, [path |-> path, count |-> IF mode = "count" THEN n ELSE 0], offset)

(* A file of a query q: the head limit is looked at after every file, but for a
   multiline search after every match of the content mode only, which shows the
   match alone.                                                               *)
AtFile(s, path, content, q) ==
    IF s.stopped THEN s
    ELSE LET around == IF q.multiline THEN 0 ELSE q.around
             next == IF q.mode = "content"
                     THEN GrepLines(s, path, content, q.pattern, around, q.offset, q.head)
                     ELSE GrepFile(s, q.mode, path, content, q.pattern, q.offset)
         IN  IF q.multiline THEN next ELSE StopAt(next, q.head)

(* grep of a query. *)
Grep(files, order, q) ==
    FoldLeft(LAMBDA acc, p : AtFile(acc, p, files[p], q),
             Searching, Glob(files, order, 0)).results

(* What the model is told.  Of an output of more than MAX_BASH_TOKENS, here of
   more than `fits` results, the tail is kept.                                *)
Reply(results, fits) ==
    IF results = <<>> THEN [answer |-> "no_matches", shown |-> <<>>]
    ELSE IF Len(results) > fits
    THEN [answer |-> "truncated",
          shown |-> SubSeq(results, Len(results) - fits + 1, Len(results))]
    ELSE [answer |-> "success", shown |-> results]

(* The directory that is searched is the workspace, is missing, or escapes. *)
Refused(dir) ==
    [answer |-> IF dir = "outside" THEN "permission" ELSE "not_found", shown |-> <<>>]

(* The Grep tool: the regular expression is compiled before the path is looked at. *)
GrepSearch(files, order, q, fits) ==
    IF ~q.valid THEN [answer |-> "invalid_regex", shown |-> <<>>]
    ELSE IF q.dir # "workspace" THEN Refused(q.dir)
    ELSE Reply(Grep(files, order, q), fits)

(* The Glob tool. *)
GlobSearch(files, order, dir, limit, fits) ==
    IF dir # "workspace" THEN Refused(dir) ELSE Reply(Glob(files, order, limit), fits)
=============================================================================
