------------------------------- MODULE MCServing -------------------------------
(* Small instances of Serving for TLC. *)
EXTENDS Serving, TLC

CONSTANTS bare, rich, r1, single, h1, h2, u, site, elsewhere

MCSupports == [p \in Provider |-> IF p = rich THEN Part ELSE {}]

\* An operator set up rich and its key; bare is new with this version.
MCSeeded ==
  {[providers |-> [p \in Provider |-> IF p = rich THEN "active" ELSE "absent"],
    marked |-> {},
    keys |-> <<NewKey(rich, r1)>>]}

\* One key of bare, under one of its names or under both.
MCEnvironment ==
  {[p \in Provider |-> [r \in Ref |->
      IF p = bare /\ r \in names THEN "a key" ELSE Unset]] : names \in {{single}, Ref}}

MCCovers == [e \in Entry |-> IF e = site THEN Page ELSE {}]

Plain == [topic |-> "t", window |-> "w", tuning |-> "x", wants |-> {},
          format |-> "markdown", require_enrichment |-> TRUE,
          fallback_on_empty |-> FALSE, include |-> {}, exclude |-> {}, ttl |-> 1]

Enriched == [Plain EXCEPT !.wants = Part, !.fallback_on_empty = TRUE]

MCSearch ==
  {Plain, [Plain EXCEPT !.include = {elsewhere}],
   [Plain EXCEPT !.include = {site}, !.exclude = {elsewhere}, !.fallback_on_empty = TRUE],
   Enriched, [Enriched EXCEPT !.require_enrichment = FALSE, !.ttl = 2]}

MCFetch == {[urls |-> {u}, format |-> "markdown", fresh |-> f] : f \in BOOLEAN}

MCSymmetry == Permutations(Handler)
=============================================================================
