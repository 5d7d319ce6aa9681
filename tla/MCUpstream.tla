----------------------------- MODULE MCUpstream -----------------------------
(* Constants of the runs of Upstream. *)
EXTENDS Upstream

CONSTANTS r1, r2, r3, r4, r5, r6, f1, h1, h2, h3, n1, n2

Repos == {r1, r2, r3, r4, r5, r6, f1}

\* One page, two full pages with or without a foreign repository, two and a half.
StartInstallations ==
  {<<r1>>, <<r1, r2, r3, r4>>, <<f1, r1, r2, r3>>, <<r1, r2, r3, r4, f1>>}

\* h1 and h2 share their first seven characters.
Short == h1 :> n1 @@ h2 :> n1 @@ h3 :> n2

Directive(groups) == [go |-> FALSE, groups |-> groups, clean |-> TRUE]
Release(groups)   == [go |-> TRUE, groups |-> groups, clean |-> TRUE]

ReleaseTexts ==
  {Release(<<1, 1>>), Release(<<1, 1, 0>>), Release(<<1, 0, 2>>), Release(<<2, 0>>),
   Release(<<0, 3>>), Release(<<1, 4>>), Release(<<1>>),
   [go |-> TRUE, groups |-> <<1, 2>>, clean |-> FALSE], Directive(<<1, 2>>)}

AllFeeds == SeqOf([version: ReleaseTexts, stable: BOOLEAN], 3)

Targets ==
  {[major |-> 1, minor |-> 1, patch |-> 0], [major |-> 1, minor |-> 1, patch |-> 2]}

Lines ==
  [kind: {"other", "too_long", "bare_go"}]
  \cup [kind: {"go"},
        value: {Directive(<<1, 1>>), Directive(<<1, 1, 1>>), Directive(<<1, 0, 3>>),
                Directive(<<0, 2, 3>>), Directive(<<2, 0>>), Directive(<<0, 4>>), Release(<<1, 0>>)}]

PathOf(contents) ==
  [kind: {"absent", "directory"}]
  \cup [kind: {"file"}, size: {0, 1, 2}, length: {1, 2}, decodes: BOOLEAN, content: contents]

GoMods == PathOf(SeqOf(Lines, 2))

Configs == PathOf(Config)

=============================================================================
