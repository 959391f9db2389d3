----------------------------- MODULE MC_Archive -----------------------------
(***************************************************************************)
(* Archive for small trees: files that need padding and files that do not, *)
(* an empty one, one that holds an archive, hidden ones, a link, names as  *)
(* long as the header takes and longer, and a name that begins with a      *)
(* control character, the only kind of name the reader can take for a      *)
(* short one.  The old archives are shorter than the new one, and longer.  *)
(***************************************************************************)
EXTENDS Archive

Magic == 256

File(name, data) == [name |-> name, type |-> "DT_REG", data |-> data]
Dir(name, in) == [name |-> name, type |-> "DT_DIR", in |-> in]
Link(name) == [name |-> name, type |-> "DT_LNK"]

a == 97
b == 98
s == 115

\* root/sbin/rts and its neighbours.
Deep == { Dir(<<s>>, {File(<<a, b>>, <<200, 201>>), Link(<<b>>)}),
          File(<<b>>, <<202>>),
          File(<<Dot, a>>, <<203>>),
          Dir(<<Dot, b>>, {File(<<a>>, <<204>>)}) }

\* Contents that look like headers.
Nested == { File(<<a>>, <<Magic, 4, 2, a, 210, 211>>),
            File(<<b>>, <<Magic, 4, 0, b, 0>>),
            File(<<s>>, <<>>) }

\* Names of the longest length and of one more, equal once cut.
Long == { File(<<a, a, a, a, a>>, <<220, 221>>),
          File(<<a, a, a, a, b>>, <<222, 223>>),
          File(<<1, b, b>>, <<224>>) }

MCTrees == {Deep, Nested, Long, {}}
\* Archives of an earlier build.
Short == <<Magic, 4, 1, b, 230, 0>>
MCOlds == {<<>>, Short, Short \o Short \o Short \o Short \o Short \o Short}
MCPaths == {<<Slash, s, Slash, a, b>>, <<b>>, <<a, a, a, a>>}
MCInputDir == <<100>>
=============================================================================
