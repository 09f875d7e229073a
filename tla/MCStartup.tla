------------------------------ MODULE MCStartup ------------------------------
(***************************************************************************)
(* Startup on all programs of two files of at most MaxDecls declarations   *)
(* that C and its linker accept.  A variable may be declared twice, as a   *)
(* tentative definition and with an initializer.                           *)
(***************************************************************************)
EXTENDS Startup, SequencesExt

CONSTANT MaxDecls

D(kind, name, external, init) ==
  [kind |-> kind, name |-> name, external |-> external, init |-> init]

Decls ==
  {D("def", "main", TRUE, ""), D("def", "f", TRUE, ""), D("def", "f", FALSE, ""),
   D("decl", "f", TRUE, ""), D("var", "x", TRUE, "0"), D("var", "x", TRUE, ""),
   D("var", "x", FALSE, ""), D("extern", "x", TRUE, ""), D("var", "p", TRUE, "x")}

Defines(d) == d.kind = "def" \/ d.init # ""

(* Within a file: one definition, one linkage, declared before use.        *)
AcceptedFile(s) ==
  /\ \A j, k \in DOMAIN s : s[j].name = s[k].name =>
       /\ s[j].external = s[k].external
       /\ Defines(s[j]) /\ Defines(s[k]) => j = k
  /\ \A k \in DOMAIN s : s[k].init = "x" => \E j \in 1..(k - 1) : s[j].name = "x"

AcceptedFiles == {s \in SeqOf(Decls, MaxDecls) : AcceptedFile(s)}

(* Across files: one external definition.                                  *)
Linked(a, b) ==
  \A j \in DOMAIN a, k \in DOMAIN b :
    (a[j].name = b[k].name /\ a[j].external /\ b[k].external)
      => ~(a[j].kind \in {"def", "var"} /\ b[k].kind \in {"def", "var"})

MCPrograms == {p \in AcceptedFiles \X AcceptedFiles : Linked(p[1], p[2])}

MCNames == {""}
=============================================================================
