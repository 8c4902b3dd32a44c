------------------------------ MODULE MCIndexer ------------------------------
(***************************************************************************)
(* A small instance of Indexer: two files of one package. The first may be *)
(* changed to another content and back, and to one that cannot be parsed.  *)
(***************************************************************************)
EXTENDS Indexer, TLC

MCFiles == {1, 2}
MCItems == {"pkg", "pkg.A", "pkg.B", "pkg.C"}

Source(items) == [kind |-> "source", items |-> items]
Broken == [kind |-> "broken", items |-> {}]

MCContents == (1 :> {Source({"pkg", "pkg.A"}), Source({"pkg", "pkg.B"}), Broken})
           @@ (2 :> {Source({"pkg", "pkg.C"})})

\* Each file has one content, which both share an item of.
MCUnchanging == (1 :> {Source({"pkg", "pkg.A"})}) @@ (2 :> {Source({"pkg", "pkg.C"})})

=============================================================================
