----------------------------- MODULE MCWriterLease -----------------------------
\* WriterLease with clients that each have an owner string of their own.
EXTENDS WriterLease, TLC

CONSTANTS a, b, c

Names == a :> "alice" @@ b :> "bob" @@ c :> "carol"
OwnOwner == [x \in Clients |-> Names[x]]
AllOwners == {"alice", "bob", "carol"}
================================================================================
