------------------------------ MODULE MCImages ------------------------------
(* Indexes for two platforms, with an entry that is no image, with the       *)
(* platform twice and with an entry that lies; archives of one image in the  *)
(* legacy, the OCI, the graph-driver and the nested form, and archives that  *)
(* are ambiguous, contradictory or cut short.                                *)
EXTENDS Images

amd64(d)  == [digest |-> d, platform |-> "amd64", image |-> TRUE]
arm64(d)  == [digest |-> d, platform |-> "arm64", image |-> TRUE]
other(d)  == [digest |-> d, platform |-> "any", image |-> FALSE]
Index(es) == [kind |-> "index", entries |-> es]
Manifest(c, ls) == [kind |-> "manifest", config |-> c, layers |-> ls]
Config(p, ds) == [kind |-> "config", platform |-> p, diffs |-> ds]

MCDocument ==
    [two  |-> Index(<<amd64("m1"), arm64("m2"), other("l1")>>),
     dup  |-> Index(<<amd64("m1"), amd64("m4")>>),
     one  |-> Index(<<amd64("m4")>>),
     lie  |-> Index(<<amd64("m2")>>),
     m1   |-> Manifest("c1", <<"z1">>),
     m2   |-> Manifest("c2", <<"l2">>),
     m4   |-> Manifest("c4", <<"l2">>),
     c1   |-> Config("amd64", <<"l1">>),
     c2   |-> Config("arm64", <<"l2">>),
     c4   |-> Config("amd64", <<"l2">>),
     l1   |-> [kind |-> "layer"], z1 |-> [kind |-> "layer"], l2 |-> [kind |-> "layer"]]
MCDigests == DOMAIN MCDocument
MCRoots == {"two", "dup", "lie", "m2", "m4"}

Item(c, ls, src) == [config |-> c, layers |-> ls, tags |-> {"t"}, sources |-> src]
Tar(ms, ls, es, ix) == [whole |-> TRUE, members |-> ms, links |-> ls, entries |-> es, index |-> ix]
None == << >>

Legacy == Tar([conf |-> "c1", tar |-> "l1"], [old |-> "tar"], <<Item("conf", <<"old">>, None)>>, None)
MCArchive ==
    [legacy |-> Legacy,
     oci    |-> Tar([m4 |-> "m4", c4 |-> "c4", l2 |-> "l2"], None,
                    <<Item("c4", <<"l2">>, None)>>, <<amd64("m4")>>),
     nested |-> Tar([one |-> "one", m4 |-> "m4", c4 |-> "c4", l2 |-> "l2"], None,
                    <<Item("c4", <<"l2">>, None)>>, <<other("one")>>),
     graph  |-> Tar([m1 |-> "m1", c1 |-> "c1", l1 |-> "l1"], None,
                    <<Item("c1", <<"l1">>, [l1 |-> "z1"])>>, <<amd64("m1")>>),
     clash  |-> Tar([m4 |-> "m4", c4 |-> "c4", c1 |-> "c1", l1 |-> "l1", l2 |-> "l2"], None,
                    <<Item("c1", <<"l1">>, None)>>, <<amd64("m4")>>),
     twice  |-> Tar([c4 |-> "c4", c1 |-> "c1", l1 |-> "l1", l2 |-> "l2"], None,
                    <<Item("c1", <<"l1">>, None), Item("c4", <<"l2">>, None)>>, None),
     cut    |-> [Legacy EXCEPT !.whole = FALSE]]
MCArchives == DOMAIN MCArchive
MCSelector == [by |-> "tag", tag |-> "t"]
=============================================================================
