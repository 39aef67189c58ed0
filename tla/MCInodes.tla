------------------------------ MODULE MCInodes ------------------------------
(***************************************************************************)
(* Volumes for Inodes.  Cluster 0 and 1 are the ones that have been moved; *)
(* $Secure has its descriptors in clusters 2 and 4.                        *)
(***************************************************************************)
EXTENDS Inodes

\* Attributes and their runs.
Resident(type, name, instance, value) ==
    [type |-> type, name |-> name, instance |-> instance, resident |-> TRUE, value |-> value,
     lowest |-> 0, runs |-> <<>>, size |-> 0, vdl |-> 0, unit |-> 0, encrypted |-> FALSE]
Nonresident(type, name, instance, lowest, runs, size, vdl, unit) ==
    [type |-> type, name |-> name, instance |-> instance, resident |-> FALSE, value |-> <<>>,
     lowest |-> lowest, runs |-> runs, size |-> size, vdl |-> vdl, unit |-> unit,
     encrypted |-> FALSE]
Run(length, step) == [length |-> length, step |-> step, hole |-> FALSE]
Gap(length) == [length |-> length, step |-> 0, hole |-> TRUE]
Data(lowest, runs, size, vdl) == Nonresident("DATA", <<>>, 1, lowest, runs, size, vdl, 0)

FileName(instance, parent, name) ==
    Resident("FILE_NAME", <<>>, instance, [parent |-> parent, name |-> name, dos |-> FALSE])
DosName(instance, parent, name) ==
    Resident("FILE_NAME", <<>>, instance, [parent |-> parent, name |-> name, dos |-> TRUE])
Info(flags, security) ==
    Resident("STANDARD_INFORMATION", <<>>, 0, [flags |-> flags, security |-> security])
ReparsePoint(tag, data) == Resident("REPARSE_POINT", <<>>, 2, [tag |-> tag, data |-> data])

Bytes3 == <<<<"b", 1>>, <<"b", 2>>, <<"b", 3>>>>

\* Records.
Base(dir, as) == [base |-> 0, dir |-> dir, atts |-> as, list |-> <<>>, index |-> <<>>]
Plainly(parent, name, as) ==
    Base(FALSE, <<Info({"archive"}, 1), FileName(9, parent, name)>> \o as)

Leaf(entries) == entries \o <<[key |-> 0, sub |-> 0, last |-> TRUE]>>
Child(file, dir) == [key |-> file, sub |-> 0, last |-> FALSE, file |-> file, dir |-> dir]

Listing(type, name, instance, record) ==
    [type |-> type, name |-> name, instance |-> instance, record |-> record]

\* $Secure: two descriptors of a header and three bytes each, the second of them in two
\* clusters that are not next to each other.
Sii ==
    <<<<[key |-> 2, sub |-> 2, last |-> FALSE, offset |-> 4, length |-> 4,
         header |-> <<"ntfs", 8>>],
        [key |-> 0, sub |-> 0, last |-> TRUE]>>,
      Leaf(<<[key |-> 1, sub |-> 0, last |-> FALSE, offset |-> 1, length |-> 3,
              header |-> <<"ntfs", 5>>]>>)>>
Sds == Nonresident("DATA", <<"$SDS">>, 1, 0, <<Run(1, 2), Run(2, 1), Run(1, 3)>>, 8, 8, 0)
SdOf(units) == [i \in DOMAIN units |-> <<"ntfs", units[i]>>]

InOrderOf(ns) ==
    [i \in 1 .. Cardinality(ns) |-> CHOOSE n \in ns : Cardinality({m \in ns : m < n}) = i - 1]

Volume(files, stored, in_use) ==
    [mft |-> [n \in {5, 11, 24, 26} |->
                CASE n = 11 -> [Base(TRUE, <<>>) EXCEPT !.index = <<Leaf(<<Child(24, TRUE)>>)>>]
                  [] n = 24 -> [Base(TRUE, <<Info({}, 1), FileName(1, 11, <<"r">>)>>)
                                  EXCEPT !.index = <<Leaf(<<Child(25, FALSE), Child(26, TRUE)>>)>>]
                  [] n = 26 -> [Base(TRUE, <<Info({}, 1), FileName(1, 24, <<"t">>)>>)
                                  EXCEPT !.index = <<Leaf(<<Child(27, FALSE)>>)>>]
                  [] OTHER -> Base(TRUE, <<>>)] @@ files,
     records |-> InOrderOf({5, 11, 24, 26} \cup DOMAIN files),
     stored |-> stored, in_use |-> in_use \cup 0 .. 7,
     sii |-> Sii, sds |-> Sds,
     descriptors |-> <<SdOf(<<6, 7>>), SdOf(<<9, 12, 13>>)>>]

-----------------------------------------------------------------------------
(* A volume with files of every kind. *)

Lz(n, start, i, k) == <<"lz", n, start, i, k>>

Everything ==
    25 :> Plainly(24, <<"x">>, <<>>) @@
    27 :> Plainly(26, <<"y">>, <<>>) @@
    28 :> Base(TRUE, <<Info({"hidden"}, 2), FileName(1, RootDir, <<"d">>),
                       DosName(2, RootDir, <<"D">>),
                       Nonresident("INDEX_ALLOCATION", <<"$I30">>, 3, 0, <<>>, 0, 0, 0),
                       Resident("EA", <<>>, 4, <<[name |-> "$LXMOD", value |-> "reg"]>>)>>) @@
    \* Three names and data in two pieces, some of it in record 30.
    29 :> [base |-> 0, dir |-> FALSE, index |-> <<>>,
           atts |-> <<Info({"archive"}, 2), FileName(1, RootDir, <<"a">>),
                      Data(0, <<Run(1, 8)>>, 9, 7)>>,
           list |-> <<Listing("STANDARD_INFORMATION", <<>>, 0, 29),
                      Listing("FILE_NAME", <<>>, 1, 29), Listing("FILE_NAME", <<>>, 2, 30),
                      Listing("FILE_NAME", <<>>, 3, 30), Listing("DATA", <<>>, 1, 29),
                      Listing("DATA", <<>>, 1, 30)>>] @@
    30 :> [base |-> 29, dir |-> FALSE, index |-> <<>>, list |-> <<>>,
           atts |-> <<FileName(2, 28, <<"a">>), FileName(3, 28, <<"c">>),
                      Data(2, <<Run(2, 9), Run(1, 2)>>, 0, 0)>>] @@
    31 :> Plainly(28, <<"e">>, <<ReparsePoint("relative", <<<<"b", 1>>, <<"b", 2>>>>)>>) @@
    32 :> Plainly(28, <<"f">>, <<Resident("DATA", <<>>, 1, <<>>), ReparsePoint("other", Bytes3)>>) @@
    33 :> Base(TRUE, <<Info({"archive"}, 1), FileName(1, 28, <<"g">>),
                       ReparsePoint("other", Bytes3)>>) @@
    34 :> Plainly(28, <<"h">>, <<[Data(0, <<Run(1, 20)>>, 2, 2) EXCEPT !.encrypted = TRUE]>>) @@
    35 :> Plainly(RootDir, <<"pagefile.sys">>, <<Data(0, <<Run(1, 21)>>, 2, 2)>>) @@
    36 :> Plainly(33, <<"i">>, <<ReparsePoint("lx", <<<<"b", 3>>>>),
                                 Resident("EA", <<>>, 3, <<[name |-> "$LXMOD", value |-> "lnk"]>>)>>) @@
    37 :> Plainly(33, <<"j">>, <<Resident("EA", <<>>, 3,
              <<[name |-> "$LXMOD", value |-> "dir"], [name |-> "LXATTRB", value |-> "fifo"],
                [name |-> "LX.SECURITY.CAPABILITY", value |-> <<1>>]>>)>>) @@
    38 :> Base(FALSE, <<Info({"archive"}, 0), FileName(1, 28, <<"k", "long", "m">>),
                        Resident("SECURITY_DESCRIPTOR", <<>>, 4, Bytes3),
                        Resident("DATA", <<>>, 1, Bytes3),
                        Resident("DATA", <<"s">>, 5, Bytes3),
                        Nonresident("DATA", <<"t">>, 6, 0, <<Run(1, 13), Run(1, -1)>>, 3, 3, 0),
                        Nonresident("DATA", <<"u">>, 7, 0, <<Run(3, 17)>>, 6, 6, 0)>>) @@
    39 :> Plainly(28, <<".">>, <<Resident("DATA", <<>>, 1, <<<<"b", 1>>>>)>>)

\* The data of compressed files: two units of two clusters, the first of them stored
\* in one cluster or as it is, the second also.
Zipped(first, second, size) ==
    28 :> Plainly(RootDir, <<"z">>,
                  <<Nonresident("DATA", <<>>, 1, 0, first \o second, size, size, 1)>>)
Stored == [u \in {20, 21, 26, 27} |->
              CASE u < 26 -> Lz(28, 0, u - 19, 2) [] OTHER -> Lz(28, 4, u - 25, 2)]
Zips == {Volume(Zipped(first, second, size), Stored, 10 .. 14) :
            first \in {<<Run(1, 10), Gap(1)>>, <<Gap(2)>>},
            second \in {<<Gap(2)>>}, size \in {6, 8}}
        \cup {Volume(Zipped(<<Run(1, 10), Gap(1)>>, second, size), Stored, 10 .. 14) :
            second \in {<<Run(1, 3), Gap(1)>>, <<Run(2, 1)>>}, size \in {7, 8}}

Wof(tag, stored) ==
    28 :> Plainly(RootDir, <<"w">>,
                  <<Data(0, <<Gap(3)>>, 5, 5), ReparsePoint(tag, Bytes3), stored>>)
WofStored == [u \in {20, 21, 24} |-> <<"wof", 28, 0, IF u = 24 THEN 3 ELSE u - 19, 3>>]
Wofs == {Volume(Wof("wof", Nonresident("DATA", WofStream, 7, 0, <<Run(1, 10), Run(1, 2)>>, 3, 3, 0)),
                WofStored, 10 .. 12),
         Volume(Wof("wof", Resident("DATA", WofStream, 7,
                                    <<<<"wof", 28, 0, 1, 2>>, <<"wof", 28, 0, 2, 2>>>>)),
                <<>>, {})}

\* A stream that has been damaged, and a volume that has no room left.
Hopeless == {Volume(Zipped(<<Run(1, 10), Gap(1)>>, <<Gap(2)>>, 8), [Stored EXCEPT ![21] = <<"zero">>], 10 .. 14),
             Volume(Zipped(<<Run(1, 10), Gap(1)>>, <<Gap(2)>>, 8), Stored, 8 .. 28)}

\* A file of one attribute, of any size and any valid length.
Simple(runs, size, vdl) ==
    Volume(28 :> Plainly(RootDir, <<"f">>, <<Data(0, runs, size, vdl)>>), <<>>, 10 .. 13)
Shapes == {<<Run(3, 10)>>, <<Run(1, 11), Gap(1), Run(1, 2)>>, <<Gap(1), Run(1, 12), Run(1, -2)>>}
Simples == {Simple(runs, size, vdl) : runs \in Shapes, size \in {5, 6}, vdl \in 0 .. 6}

MCVolumes ==
    {Volume(Everything, <<>>, 8 .. 21)} \cup Zips \cup Hopeless \cup Wofs
      \cup {v \in Simples : \A a \in {v.mft[28].atts[3]} :
               /\ a.vdl <= a.size
               \* The valid data does not end in a hole.
               /\ a.vdl % ClusterSize # 0 => ~(a.runs = <<Run(1, 11), Gap(1), Run(1, 2)>> /\ a.vdl = 3)
               /\ ~(a.runs[1].hole /\ a.vdl = 1)}

\* The data of another reparse point, in a file that has no cluster of its own.
Bare(as) ==
    {Volume(28 :> Base(FALSE, <<Info({"archive"}, 0), FileName(9, RootDir, <<"f">>)>> \o as),
            <<>>, 8 .. 12)}
MCDeduplicated == Bare(<<Data(0, <<Gap(3)>>, 6, 6), ReparsePoint("other", Bytes3)>>)

\* The valid data ends in a hole, three clusters long, after a cluster of the file.
MCEndsInHole == Bare(<<Data(0, <<Run(1, 10), Gap(3)>>, 8, 7)>>)

\* The valid data ends in the first sector of a cluster, the file in the second.
MCEndsInCluster == Bare(<<Data(0, <<Run(2, 10)>>, 8, 5)>>)

\* Characters and names.
MCWidth(c) == IF c = "long" THEN 3 ELSE IF c = "security.NTACL" THEN 2 ELSE 1
MCCrc(name) ==
    IF name[1] \in {"user.", "security.NTACL", "user.DOSATTRIB", "user.reparse",
                    "security.capability"} THEN name ELSE Len(name)
=============================================================================
