---- MODULE MCYaffsParts ----
\* The structures that lead to data and describe it, each on its own: the run picks one
\* of them and then takes its steps only.
EXTENDS YaffsTnodes, YaffsXattr, YaffsSummary, YaffsTags, YaffsPaths, YaffsHeaders,
        YaffsStart

VARIABLE part

MCGeometries == {[width |-> 3, grp_bits |-> 0, places |-> 1 .. 4, tnodes |-> 6],
                 [width |-> 2, grp_bits |-> 1, places |-> 2 .. 5, tnodes |-> 9]}

MCXattrNames == {[name |-> "a", len |-> 1], [name |-> "b", len |-> 1], [name |-> "bc", len |-> 2]}
MCXattrValues == {[data |-> "u", len |-> 1], [data |-> "w", len |-> 3]}

Format(yaffs2, inband, no_ecc, order) ==
    [is_yaffs2 |-> yaffs2, inband_tags |-> inband, no_tags_ecc |-> no_ecc, stored_endian |-> order]
MCTagFormats == {Format(TRUE, FALSE, FALSE, "native"), Format(TRUE, FALSE, FALSE, "big"),
                 Format(TRUE, FALSE, TRUE, "little"), Format(TRUE, TRUE, FALSE, "big"),
                 Format(FALSE, FALSE, FALSE, "native")}

DataTags == [seq_number |-> {12, 3}, obj_id |-> {8, 0}, chunk_id |-> {0, 19, 27},
             n_bytes |-> {11}, extra_available |-> FALSE]
HdrTags(type, size) ==
    [seq_number |-> {12}, obj_id |-> {8, 1}, chunk_id |-> {}, n_bytes |-> {},
     extra_available |-> TRUE, extra_parent_id |-> {0, 17}, extra_is_shrink |-> type = FILE,
     extra_shadows |-> type # {1}, extra_obj_type |-> type, extra_file_size |-> size,
     extra_equiv_id |-> {8, 9}]
MCTags2 == {DataTags, HdrTags(FILE, {30, 0}), HdrTags(FILE, {31}), HdrTags(FILE, {32, 5}),
            HdrTags(HARDLINK, {}), HdrTags({0, 1}, {})}
MCTags1 == {[chunk_id |-> {0, 18}, serial_number |-> {1}, n_bytes |-> {9}, obj_id |-> {8, 16}],
            [chunk_id |-> {}, serial_number |-> {}, n_bytes |-> {3, 4}, obj_id |-> {8}]}
MCPageData == { <<{}, {<<0, 0>>}>>, <<{<<255, 7>>, <<3, 2>>}, {<<93, 5>>}>> }
MCPairBits ==
    {<<"tags", b>> : b \in {<<0, 3>>, <<11, 7>>}}
      \cup {<<"ecc", b>> : b \in {<<"col", 2>>, <<"prime", 0>>}}
      \cup {<<"status", 0>>, <<"tags1", 7>>}
      \cup {<<"data", 1, <<0, 0>> >>, <<"data", 1, <<255, 7>> >>, <<"ecc", 1, <<"line", 7>> >>}

\* "/n" and "/n/m" are devices; links point at a name, to another directory, to the top and
\* past their own directory.
MCMountPoints == << <<"n">>, <<"n", "m">> >>
Below(c) == <<"n">> \o c
Rel(c) == [abs |-> FALSE, c |-> c]
MCAliases == {Rel(<<"b", "a">>), [abs |-> TRUE, c |-> <<"n", "b">>], Rel(<<"..", "a", "">>)}
MCWalkPaths ==
    {Below(c) : c \in UNION {[1 .. k -> {"a", "b", "m", ".."}] : k \in 0 .. 2}}
      \cup {Below(c) : c \in {<<"a", "b", "a">>, <<"a", "a", "a">>, <<"b", "a", "b">>,
                              <<"b", "">>, <<"a", ".", "b">>, <<"a", "b", "">>, <<"a", "b", "a", "b", "a", "b">>}}
      \cup {<<"a">>, NullPath}
MCCallPaths == {Below(c) : c \in {<<>>, <<"a">>, <<"b">>, <<"a", "b">>, <<"b", "a">>, <<"m", "a">>}}

Up == [mounted |-> TRUE, read_only |-> FALSE]
Root(d) == Object("dir", d, NoObj, "")
In(d, dir, type, name) == Object(type, d, dir, name)
SymLink(d, dir, name, a) == [In(d, dir, "symlink", name) EXCEPT !.alias = a]
MCStarts ==
    {[obj |-> <<Root(1), Root(2)>>, dev |-> <<Up, Up>>],
     [obj |-> <<Root(1), Root(2), In(1, 1, "dir", "a"), In(1, 3, "file", "b"),
                SymLink(1, 1, "b", Rel(<<"a">>))>>,
      dev |-> <<Up, [Up EXCEPT !.read_only = TRUE]>>],
     [obj |-> <<Root(1), Root(2), In(2, 2, "dir", "a"),
                SymLink(1, 1, "a", [abs |-> TRUE, c |-> <<"n", "m", "a">>])>>,
      dev |-> <<Up, Up>>],
     [obj |-> <<Root(1), Root(2), In(1, 1, "dir", "a"), SymLink(1, 3, "a", Rel(<<"b">>)),
                SymLink(1, 3, "b", Rel(<<"..", "b">>)), SymLink(1, 1, "b", Rel(<<"a", "..", "a">>))>>,
      dev |-> <<Up, Up>>]}

HdrName(text, len, wide, sum) == [text |-> text, len |-> len, wide |-> wide, sum |-> sum]
MCHdrNames == {HdrName("a", 1, FALSE, 3), HdrName("A", 1, FALSE, 3), HdrName("s", 15, FALSE, 5),
               HdrName("l", 16, FALSE, 5), HdrName("w", 20, TRUE, 7), HdrName("x", 254, TRUE, 9),
               HdrName("y", 254, FALSE, 9), HdrName("z", 255, FALSE, 9)}
MCHdrAliases == {[text |-> "p", len |-> 1]}
MCHdrTimes == {<<0, 0>>, <<0, 5>>, <<1, 4>>, <<7, 6>>}

Device(yaffs2, inband, bytes, chunks, first, last, wide) ==
    [is_yaffs2 |-> yaffs2, inband |-> inband, bytes |-> bytes, chunks |-> chunks,
     start |-> first, end |-> last, reserved |-> 5, wide |-> wide, summary |-> bytes > 512]
MCDevParams == {Device(TRUE, FALSE, 2048, 64, 0, 1023, TRUE), Device(TRUE, TRUE, 2048, 64, 0, 4095, FALSE),
              Device(FALSE, FALSE, 512, 32, 0, 4095, TRUE), Device(FALSE, FALSE, 512, 32, 1, 8, TRUE),
              Device(TRUE, FALSE, 512, 32, 1, 8191, TRUE), Device(TRUE, TRUE, 512, 32, 0, 2046, TRUE),
              Device(TRUE, FALSE, 2048, 32, 0, 99999, FALSE)}

PartsInit ==
    /\ part \in {"tnodes", "xattr", "summary", "tags", "paths", "headers", "start"}
    /\ TnodeInit /\ XattrInit /\ SummaryInit /\ TagsInit /\ PathsInit /\ HeadersInit /\ StartInit
    /\ part # "tnodes" => dev.grp_bits = 0
    /\ part # "tags" => ~fmt.is_yaffs2
    /\ part # "paths" => \A s \in Starts : Cardinality(DOMAIN space.obj) <= Cardinality(DOMAIN s.obj)
    /\ part # "headers" => obj = Fresh(FALSE, FALSE) /\ unicode
    /\ part # "start" => ~param.wide /\ GroupFits(param)

PartsNext ==
    /\ UNCHANGED part
    /\ \/ /\ part = "tnodes" /\ TnodeNext
          /\ UNCHANGED <<xattrVars, summaryVars, tagsVars, pathVars, headerVars, startVars>>
       \/ /\ part = "xattr" /\ XattrNext
          /\ UNCHANGED <<tnodeVars, summaryVars, tagsVars, pathVars, headerVars, startVars>>
       \/ /\ part = "summary" /\ SummaryNext
          /\ UNCHANGED <<tnodeVars, xattrVars, tagsVars, pathVars, headerVars, startVars>>
       \/ /\ part = "tags" /\ TagsNext
          /\ UNCHANGED <<tnodeVars, xattrVars, summaryVars, pathVars, headerVars, startVars>>
       \/ /\ part = "paths" /\ PathsNext
          /\ UNCHANGED <<tnodeVars, xattrVars, summaryVars, tagsVars, headerVars, startVars>>
       \/ /\ part = "headers" /\ HeadersNext
          /\ UNCHANGED <<tnodeVars, xattrVars, summaryVars, tagsVars, pathVars, startVars>>
       \/ /\ part = "start" /\ StartNext
          /\ UNCHANGED <<tnodeVars, xattrVars, summaryVars, tagsVars, pathVars, headerVars>>

\* Calls by path find what the path means and do what they are for (CallsAnswer), asked where
\* the run takes paths for its part.
PathCallsAnswer == part = "paths" => CallsAnswer

\* What is written in tags (TagsTold) and in headers (HeadersTold) is what is read.
FormsTold == TagsTold /\ HeadersTold

PartsSpec == PartsInit /\ [][PartsNext]_<<part, tnodeVars, xattrVars, summaryVars, tagsVars, pathVars,
                              headerVars, startVars>>
====
