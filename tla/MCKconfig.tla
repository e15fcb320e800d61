----------------------------- MODULE MCKconfig -----------------------------
(***************************************************************************)
(* An instance of Kconfig: a few small trees, each about one kind of       *)
(* entry, with the calls that are made on it, and families of trees for    *)
(* the algebra of expressions and for recursive dependencies.              *)
(***************************************************************************)
EXTENDS KconfigLaws

On == ENull
Kconf(s, type) == <<<<"config", s>>, <<"type", type>>>>
Prompted(s, type) == Kconf(s, type) \o <<<<"prompt", On>>>>
Needs(e) == <<<<"depends", e>>>>
Block(head, kind, body) == head \o <<<<"block", kind>>>> \o body \o <<<<"end", kind>>>>
Tree(files, hash) == [files |-> files, main |-> "Kconfig", hash |-> hash, next |-> {}]
Alone(reductions, hash) == Tree([Kconfig |-> reductions], hash)

\* A module, what it needs and what it selects.
Modules == Prompted("MODULES", "bool") \o <<<<"option", "modules", "">>>>
Net == Prompted("NET", "tristate") \o <<<<"default", ESym("m"), On>>>>
Wifi == Prompted("WIFI", "tristate") \o Needs(ESym("NET")) \o <<<<"select", "CRC", On>>>>
Crc == Kconf("CRC", "tristate")

\* A choice whose second value needs FAST.
Choice(c, type, props, values) ==
    Block(<<<<"choice", c>>, <<"type", type>>, <<"prompt", On>>>> \o props, "choice", values)
Bus(more) == Choice("BUS", "bool", <<<<"default", ESym("SPI"), On>>>>,
    Prompted("I2C", "bool") \o Prompted("SPI", "bool") \o Needs(ESym("FAST")) \o more)
Fast == Prompted("FAST", "bool")

\* A choice of which several values can be modules.
Drv == Choice("DRV", "tristate", <<>>, Prompted("DA", "tristate") \o Prompted("DB", "tristate"))

\* Numbers, with a range that another number gives.
Top == Prompted("TOP", "int") \o <<<<"default", ESym("3"), On>>>>
Depth == Prompted("DEPTH", "int")
         \o <<<<"range", "1", "TOP", On>>, <<"default", ESym("2"), On>>>>

\* A value from the environment, a hexadecimal number, a comparison.
Arch == Kconf("ARCH", "string") \o <<<<"option", "env", "arm">>>>
Base == Prompted("BASE", "hex") \o <<<<"default", ESym("0x1"), ECmp("=", "ARCH", "arm")>>>>
High == <<<<"config", "HIGH">>, <<"def_type", "bool", ESym("y"), ECmp(">", "BASE", "0x1")>>>>

\* A presetting that is found when there is no .config.
Preset == Kconf("LIST", "string")
    \o <<<<"option", "defconfig_list", "">>, <<"default", ESym("defconfig"), On>>>>

\* Values without a prompt, and what an update makes of them: a string and a
\* number that are gone, a number that is a bool now, a string that the
\* environment gives.
Fixed(s, type, value) == <<<<"config", s>>, <<"def_type", type, ESym(value), On>>>>
Words == Fixed("NAME", "string", "arm") \o Fixed("TOP", "int", "3") \o Fixed("SIZE", "int", "3")
         \o Fixed("ARCH", "string", "arm")
Words2 == Kconf("SIZE", "bool") \o Arch

\* A menu that is visible with FAST, with an entry that opens a menu of its
\* own, in two files.
Menu == [Kconfig |-> Fast \o <<<<"source", "more">>>>,
         more |-> Block(<<<<"menu">>, <<"visible", ESym("FAST")>>>>, "menu",
                        Prompted("SOC", "bool") \o <<<<"menuconfig_end">>>>
                        \o Block(<<<<"if", ESym("SOC")>>>>, "if", Prompted("DMA", "bool"))
                        \o <<<<"comment">>>> \o Needs(ENot(ESym("SOC"))))]

\* Entries enough to scroll.
Long == FlattenSeq([i \in 1..6 |-> Prompted(<<"P1", "P2", "P3", "P4", "P5", "P6">>[i], "bool")])

Named ==
    [modules |-> Alone(Modules \o Net \o Wifi \o Crc, <<"WIFI", "CRC", "NET", "MODULES">>),
     choice |-> [Alone(Fast \o Bus(<<>>), <<"SPI", "BUS", "FAST", "I2C">>) EXCEPT !.next = {<<"choice2", 0>>}],
     choice2 |-> Alone(Fast \o Bus(Prompted("CAN", "bool")), <<"SPI", "BUS", "FAST", "I2C", "CAN">>),
     drivers |-> Alone(Modules \o Drv, <<"DA", "DRV", "MODULES", "DB">>),
     numbers |-> Alone(Top \o Depth, <<"DEPTH", "TOP">>),
     values |-> Alone(Arch \o Base \o High, <<"HIGH", "ARCH", "BASE">>),
     words |-> [Alone(Words, <<"NAME", "TOP", "SIZE", "ARCH">>) EXCEPT !.next = {<<"words2", 0>>}],
     words2 |-> Alone(Words2, <<"SIZE", "ARCH">>),
     preset |-> Alone(Preset \o Fast \o Bus(<<>>), <<"LIST", "SPI", "BUS", "FAST", "I2C">>),
     menu |-> Tree(Menu, <<"DMA", "FAST", "SOC">>),
     search |-> Tree(Menu, <<"DMA", "FAST", "SOC">>),
     field |-> Alone(Top, <<"TOP">>),
     files |-> Alone(Fast, <<"FAST">>),
     long |-> Alone(Long, <<"P1", "P2", "P3", "P4", "P5", "P6">>),
     circle |-> Tree([Kconfig |-> <<<<"source", "more">>>>,
                      more |-> Fast \o <<<<"source", "Kconfig">>>>], <<"FAST">>)]

\* Two terms about one symbol, joined, under the condition of an if: the
\* conditions of comments and of many prompts of a boolean.
Atoms == <<ESym("T"), ENot(ESym("T")), ESym("B"), ENot(ESym("B")), ESym("m")>>
         \o FlattenSeq([i \in 1..3 |-> LET c == <<"y", "m", "n">>[i]
              IN <<ECmp("=", "T", c), ECmp("!=", "T", c), ECmp("=", "B", c), ECmp("!=", "B", c)>>])
Comment(e) == <<<<"comment">>>> \o Needs(e)
Again(e) == <<<<"config", "D">>, <<"prompt", On>>>> \o Needs(e)
Algebra(a, bs) ==
    LET Joined(b) == Comment(ETwo("and", a, b)) \o Comment(ETwo("or", a, b))
                     \o Again(ENot(ETwo("and", a, b))) \o Again(ETwo("or", b, a))
    IN Alone(Modules \o Prompted("T", "tristate") \o Prompted("B", "bool")
             \o Block(<<<<"if", ETwo("or", a, ESym("MODULES"))>>>>, "if",
                      Kconf("D", "bool") \o FlattenSeq([i \in DOMAIN bs |-> Joined(bs[i])])),
             <<"T", "B", "D", "MODULES">>)

\* Three symbols, each with a dependency, a default or a select to one of
\* them, or to none.
Linked(s, kind, to) ==
    Prompted(s, "bool") \o
    CASE to = NoSym -> <<>>
      [] kind = "depends" -> Needs(ESym(to))
      [] kind = "default" -> <<<<"default", ESym(to), On>>>>
      [] OTHER -> <<<<kind, to, On>>>>
Target(i, j) == <<NoSym, "A", "B", "C">>[((i \div (4 ^ j)) % 4) + 1]
LinkKinds == <<"depends", "select", "default", "depends">>
Linking(i, k) == Alone(FlattenSeq([j \in 1..3 |->
    Linked(<<"A", "B", "C">>[j], LinkKinds[k + (j % 2)], Target(i, j - 1))]), <<"B", "C", "A">>)

\* A tree is named by a word and a number, which is 0 but in the families.
MCSources ==
    [t \in ((DOMAIN Named) \X {0}) \cup ({"algebra"} \X (0..50)) \cup ({"link"} \X (0..191)) |->
        CASE t[1] = "algebra" -> Algebra(Atoms[(t[2] \div 3) + 1], SubSeq(Atoms, 6 * (t[2] % 3) + 1, Smaller(6 * (t[2] % 3) + 6, 17)))
          [] t[1] = "link" -> Linking(t[2] \div 3, (t[2] % 3) + 1)
          [] OTHER -> Named[t[1]]]
ByTree(named, default) ==
    [t \in DOMAIN MCSources |-> IF t[1] \in DOMAIN named THEN named[t[1]] ELSE default]

\* The calls of conf.
Call(mode) == [mode |-> mode, file |-> NoFile, seed |-> NoFile, tty |-> TRUE, explicit |-> FALSE]
With(mode, file) == [Call(mode) EXCEPT !.file = file]
Olds == {Call("oldconfig"), Call("silentoldconfig"), Call("olddefconfig")}
Alls == {Call(m) : m \in {"allyesconfig", "allmodconfig", "allnoconfig", "alldefconfig"}}
MCStarts == ByTree(
    [modules |-> Olds \cup Alls \cup {Call("randconfig")},
     choice |-> Olds \cup {Call("oldaskconfig"), Call("listnewconfig"), Call("randconfig"),
                           [Call("silentoldconfig") EXCEPT !.tty = FALSE],
                           [Call("silentoldconfig") EXCEPT !.explicit = TRUE]},
     choice2 |-> Olds,
     drivers |-> Olds \cup Alls \cup {With("savedefconfig", "alt"), With("defconfig", "alt")},
     numbers |-> Olds,
     values |-> Olds, words |-> Olds, words2 |-> Olds,
     preset |-> Olds \cup {With("savedefconfig", "alt"), [Call("allnoconfig") EXCEPT !.seed = "defconfig"],
                           [Call("allyesconfig") EXCEPT !.seed = "alt"]},
     menu |-> Olds, circle |-> Olds], {})

\* Files that are there before: nothing, a file edited by hand.
Y(s) == <<s, "y", FALSE>>
N(s) == <<s, Unset, FALSE>>
Config(lines) == ".config" :> lines
MCDisks == ByTree(
    [preset |-> {"defconfig" :> <<Y("FAST")>>},
     words |-> {Config(<<>>)},
     choice |-> {<<>>, Config(<<N("FAST"), Y("I2C"), Y("SPI"), Y("OLD")>>)},
     modules |-> {<<>>, Config(<<Y("MODULES"), <<"NET", "m", FALSE>>, Y("WIFI"), <<"CRC", "2", FALSE>>>>)}],
    {<<>>})

MCMenus == ByTree(
    [menu |-> {FALSE, TRUE}]
    @@ [t \in {"search", "long", "choice", "drivers", "field", "files"} |-> {FALSE}], {})
Chooses(bools, tris, values) ==
    {[tri |-> b @@ t, value |-> v] : b \in bools, t \in tris, v \in values}
MCPicks == ByTree(
    [modules |-> Chooses([{"MODULES"} -> {No, Yes}], {[s \in {"NET", "WIFI", "CRC"} |-> v] : v \in Tristate}, {<<>>}),
     choice |-> Chooses([{"FAST", "BUS"} -> {No, Yes}], [{"I2C", "SPI"} -> {No}],
                        [{"BUS"} -> {"I2C", "SPI"}])], {})
MCKeysOf == ByTree(
    [menu |-> [menu |-> {"down", "enter", "y", "z", "esc"}, text |-> {"esc"}, yesno |-> {"y", "n"}],
     search |-> [menu |-> {"down", "enter", "y", "/", "esc"}, yesno |-> {"n", "right", "esc", "enter"},
                 input |-> {"enter", "esc", "tab"}, text |-> {"esc", "down", "up", "end", "1"}],
     long |-> [menu |-> {"down", "up", "pgdn", "pgup", "resize", "esc"}, yesno |-> {"n"}],
     choice |-> [menu |-> {"down", "enter", " ", "esc"}, yesno |-> {"y", "n"},
                 list |-> {"down", "up", "enter", "tab", "?", "resize"}, text |-> {"esc"}],
     drivers |-> [menu |-> {"down", "m", "y", "enter", "esc"}, yesno |-> {"y"},
                  list |-> {"down", "enter"}, text |-> {"esc"}],
     field |-> [menu |-> {"enter", "esc"}, yesno |-> {"y", "n"}, text |-> {"esc"},
                input |-> {"1", "9", "backspace", "left", "right", "enter", "esc"}],
     files |-> [menu |-> {"y", "left", "enter"}, yesno |-> {"y", "n", "esc"}, text |-> {"esc"},
                input |-> {"alt", "backspace", "enter"}]],
    [menu |-> {}])
MCHotkeys == [NET |-> "n"]
MCHeights == {10, 17, 20}
MCTexts == {"", "1", "2", "3", "9", "0x1", "0x2", "0x3", "0x9", "arm", "defconfig", ".config", "alt"}
Num(n, prefixed, chars) == [dec |-> n, hex |-> n, auto |-> n, isInt |-> TRUE, isHex |-> TRUE,
                            prefixed |-> prefixed, rank |-> n, chars |-> chars]
Hex(n, t, rank) == [dec |-> NotNumber, hex |-> n, auto |-> n, isInt |-> FALSE, isHex |-> TRUE,
                    prefixed |-> t, rank |-> rank, chars |-> <<t>>]
Word(chars, rank) == [dec |-> NotNumber, hex |-> NotNumber, auto |-> NotNumber, isInt |-> FALSE,
                      isHex |-> FALSE, prefixed |-> "", rank |-> rank, chars |-> chars]
MCText == ("" :> Word(<<>>, 0)) @@ ("1" :> Num(1, "0x1", <<"1">>)) @@ ("2" :> Num(2, "0x2", <<"2">>))
          @@ ("3" :> Num(3, "0x3", <<"3">>)) @@ ("9" :> Num(9, "0x9", <<"9">>))
          @@ ("0x1" :> Hex(1, "0x1", 4)) @@ ("0x2" :> Hex(2, "0x2", 5))
          @@ ("0x3" :> Hex(3, "0x3", 6)) @@ ("0x9" :> Hex(9, "0x9", 7))
          @@ (".config" :> Word(<<".config">>, 10)) @@ ("alt" :> Word(<<"alt">>, 11))
          @@ ("arm" :> Word(<<"arm">>, 12)) @@ ("defconfig" :> Word(<<"defconfig">>, 13))
MCLiterals == {"1", "2", "3", "9", "0x1", "0x2", "arm", "defconfig"}

\* The functions the programs call.  Each is given through a LET: TLC collects
\* its statistics for every path of calls on which it finds a definition, and
\* does not enter these.
MCTrees == LET r == [t \in DOMAIN MCSources |-> TreeOf(t)] IN r
MC_conf_main(db, files, s) == LET r == Main(db, files, s) IN r
MC_conf_answer(db, c, a) == LET r == Answered(db, c, a) IN r
MC_mconf_main(db, files, single) == LET r == Mconf(db, files, single) IN r
MC_mconf_key(db, u, key, height, files, found) == LET r == Press(db, u, key, height, files, found) IN r
MC_mconf_signal(db, u, files) == LET r == Interrupt(db, u, files) IN r
MC_mconf_written(db, u, ok, files) == LET r == AfterWrite(db, u, ok, files) IN r
MC_conf_read(db, st, files, name) == LET r == ConfRead(db, st, files, name) IN r
MC_conf_write(db, st) == LET r == WriteConfig(db, st) IN r
MC_conf_write_defconfig(db, st) == LET r == WriteDefconfig(db, st) IN r
MC_conf_split_config(db, st, there, lines) == LET r == SplitConfig(db, st, there, lines) IN r
MC_conf_write_autoconf(db, st) == LET r == WriteAuto(db, st) IN r
MC_sym_calc_value(db, st, s) == LET r == CalcValue(db, st, s) IN r
=============================================================================
