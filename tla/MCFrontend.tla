----------------------------- MODULE MCFrontend -----------------------------
(***************************************************************************)
(* Frontend on small repositories: documents and constants.                *)
(***************************************************************************)
EXTENDS Frontend

Str(s) == Scalar("str", s)
Strs(seq) == Listing([i \in DOMAIN seq |-> Str(seq[i])])

MCIdentifiers == {"a", "b", "c", "z", "arch", "os", "bogus"}
MCAxisOrder == <<"arch", "os">>
MCUsesOf == "actions/checkout@v4" :> <<"actions/checkout", "v4">> @@ "actions/chekout@v4" :> <<"actions/chekout", "v4">>
            @@ "org/setup@v1" :> <<"org/setup", "v1">> @@ "org/bundle@v1" :> <<"org/bundle", "v1">>
MCRegistry == "actions/checkout" :> {"token", "ref"}
MCNearest == {"actions/chekout"}
MCNegated == "!dev" :> "dev"
MCGlob == {<<"main", "main">>, <<"dev", "dev">>, <<"*", "main">>, <<"*", "dev">>}
MCSecretName == "${{ secrets.T }}" :> "T"
MCShortName == "actions/checkout" :> "checkout" @@ "org/setup@v1" :> "setup" @@ "org/bundle@v1" :> "bundle"
               @@ "make" :> "make"
MCActionMeta == "org/bundle@v1" :> [using |-> "composite",
                  steps |-> <<[run |-> <<"echo", "${{ inputs.x }}", "${{ inputs.y }}">>, uses |-> "", with |-> <<>>],
                              [run |-> <<>>, uses |-> "org/inner@v1", with |-> "y" :> <<"${{ inputs.x }}">>]>>]
MCInputOf == "${{ inputs.x }}" :> "x" @@ "${{ inputs.y }}" :> "y"

(* Jobs, steps and triggers as YAML. *)
Make == Mapping(<<<<"run", Str("make")>>>>)
JobDoc(id, needs, more) ==
  <<id, Mapping(<<<<"runs-on", Str("small")>>, <<"needs", Strs(needs)>>>> \o more)>>
Plainly == <<<<"steps", Listing(<<Make>>)>>>>
OnPush == Str("push")
OnCron(crons) == Mapping(<<<<"schedule", Listing([i \in DOMAIN crons |-> Mapping(<<<<"cron", Str(crons[i])>>>>)])>>>>)
File(on, jobs) == Mapping(<<<<"on", on>>, <<"jobs", Mapping(jobs)>>>>)

(* Every graph of three jobs, a fourth name being unknown. *)
Needs == {<<>>, <<"a">>, <<"b">>, <<"c">>, <<"a", "b">>, <<"c", "b">>, <<"c", "a">>}
Graphs3 == {File(OnPush, <<JobDoc("a", n, Plainly), JobDoc("b", m, Plainly), JobDoc("c", k, Plainly)>>) :
              n, m, k \in Needs}

Matrix(axes) == <<"strategy", Mapping(<<<<"matrix", Mapping(axes)>>>>)>>
Arch == <<"arch", Strs(<<"arm", "x86">>)>>
Os == <<"os", Strs(<<"linux", "mac">>)>>
Built == Listing(<<Mapping(<<<<"uses", Str("actions/checkout@v4")>>, <<"if", Scalar("bool", "true")>>,
                             <<"with", Mapping(<<<<"token", Str("${{ secrets.T }}")>>, <<"depth", Str("1")>>>>)>>>>),
                   Mapping(<<<<"uses", Str("org/bundle@v1")>>, <<"if", Str("always()")>>,
                             <<"with", Mapping(<<<<"x", Str("1")>>, <<"y", Str("${{ secrets.T }}")>>>>)>>>>),
                   Mapping(<<<<"uses", Str("org/setup@v1")>>, <<"if", Str("always()")>>>>),
                   Mapping(<<<<"run", Str("make")>>, <<"continue-on-error", Scalar("bool", "true")>>,
                             <<"env", Mapping(<<<<"K", Str("v")>>>>)>>>>)>>)
Typo == Listing(<<Mapping(<<<<"uses", Str("actions/chekout@v4")>>>>)>>)
Shapeless == Listing(<<Mapping(<<<<"uses", Str("checkout")>>>>)>>)

Special ==
  {File(Mapping(<<<<"push", t>>, <<"pull_request", Scalar("null", "")>>>>), jobs) :
     t \in {Scalar("null", ""), Mapping(<<<<"branches", Strs(<<"*", "!dev">>)>>>>),
            Mapping(<<<<"branches", Strs(<<"!dev">>)>>>>), Mapping(<<<<"branches-ignore", Strs(<<"main">>)>>>>)},
     jobs \in {<<JobDoc("a", <<>>, <<Matrix(<<Os, Arch>>), <<"steps", Built>>>>)>>,
               <<JobDoc("a", <<>>, <<Matrix(<<Os>>)>> \o Plainly), JobDoc("b", <<"a">>, Plainly)>>}}
  \cup {File(OnPush, jobs) :
     jobs \in {<<>>, <<JobDoc("a", <<"z">>, Plainly)>>, <<JobDoc("a", <<>>, <<>>)>>,
               <<JobDoc("a", <<>>, Plainly), JobDoc("a", <<>>, Plainly)>>,
               <<JobDoc("a", <<>>, <<Matrix(<<<<"os", Strs(<<>>)>>>>)>> \o Plainly)>>,
               <<JobDoc("a", <<>>, <<Matrix(<<<<"os", Strs(<<"mac", "mac">>)>>>>)>> \o Plainly)>>,
               <<JobDoc("a", <<>>, <<<<"steps", Typo>>>>)>>, <<JobDoc("a", <<>>, <<<<"steps", Shapeless>>>>)>>}}
  \cup {Mapping(<<<<"on", OnPush>>, <<"nightly", Str("yes")>>>>)}

Cron(crons) == File(OnCron(crons), <<JobDoc("a", <<>>, Plainly)>>)
BadCron(crons) == File(OnCron(crons), <<JobDoc("a", <<"z">>, Plainly)>>)

MCRepos == <<"r1", "r2">>
MCRepositories ==
  {("r1" :> <<doc>> @@ "r2" :> <<>>) : doc \in Graphs3 \cup Special}
  \cup {("r1" :> <<f>> @@ "r2" :> <<g>>) : f \in {Cron(<<"c1">>), BadCron(<<"c2">>)},
                                          g \in {Cron(<<"c1", "c2">>), Cron(<<"junk">>)}}

(* The documents, and the nodes in them, down to six levels. *)
Children(S) == UNION {Inside(v) : v \in S}
Level0 == {f[r][1] : <<f, r>> \in {p \in MCRepositories \X Range(MCRepos) : p[1][p[2]] # <<>>}}
Level1 == Children(Level0)
Level2 == Children(Level1)
Level3 == Children(Level2)
Level4 == Children(Level3)
Level5 == Children(Level4)
MCNodes == UNION {Level0, Level1, Level2, Level3, Level4, Level5, Children(Level5)}

MCFires == "c1" :> {2, 4} @@ "c2" :> {3, 5}

MCWebhooks == "w1" :> [name |-> "push", repo |-> "r1", branch |-> "main"]
              @@ "w2" :> [name |-> "push", repo |-> "r1", branch |-> "dev"]
              @@ "w3" :> [name |-> "pull_request", repo |-> "r1", branch |-> "main"]

=============================================================================
