--------------------------- MODULE PeerFormProofs ---------------------------
(***************************************************************************)
(* Theorems about PeerForm, LEA's page of a peer, whatever is typed into   *)
(* it and was stored before: first what the conversions keep, part by      *)
(* part, for form, descriptor and message (PagePeerSaved,                  *)
(* PagePeerRoundTrip, PagePeerShown); then the invariant, of the page      *)
(* (PageInv) and of what CARL knows of it (CarlInv), with a lemma for each *)
(* action.                                                                 *)
(***************************************************************************)
EXTENDS PeerForm, WellFoundedInduction, TLAPS

-----------------------------------------------------------------------------
(* Texts.                                                                  *)

\* A text is empty only if it is Empty; what becomes of it as an optional one.
LEMMA PageTexts ==
    ASSUME NEW t \in Text
    PROVE  /\ IsEmpty(t) <=> t = Empty
           /\ NoneIfEmpty(t) \in Optional /\ OrEmpty(t) = t
           /\ OrEmpty(NoneIfEmpty(t)) = t
           /\ t # None
  BY NoneIsNoValue DEF Text, IsEmpty, Empty, NoneIfEmpty, OrEmpty, Optional

\* The empty text is one.
LEMMA PageEmpty == Empty \in Text
  BY DEF Empty, Text, CharClass

\* A text or none, as messages have it.
LEMMA PageOptional ==
    ASSUME NEW t \in Optional
    PROVE  /\ OrEmpty(t) \in Text
           /\ NoneIfEmpty(OrEmpty(t)) \in Optional
           /\ OrEmpty(NoneIfEmpty(OrEmpty(t))) = OrEmpty(t)
           /\ t \in Text \/ t = None
  BY PageTexts, PageEmpty DEF Optional, OrEmpty

\* A URL is printed once.
LEMMA PagePrinted ==
    ASSUME NEW t \in Text
    PROVE  /\ Printed(t) \in Text
           /\ Printed(Printed(t)) = Printed(t)
           /\ ResultsUrl(t) => ResultsUrl(Printed(t)) /\ ~IsEmpty(t)
                                     /\ ~IsEmpty(Printed(t))
           /\ IsEmpty(t) => Printed(t) = t
  BY DEF Text, CharClass, Printed, ResultsUrl, IsEmpty

-----------------------------------------------------------------------------
(* Executors.                                                              *)

\* What messages tell of an executor.
LEMMA PageExecutorMessage ==
    ASSUME NEW e \in Executor, e.image # None
    PROVE  ExecutorToProto(e) =
             [engine |-> e.engine, name |-> OrEmpty(e.name), image |-> e.image,
              command |-> OrEmpty(e.command), results |-> e.results,
              lists |-> e.lists, envs |-> e.envs]
  BY DEF ExecutorToProto, Executor

\* What is read of such a message.
LEMMA PageExecutorRead ==
    ASSUME NEW e \in Executor, e.image # None
    PROVE  ExecutorFromProto(e) =
             [engine |-> e.engine, name |-> NoneIfEmpty(e.name), image |-> e.image,
              command |-> NoneIfEmpty(e.command), results |-> e.results,
              lists |-> e.lists, envs |-> e.envs]
  BY DEF ExecutorFromProto, Executor

\* An Executable is its own message.
LEMMA PageExecutable ==
    ASSUME NEW e \in Executor, e.image = None
    PROVE  ExecutorToProto(e) = e /\ ExecutorFromProto(e) = e
  BY DEF ExecutorToProto, ExecutorFromProto

\* An executor is read back from its message as one with the same message.
LEMMA PageExecutorRoundTrip ==
    ASSUME NEW e \in Executor
    PROVE  LET p == ExecutorToProto(e)
               q == ExecutorFromProto(p)
           IN  /\ p \in Executor /\ q \in Executor
               /\ ExecutorToProto(q) = p
               /\ p.image = e.image /\ q.image = e.image
               /\ p.results = e.results /\ q.results = e.results
  <1> DEFINE p == ExecutorToProto(e)
             q == ExecutorFromProto(p)
  <1>1. CASE e.image = None
    BY <1>1, PageExecutable
  <1>2. CASE e.image # None
    <2>1. /\ p = [engine |-> e.engine, name |-> OrEmpty(e.name), image |-> e.image,
                  command |-> OrEmpty(e.command), results |-> e.results,
                  lists |-> e.lists, envs |-> e.envs]
      BY <1>2, PageExecutorMessage
    <2>2. /\ e.name \in Optional /\ e.command \in Optional
          /\ OrEmpty(e.name) \in Text /\ OrEmpty(e.command) \in Text
      BY PageOptional DEF Executor
    <2>3. p \in Executor /\ p.image # None
      BY <1>2, <2>1, <2>2 DEF Executor, Optional
    <2> HIDE DEF p
    <2>4. q = [engine |-> p.engine, name |-> NoneIfEmpty(p.name), image |-> p.image,
               command |-> NoneIfEmpty(p.command), results |-> p.results,
               lists |-> p.lists, envs |-> p.envs]
      BY <2>3, PageExecutorRead
    <2>5. /\ p.name = OrEmpty(e.name) /\ p.command = OrEmpty(e.command)
          /\ p.image = e.image /\ p.results = e.results
      BY <2>1
    <2>6. /\ NoneIfEmpty(p.name) \in Optional
          /\ NoneIfEmpty(p.command) \in Optional
          /\ OrEmpty(NoneIfEmpty(p.name)) = p.name
          /\ OrEmpty(NoneIfEmpty(p.command)) = p.command
      BY <2>2, <2>5, PageTexts
    <2>7. q \in Executor /\ q.image # None
      BY <2>3, <2>4, <2>6 DEF Executor
    <2> HIDE DEF q
    <2>8. ExecutorToProto(q) =
            [engine |-> q.engine, name |-> OrEmpty(q.name), image |-> q.image,
             command |-> OrEmpty(q.command), results |-> q.results,
             lists |-> q.lists, envs |-> q.envs]
      BY <2>7, PageExecutorMessage
    <2>9. ExecutorToProto(q) = p
      BY <2>3, <2>4, <2>6, <2>8 DEF Executor
    <2> QED
      BY <2>3, <2>4, <2>5, <2>7, <2>9 DEF p, q
  <1> QED
    BY <1>1, <1>2

\* Of an executor that is a container the form shows what its message tells.
LEMMA PageExecutorShownByMessage ==
    ASSUME NEW e \in Executor, NEW q \in Executor,
           e.image # None, q.image # None,
           ExecutorToProto(e) = ExecutorToProto(q)
    PROVE  ShowsExecutor(e) = ShowsExecutor(q)
  <1>1. /\ e.engine = q.engine /\ OrEmpty(e.name) = OrEmpty(q.name)
        /\ e.image = q.image /\ OrEmpty(e.command) = OrEmpty(q.command)
        /\ e.results = q.results /\ e.lists = q.lists /\ e.envs = q.envs
    BY PageExecutorMessage
  <1> QED
    BY <1>1 DEF ShowsExecutor

\* The entries of a list.
LEMMA PageEntries ==
    ASSUME NEW S, NEW s \in Seq(S)
    PROVE  DOMAIN s = 1..Len(s) /\ \A n \in 1..Len(s) : s[n] \in S
  OBVIOUS

\* An input, an environment variable: shown and typed.
LEMMA PageRightInput ==
    ASSUME NEW i \in Input
    PROVE  i.text \in Text /\ (IsRight(i) => Right(i.text) = i)
  BY DEF Right, Input, IsRight

\* A text that is shown is a right input.
LEMMA PageRightText ==
    ASSUME NEW t \in Text
    PROVE  /\ Right(t) \in Input /\ Right(t).text = t
           /\ IsRight(Right(t)) /\ HasText(Right(t))
  BY DEF Right, Input, IsRight, HasText

\* An environment variable that is shown.
LEMMA PageShownEnv ==
    ASSUME NEW env \in [name : Text, value : Text]
    PROVE  /\ ShowsEnv(env) \in [name : Input, value : Text]
           /\ EnvOf(ShowsEnv(env)) = env
  BY PageRightText DEF ShowsEnv, EnvOf

\* An environment variable that was typed.
LEMMA PageTypedEnv ==
    ASSUME NEW env \in [name : Input, value : Text], IsRight(env.name)
    PROVE  /\ EnvOf(env) \in [name : Text, value : Text]
           /\ ShowsEnv(EnvOf(env)) = env
  BY PageRightInput DEF ShowsEnv, EnvOf

\* Lists of texts, as inputs and back.
LEMMA PageShownTexts ==
    ASSUME NEW s \in Seq(Text)
    PROVE  /\ Each(s, Right) \in Seq(Input)
           /\ DOMAIN Each(s, Right) = DOMAIN s
           /\ \A n \in DOMAIN s : Each(s, Right)[n] = Right(s[n])
           /\ Each(Each(s, Right), TextOf) = s
  <1> DEFINE r == Each(s, Right)
  <1>1. r = [n \in 1..Len(s) |-> Right(s[n])]
    BY DEF Each
  <1>2. \A n \in 1..Len(s) : Right(s[n]) \in Input /\ Right(s[n]).text = s[n]
    <2>1. \A n \in 1..Len(s) : s[n] \in Text
      OBVIOUS
    <2> QED
      BY <2>1, PageRightText
  <1>3. r \in Seq(Input) /\ DOMAIN r = DOMAIN s
    BY <1>1, <1>2
  <1>4. \A n \in DOMAIN s : r[n] = Right(s[n])
    BY <1>1
  <1>5. Each(r, TextOf) = [n \in DOMAIN r |-> r[n].text]
    BY DEF Each, TextOf
  <1> HIDE DEF r
  <1>6. \A n \in DOMAIN s : r[n].text = s[n]
    BY <1>2, <1>4
  <1>7. Each(r, TextOf) = s
    BY <1>3, <1>5, <1>6
  <1> QED
    BY <1>3, <1>4, <1>7 DEF r

\* A list of right inputs is what is shown of its texts.
LEMMA PageTypedTexts ==
    ASSUME NEW s \in Seq(Input), \A n \in DOMAIN s : IsRight(s[n])
    PROVE  /\ Each(s, TextOf) \in Seq(Text)
           /\ DOMAIN Each(s, TextOf) = DOMAIN s
           /\ \A n \in DOMAIN s : Each(s, TextOf)[n] = s[n].text
           /\ Each(Each(s, TextOf), Right) = s
  <1> DEFINE r == Each(s, TextOf)
  <1>1. r = [n \in 1..Len(s) |-> s[n].text]
    BY DEF Each, TextOf
  <1>2. \A n \in 1..Len(s) : s[n].text \in Text /\ Right(s[n].text) = s[n]
    <2>1. \A n \in 1..Len(s) : s[n] \in Input /\ IsRight(s[n])
      OBVIOUS
    <2> QED
      BY <2>1, PageRightInput
  <1>3. r \in Seq(Text) /\ DOMAIN r = DOMAIN s
    BY <1>1, <1>2
  <1>4. \A n \in DOMAIN s : r[n] = s[n].text
    BY <1>1
  <1>5. Each(r, Right) = [n \in DOMAIN r |-> Right(r[n])]
    BY DEF Each
  <1> HIDE DEF r
  <1>6. Each(r, Right) = s
    BY <1>2, <1>3, <1>4, <1>5
  <1> QED
    BY <1>3, <1>4, <1>6 DEF r

\* Environment variables, as inputs and back.
LEMMA PageShownEnvs ==
    ASSUME NEW s \in Seq([name : Text, value : Text])
    PROVE  /\ Each(s, ShowsEnv) \in Seq([name : Input, value : Text])
           /\ DOMAIN Each(s, ShowsEnv) = DOMAIN s
           /\ \A n \in DOMAIN s : Each(s, ShowsEnv)[n] = ShowsEnv(s[n])
           /\ Each(Each(s, ShowsEnv), EnvOf) = s
  <1> DEFINE r == Each(s, ShowsEnv)
  <1>1. r = [n \in 1..Len(s) |-> ShowsEnv(s[n])]
    BY DEF Each
  <1>2. \A n \in 1..Len(s) : /\ ShowsEnv(s[n]) \in [name : Input, value : Text]
                             /\ EnvOf(ShowsEnv(s[n])) = s[n]
    <2>1. \A n \in 1..Len(s) : s[n] \in [name : Text, value : Text]
      BY PageEntries
    <2> QED
      BY <2>1, PageShownEnv
  <1>3. r \in Seq([name : Input, value : Text]) /\ DOMAIN r = DOMAIN s
    BY <1>1, <1>2
  <1>4. \A n \in DOMAIN s : r[n] = ShowsEnv(s[n])
    BY <1>1
  <1>5. Each(r, EnvOf) = [n \in DOMAIN r |-> EnvOf(r[n])]
    BY DEF Each
  <1> HIDE DEF r
  <1>6. Each(r, EnvOf) = s
    BY <1>2, <1>3, <1>4, <1>5
  <1> QED
    BY <1>3, <1>4, <1>6 DEF r

\* Environment variables with right names are what is shown of them.
LEMMA PageTypedEnvs ==
    ASSUME NEW s \in Seq([name : Input, value : Text]),
           \A n \in DOMAIN s : IsRight(s[n].name)
    PROVE  /\ Each(s, EnvOf) \in Seq([name : Text, value : Text])
           /\ DOMAIN Each(s, EnvOf) = DOMAIN s
           /\ \A n \in DOMAIN s : Each(s, EnvOf)[n] = EnvOf(s[n])
           /\ Each(Each(s, EnvOf), ShowsEnv) = s
  <1> DEFINE r == Each(s, EnvOf)
  <1>1. r = [n \in 1..Len(s) |-> EnvOf(s[n])]
    BY DEF Each
  <1>2. \A n \in 1..Len(s) : /\ EnvOf(s[n]) \in [name : Text, value : Text]
                             /\ ShowsEnv(EnvOf(s[n])) = s[n]
    <2>1. \A n \in 1..Len(s) : s[n] \in [name : Input, value : Text]
      BY PageEntries
    <2>2. \A n \in 1..Len(s) : IsRight(s[n].name)
      BY PageEntries
    <2> QED
      BY <2>1, <2>2, PageTypedEnv
  <1>3. r \in Seq([name : Text, value : Text]) /\ DOMAIN r = DOMAIN s
    BY <1>1, <1>2
  <1>4. \A n \in DOMAIN s : r[n] = EnvOf(s[n])
    BY <1>1
  <1>5. Each(r, ShowsEnv) = [n \in DOMAIN r |-> ShowsEnv(r[n])]
    BY DEF Each
  <1> HIDE DEF r
  <1>6. Each(r, ShowsEnv) = s
    BY <1>2, <1>3, <1>4, <1>5
  <1> QED
    BY <1>3, <1>4, <1>6 DEF r

\* A container as it may be in a descriptor, and in a form that is saved.
DescribedContainer(e) ==
    /\ e \in Executor /\ e.image # None
    /\ ExecutorAccepted(ExecutorToProto(e))
    /\ e.results # None => Printed(e.results) = e.results

SavableContainer(f) ==
    /\ f \in ExecutorForm /\ ValidatedExecutor(f)
    /\ ValidExecutor(f) /\ ExecutorConverts(f)

\* A container that was described is shown as one that can be saved.
LEMMA PageContainerShown ==
    ASSUME NEW e, DescribedContainer(e)
    PROVE  SavableContainer(ShowsExecutor(e))
  <1> DEFINE f == ShowsExecutor(e)
             p == ExecutorToProto(e)
  <1>1. /\ e \in Executor /\ e.image # None
        /\ ExecutorAccepted(p)
        /\ e.results # None => Printed(e.results) = e.results
    BY DEF DescribedContainer
  <1>2. /\ e.engine \in {"Docker", "Podman"} /\ e.name \in Optional
        /\ e.image \in Optional /\ e.command \in Optional
        /\ e.results \in Optional /\ e.lists \in [VectorFields -> Seq(Text)]
    BY <1>1 DEF Executor
  <1>3. e.envs \in Seq([name : Text, value : Text])
    BY <1>1 DEF Executor
  <1>4. /\ OrEmpty(e.name) \in Text /\ e.image \in Text
        /\ OrEmpty(e.command) \in Text /\ OrEmpty(e.results) \in Text
    BY <1>1, <1>2, PageOptional
  <1>5. /\ ContainerName(OrEmpty(e.name)) /\ ContainerImage(e.image)
        /\ \A list \in VectorFields : \A n \in DOMAIN e.lists[list] :
               ContainerText(list, e.lists[list][n])
        /\ \A n \in DOMAIN e.envs : EnvAccepted(e.envs[n])
        /\ ContainerCommand(OrEmpty(e.command))
        /\ e.results # None => ResultsUrl(e.results)
    <2>1. /\ p.name = OrEmpty(e.name) /\ p.command = OrEmpty(e.command)
          /\ p.image = e.image /\ p.results = e.results /\ p.lists = e.lists
          /\ p.envs = e.envs
      BY <1>1, PageExecutorMessage
    <2>2. ContainerAccepted(p) /\ (p.results # None => ResultsUrl(p.results))
      BY <1>1, <2>1 DEF ExecutorAccepted
    <2> HIDE DEF p
    <2> QED
      BY <2>1, <2>2 DEF ContainerAccepted, All
  <1>6. /\ f.engine = e.engine /\ f.name = Right(OrEmpty(e.name))
        /\ f.image = Right(e.image) /\ f.command = Right(OrEmpty(e.command))
        /\ f.results = Right(OrEmpty(e.results))
        /\ f.lists = [list \in VectorFields |-> Each(e.lists[list], Right)]
        /\ f.envs = Each(e.envs, ShowsEnv)
    <2> DEFINE lists == [list \in VectorFields |-> Each(e.lists[list], Right)]
               envs == Each(e.envs, ShowsEnv)
    <2>1. f = [engine |-> e.engine, name |-> Right(OrEmpty(e.name)),
               image |-> Right(e.image), command |-> Right(OrEmpty(e.command)),
               results |-> Right(OrEmpty(e.results)), lists |-> lists,
               envs |-> envs]
      BY DEF ShowsExecutor
    <2> HIDE DEF f, lists, envs
    <2>2. /\ f.engine = e.engine /\ f.name = Right(OrEmpty(e.name))
          /\ f.image = Right(e.image) /\ f.command = Right(OrEmpty(e.command))
          /\ f.results = Right(OrEmpty(e.results))
          /\ f.lists = lists /\ f.envs = envs
      BY <2>1
    <2> QED
      BY <2>2 DEF lists, envs
  <1>7. \A list \in VectorFields :
          /\ f.lists[list] \in Seq(Input)
          /\ DOMAIN f.lists[list] = DOMAIN e.lists[list]
          /\ \A n \in DOMAIN e.lists[list] : f.lists[list][n] = Right(e.lists[list][n])
    <2> SUFFICES ASSUME NEW list \in VectorFields
                 PROVE  /\ f.lists[list] \in Seq(Input)
                        /\ DOMAIN f.lists[list] = DOMAIN e.lists[list]
                        /\ \A n \in DOMAIN e.lists[list] :
                              f.lists[list][n] = Right(e.lists[list][n])
      OBVIOUS
    <2>1. e.lists[list] \in Seq(Text) /\ f.lists[list] = Each(e.lists[list], Right)
      BY <1>2, <1>6
    <2> HIDE DEF f
    <2> QED
      BY <2>1, PageShownTexts
  <1>8. /\ f.envs \in Seq([name : Input, value : Text])
        /\ DOMAIN f.envs = DOMAIN e.envs
        /\ \A n \in DOMAIN e.envs : f.envs[n] = ShowsEnv(e.envs[n])
    BY <1>3, <1>6, PageShownEnvs
  <1>9. f \in ExecutorForm
    <2>1. f = [engine |-> f.engine, name |-> f.name, image |-> f.image,
               command |-> f.command, results |-> f.results, lists |-> f.lists,
               envs |-> f.envs]
      BY DEF ShowsExecutor
    <2>2. /\ f.engine \in {"Docker", "Podman"} /\ f.name \in Input
          /\ f.image \in Input /\ f.command \in Input /\ f.results \in Input
      BY <1>2, <1>4, <1>6, PageRightText
    <2>3. f.lists \in [VectorFields -> Seq(Input)]
      BY <1>6, <1>7
    <2> HIDE DEF f
    <2> QED
      BY <2>1, <2>2, <2>3, <1>8 DEF ExecutorForm
  <1> HIDE DEF f
  <1>10. \A list \in VectorFields : \A n \in DOMAIN f.lists[list] :
           /\ IsRight(f.lists[list][n]) /\ HasText(f.lists[list][n])
           /\ ContainerText(list, f.lists[list][n].text)
    <2> SUFFICES ASSUME NEW list \in VectorFields, NEW n \in DOMAIN f.lists[list]
                 PROVE  /\ IsRight(f.lists[list][n]) /\ HasText(f.lists[list][n])
                        /\ ContainerText(list, f.lists[list][n].text)
      OBVIOUS
    <2>1. n \in DOMAIN e.lists[list] /\ f.lists[list][n] = Right(e.lists[list][n])
      BY <1>7
    <2>2. e.lists[list][n] \in Text
      BY <1>2, <2>1, PageEntries
    <2> QED
      BY <1>5, <2>1, <2>2, PageRightText
  <1>11. \A n \in DOMAIN f.envs :
           /\ IsRight(f.envs[n].name) /\ HasText(f.envs[n].name)
           /\ ~IsEmpty(f.envs[n].name.text)
    <2> SUFFICES ASSUME NEW n \in DOMAIN f.envs
                 PROVE  /\ IsRight(f.envs[n].name) /\ HasText(f.envs[n].name)
                        /\ ~IsEmpty(f.envs[n].name.text)
      OBVIOUS
    <2>0. n \in DOMAIN e.envs /\ f.envs[n] = ShowsEnv(e.envs[n])
      BY <1>8
    <2>1. n \in DOMAIN e.envs /\ f.envs[n].name = Right(e.envs[n].name)
      BY <2>0 DEF ShowsEnv
    <2>2. e.envs[n] \in [name : Text, value : Text]
      BY <1>3, <2>1, PageEntries
    <2>3. ~IsEmpty(e.envs[n].name)
      BY <1>5, <2>1 DEF EnvAccepted, ContainerEnvironmentVariable
    <2> QED
      BY <2>1, <2>2, <2>3, PageRightText
  <1>12. /\ f.name.text = OrEmpty(e.name) /\ f.image.text = e.image
         /\ f.command.text = OrEmpty(e.command) /\ f.results.text = OrEmpty(e.results)
         /\ IsRight(f.name) /\ IsRight(f.image) /\ IsRight(f.command)
         /\ IsRight(f.results) /\ HasText(f.name) /\ HasText(f.image)
         /\ HasText(f.command) /\ HasText(f.results)
    BY <1>4, <1>6, PageRightText
  <1>13. IsEmpty(f.results.text) \/ ResultsUrl(f.results.text)
    BY <1>5, <1>12, PageEmpty, PageTexts DEF OrEmpty
  <1>14. ValidatedExecutor(f)
    BY <1>5, <1>10, <1>11, <1>12, <1>13 DEF ValidatedExecutor, Validated, All
  <1>15. ValidExecutor(f)
    BY <1>10, <1>11, <1>12 DEF ValidExecutor, All
  <1>16. ExecutorConverts(f)
    BY <1>5, <1>10, <1>11, <1>12, <1>13
       DEF ExecutorConverts, EnvConverts, ContainerEnvironmentVariable, All
  <1> QED
    BY <1>9, <1>14, <1>15, <1>16 DEF SavableContainer, f

\* What is described again is what it was, but for a name that is empty.
LEMMA PageContainerDescribedAgain ==
    ASSUME NEW e, DescribedContainer(e)
    PROVE  LET q == ExecutorOf(ShowsExecutor(e))
           IN  q \in Executor /\ ExecutorToProto(q) = ExecutorToProto(e)
  <1> DEFINE f == ShowsExecutor(e)
             q == ExecutorOf(f)
  <1>1. /\ e \in Executor /\ e.image # None
        /\ e.results # None => Printed(e.results) = e.results
        /\ ExecutorAccepted(ExecutorToProto(e))
    BY DEF DescribedContainer
  <1>2. /\ e.engine \in {"Docker", "Podman"} /\ e.name \in Optional
        /\ e.image \in Optional /\ e.command \in Optional
        /\ e.results \in Optional /\ e.lists \in [VectorFields -> Seq(Text)]
    BY <1>1 DEF Executor
  <1>3. e.envs \in Seq([name : Text, value : Text])
    BY <1>1 DEF Executor
  <1>4. /\ f.engine = e.engine /\ f.name = Right(OrEmpty(e.name))
        /\ f.image = Right(e.image) /\ f.command = Right(OrEmpty(e.command))
        /\ f.results = Right(OrEmpty(e.results))
        /\ f.lists = [list \in VectorFields |-> Each(e.lists[list], Right)]
        /\ f.envs = Each(e.envs, ShowsEnv)
    BY DEF ShowsExecutor
  <1> HIDE DEF f
  <1>5. /\ f.name.text = OrEmpty(e.name) /\ f.image.text = e.image
        /\ f.command.text = OrEmpty(e.command) /\ f.results.text = OrEmpty(e.results)
    <2>1. \A t : Right(t).text = t
      BY DEF Right
    <2> QED
      BY <1>4, <2>1
  <1>6. q = [engine |-> e.engine, name |-> NoneIfEmpty(OrEmpty(e.name)),
             image |-> e.image, command |-> NoneIfEmpty(OrEmpty(e.command)),
             results |-> NoneIfEmpty(Printed(OrEmpty(e.results))),
             lists |-> e.lists, envs |-> e.envs]
    <2>1. \A list \in VectorFields : Each(f.lists[list], TextOf) = e.lists[list]
      BY <1>2, <1>4, PageShownTexts
    <2>2. [list \in VectorFields |-> Each(f.lists[list], TextOf)] = e.lists
      BY <1>2, <2>1
    <2>3. Each(f.envs, EnvOf) = e.envs
      BY <1>3, <1>4, PageShownEnvs
    <2> QED
      BY <1>4, <1>5, <2>2, <2>3 DEF ExecutorOf, ResultsOf
  <1>7. NoneIfEmpty(Printed(OrEmpty(e.results))) = e.results
    <2>1. CASE e.results = None
      BY <2>1, PageEmpty, PagePrinted, PageTexts DEF OrEmpty, NoneIfEmpty
    <2>2. CASE e.results # None
      <3>1. e.results \in Text /\ OrEmpty(e.results) = e.results
        BY <1>2, <2>2, PageOptional DEF OrEmpty
      <3>2. ResultsUrl(e.results)
        BY <1>1, <2>2, PageExecutorMessage DEF ExecutorAccepted
      <3> QED
        BY <1>1, <2>2, <3>1, <3>2, PagePrinted DEF NoneIfEmpty
    <2> QED
      BY <2>1, <2>2
  <1>8. /\ NoneIfEmpty(OrEmpty(e.name)) \in Optional
        /\ NoneIfEmpty(OrEmpty(e.command)) \in Optional
        /\ OrEmpty(NoneIfEmpty(OrEmpty(e.name))) = OrEmpty(e.name)
        /\ OrEmpty(NoneIfEmpty(OrEmpty(e.command))) = OrEmpty(e.command)
    BY <1>2, PageOptional
  <1>9. q \in Executor /\ q.image # None
    BY <1>1, <1>2, <1>3, <1>6, <1>7, <1>8 DEF Executor
  <1>10. /\ q.engine = e.engine /\ q.name = NoneIfEmpty(OrEmpty(e.name))
         /\ q.image = e.image /\ q.command = NoneIfEmpty(OrEmpty(e.command))
         /\ q.results = e.results /\ q.lists = e.lists /\ q.envs = e.envs
    BY <1>6, <1>7
  <1> HIDE DEF q
  <1>11. ExecutorToProto(q) = ExecutorToProto(e)
    BY <1>1, <1>8, <1>9, <1>10, PageExecutorMessage
  <1> QED
    BY <1>9, <1>11 DEF q, f

\* A container that was saved is described, and shown as it was typed.
LEMMA PageContainerSaved ==
    ASSUME NEW f, SavableContainer(f)
    PROVE  /\ DescribedContainer(ExecutorOf(f))
           /\ ShowsExecutor(ExecutorOf(f))
                = [f EXCEPT !.results.text = Printed(@)]
  <1> DEFINE e == ExecutorOf(f)
  <1>1. /\ f \in ExecutorForm /\ ValidatedExecutor(f)
        /\ ValidExecutor(f) /\ ExecutorConverts(f)
    BY DEF SavableContainer
  <1>2. /\ f.engine \in {"Docker", "Podman"} /\ f.name \in Input
        /\ f.image \in Input /\ f.command \in Input
        /\ f.results \in Input /\ f.lists \in [VectorFields -> Seq(Input)]
    BY <1>1 DEF ExecutorForm
  <1>3. f.envs \in Seq([name : Input, value : Text])
    BY <1>1 DEF ExecutorForm
  <1>4. /\ f.name.text \in Text /\ f.image.text \in Text
        /\ f.command.text \in Text /\ f.results.text \in Text
        /\ Right(f.name.text) = f.name /\ Right(f.image.text) = f.image
        /\ Right(f.command.text) = f.command /\ Right(f.results.text) = f.results
    BY <1>1, <1>2, PageRightInput DEF ValidExecutor
  <1>5. \A list \in VectorFields : \A n \in DOMAIN f.lists[list] :
           /\ IsRight(f.lists[list][n])
           /\ ContainerText(list, f.lists[list][n].text)
    BY <1>1 DEF ValidExecutor, ExecutorConverts, All
  <1>6. \A n \in DOMAIN f.envs :
           /\ IsRight(f.envs[n].name)
           /\ ContainerEnvironmentVariable(f.envs[n].name.text, f.envs[n].value)
    BY <1>1 DEF ValidExecutor, ExecutorConverts, EnvConverts, All
  <1>7. /\ ContainerName(f.name.text) /\ ContainerImage(f.image.text)
        /\ ContainerCommand(f.command.text)
        /\ IsEmpty(f.results.text) \/ ResultsUrl(f.results.text)
    BY <1>1 DEF ExecutorConverts
  <1>8. e = [engine |-> f.engine, name |-> NoneIfEmpty(f.name.text), image |-> f.image.text,
             command |-> NoneIfEmpty(f.command.text),
             results |-> NoneIfEmpty(Printed(f.results.text)),
             lists |-> [list \in VectorFields |-> Each(f.lists[list], TextOf)],
             envs |-> Each(f.envs, EnvOf)]
    BY DEF ExecutorOf, ResultsOf
  <1>9. /\ e.engine = f.engine /\ e.name = NoneIfEmpty(f.name.text)
        /\ e.image = f.image.text /\ e.command = NoneIfEmpty(f.command.text)
        /\ e.results = NoneIfEmpty(Printed(f.results.text))
        /\ e.lists = [list \in VectorFields |-> Each(f.lists[list], TextOf)]
        /\ e.envs = Each(f.envs, EnvOf)
    BY <1>8
  <1>10. \A list \in VectorFields :
           /\ e.lists[list] \in Seq(Text)
           /\ DOMAIN e.lists[list] = DOMAIN f.lists[list]
           /\ \A n \in DOMAIN f.lists[list] : e.lists[list][n] = f.lists[list][n].text
           /\ Each(e.lists[list], Right) = f.lists[list]
    BY <1>2, <1>5, <1>9, PageTypedTexts
  <1>11. /\ e.envs \in Seq([name : Text, value : Text])
         /\ DOMAIN e.envs = DOMAIN f.envs
         /\ \A n \in DOMAIN f.envs : e.envs[n] = EnvOf(f.envs[n])
         /\ Each(e.envs, ShowsEnv) = f.envs
    BY <1>3, <1>6, <1>9, PageTypedEnvs
  <1>12. /\ Printed(f.results.text) \in Text
         /\ Printed(Printed(f.results.text)) = Printed(f.results.text)
         /\ ResultsUrl(f.results.text) => ResultsUrl(Printed(f.results.text))
         /\ IsEmpty(f.results.text) => IsEmpty(Printed(f.results.text))
    BY <1>4, PagePrinted
  <1>13. /\ e.engine \in {"Docker", "Podman"} /\ e.name \in Optional
         /\ e.image \in Text /\ e.image # None /\ e.command \in Optional
         /\ e.results \in Optional
    BY <1>2, <1>4, <1>9, <1>12, PageTexts
  <1>14. e.lists \in [VectorFields -> Seq(Text)]
    BY <1>9, <1>10
  <1>15. /\ OrEmpty(e.name) = f.name.text /\ OrEmpty(e.command) = f.command.text
         /\ OrEmpty(e.results) = Printed(f.results.text)
    BY <1>4, <1>9, <1>12, PageTexts
  <1>16. e.results # None => /\ e.results = Printed(f.results.text)
                             /\ ResultsUrl(e.results)
                             /\ Printed(e.results) = e.results
    BY <1>7, <1>9, <1>12 DEF NoneIfEmpty
  <1>17. e = [engine |-> e.engine, name |-> e.name, image |-> e.image, command |-> e.command,
              results |-> e.results, lists |-> e.lists, envs |-> e.envs]
    BY <1>8
  <1> HIDE DEF e
  <1>18. e \in Executor
    BY <1>11, <1>13, <1>14, <1>17 DEF Executor, Optional
  <1>19. ExecutorAccepted(ExecutorToProto(e))
    <2> DEFINE p == ExecutorToProto(e)
    <2>1. /\ p.name = f.name.text /\ p.command = f.command.text
          /\ p.image = f.image.text /\ p.results = e.results /\ p.lists = e.lists
          /\ p.envs = e.envs
      BY <1>9, <1>13, <1>15, <1>18, PageExecutorMessage
    <2>2. \A list \in VectorFields : \A n \in DOMAIN e.lists[list] :
             ContainerText(list, e.lists[list][n])
      BY <1>5, <1>10
    <2>3. \A n \in DOMAIN e.envs : EnvAccepted(e.envs[n])
      <3> SUFFICES ASSUME NEW n \in DOMAIN e.envs
                   PROVE  EnvAccepted(e.envs[n])
        OBVIOUS
      <3>1. n \in DOMAIN f.envs /\ e.envs[n] = EnvOf(f.envs[n])
        BY <1>11
      <3>2. e.envs[n].name = f.envs[n].name.text /\ e.envs[n].value = f.envs[n].value
        BY <3>1 DEF EnvOf
      <3> QED
        BY <1>6, <3>1, <3>2 DEF EnvAccepted
    <2> HIDE DEF p
    <2>4. ContainerAccepted(p)
      BY <1>7, <2>1, <2>2, <2>3 DEF ContainerAccepted, All
    <2> QED
      BY <1>16, <2>1, <2>4 DEF ExecutorAccepted, p
  <1>20. ShowsExecutor(e) = [f EXCEPT !.results.text = Printed(@)]
    <2>1. [list \in VectorFields |-> Each(e.lists[list], Right)] = f.lists
      BY <1>2, <1>10
    <2>2. ShowsExecutor(e) =
            [engine |-> f.engine, name |-> f.name, image |-> f.image, command |-> f.command,
             results |-> Right(Printed(f.results.text)), lists |-> f.lists,
             envs |-> f.envs]
      BY <1>4, <1>9, <1>11, <1>15, <2>1 DEF ShowsExecutor
    <2>3. [f.results EXCEPT !.text = Printed(@)] = Right(Printed(f.results.text))
      BY <1>4 DEF Right
    <2>4. f = [engine |-> f.engine, name |-> f.name, image |-> f.image, command |-> f.command,
               results |-> f.results, lists |-> f.lists, envs |-> f.envs]
      BY <1>1 DEF ExecutorForm
    <2>5. [f EXCEPT !.results = Right(Printed(f.results.text))] =
            [engine |-> f.engine, name |-> f.name, image |-> f.image, command |-> f.command,
             results |-> Right(Printed(f.results.text)), lists |-> f.lists,
             envs |-> f.envs]
      BY <2>4
    <2> QED
      BY <2>2, <2>3, <2>5
  <1> QED
    BY <1>13, <1>16, <1>18, <1>19, <1>20 DEF DescribedContainer, e

-----------------------------------------------------------------------------
(* Devices.                                                                *)

\* The message of a device.
LEMMA PageDeviceMessage ==
    ASSUME NEW d \in Device
    PROVE  DeviceToProto(d) =
             [name |-> d.name, description |-> OrEmpty(d.description),
              interface |-> d.interface, tags |-> d.tags]
  BY DEF DeviceToProto, Device

\* A device has the same message when it was read back.
LEMMA PageDeviceRoundTrip ==
    ASSUME NEW d \in Device
    PROVE  LET p == DeviceToProto(d)
           IN  p \in Device /\ DeviceToProto(p) = p
  <1> DEFINE p == DeviceToProto(d)
  <1>1. p = [name |-> d.name, description |-> OrEmpty(d.description),
             interface |-> d.interface, tags |-> d.tags]
    BY PageDeviceMessage
  <1>2. d.description \in Optional
    BY DEF Device
  <1>3. OrEmpty(d.description) \in Text
    BY <1>2, PageOptional
  <1>4. p \in Device
    BY <1>1, <1>3 DEF Device, Optional
  <1>5. p.name = d.name /\ p.description = OrEmpty(d.description)
        /\ p.interface = d.interface /\ p.tags = d.tags
    BY <1>1
  <1> HIDE DEF p
  <1>6. OrEmpty(p.description) = p.description
    BY <1>3, <1>5, PageTexts
  <1>7. DeviceToProto(p) =
          [name |-> p.name, description |-> OrEmpty(p.description),
           interface |-> p.interface, tags |-> p.tags]
    BY <1>4, PageDeviceMessage
  <1>8. DeviceToProto(p) = p
    BY <1>4, <1>6, <1>7 DEF Device
  <1> QED
    BY <1>4, <1>8 DEF p

\* A device as it may be in a descriptor, and in a form that is saved.
DescribedDevice(d) ==
    d \in Device /\ DeviceAccepted(DeviceToProto(d))

SavableDevice(f) ==
    /\ f \in DeviceForm /\ ValidatedDevice(f)
    /\ IsRight(f.name) /\ f.interface # None
    /\ DeviceConverts(f)

\* Of a device the form shows what its message tells.
LEMMA PageDeviceShownByMessage ==
    ASSUME NEW d \in Device, NEW q \in Device,
           DeviceToProto(d) = DeviceToProto(q)
    PROVE  ShowsDevice(d) = ShowsDevice(q)
  <1>1. /\ d.name = q.name /\ OrEmpty(d.description) = OrEmpty(q.description)
        /\ d.interface = q.interface
    BY PageDeviceMessage
  <1> QED
    BY <1>1 DEF ShowsDevice

\* A device that was described is shown as one that can be saved, and loses
\* nothing but its tags by that.
LEMMA PageDeviceShown ==
    ASSUME NEW d, DescribedDevice(d)
    PROVE  LET f == ShowsDevice(d)
           IN  /\ SavableDevice(f)
               /\ DeviceOf(f) \in Device
               /\ DeviceToProto(DeviceOf(f))
                    = [DeviceToProto(d) EXCEPT !.tags = {}]
  <1> DEFINE f == ShowsDevice(d)
             p == DeviceToProto(d)
             q == DeviceOf(f)
  <1>1. d \in Device /\ DeviceAccepted(p)
    BY DEF DescribedDevice
  <1>2. /\ d.name \in Text /\ d.description \in Optional
        /\ d.interface \in InterfaceIds /\ d.tags \in SUBSET Text
    BY <1>1 DEF Device
  <1>3. OrEmpty(d.description) \in Text /\ d.interface # None
    BY <1>2, PageOptional, NoneIsNoValue
  <1>4. p = [name |-> d.name, description |-> OrEmpty(d.description),
             interface |-> d.interface, tags |-> d.tags]
    BY <1>1, PageDeviceMessage
  <1>5. DeviceName(d.name) /\ DeviceDescription(OrEmpty(d.description))
    <2>1. p.name = d.name /\ p.description = OrEmpty(d.description)
      BY <1>4
    <2> HIDE DEF p
    <2> QED
      BY <1>1, <2>1 DEF DeviceAccepted
  <1>6. f = [name |-> Right(d.name), description |-> Right(OrEmpty(d.description)),
             interface |-> d.interface]
    BY DEF ShowsDevice
  <1>7. /\ f.name = Right(d.name) /\ f.interface = d.interface
        /\ f.description = Right(OrEmpty(d.description))
    BY <1>6
  <1> HIDE DEF f
  <1>8. /\ f.name \in Input /\ f.description \in Input
        /\ f.name.text = d.name /\ f.description.text = OrEmpty(d.description)
        /\ IsRight(f.name) /\ IsRight(f.description)
        /\ HasText(f.name) /\ HasText(f.description)
    BY <1>2, <1>3, <1>7, PageRightText
  <1>9. f \in DeviceForm
    BY <1>2, <1>6, <1>7, <1>8 DEF DeviceForm
  <1>10. SavableDevice(f)
    BY <1>3, <1>5, <1>7, <1>8, <1>9
       DEF SavableDevice, ValidatedDevice, Validated, DeviceConverts
  <1>11. q = [name |-> d.name, description |-> OrEmpty(d.description),
              interface |-> d.interface, tags |-> {}]
    BY <1>7, <1>8 DEF DeviceOf
  <1>12. q \in Device
    BY <1>2, <1>3, <1>11 DEF Device, Optional
  <1>13. /\ q.name = d.name /\ q.description = OrEmpty(d.description)
         /\ q.interface = d.interface /\ q.tags = {}
    BY <1>11
  <1> HIDE DEF q
  <1>14. OrEmpty(q.description) = OrEmpty(d.description)
    BY <1>3, <1>13, PageTexts
  <1>15. DeviceToProto(q) = [name |-> d.name, description |-> OrEmpty(d.description),
                                  interface |-> d.interface, tags |-> {}]
    BY <1>12, <1>13, <1>14, PageDeviceMessage
  <1>16. DeviceToProto(q) = [p EXCEPT !.tags = {}]
    BY <1>4, <1>15
  <1> QED
    BY <1>10, <1>12, <1>16 DEF q, f

\* A device that was saved is described, and shown as it was typed: also its
\* description, which the button to save does not look at.
LEMMA PageDeviceSaved ==
    ASSUME NEW f, SavableDevice(f)
    PROVE  DescribedDevice(DeviceOf(f)) /\ ShowsDevice(DeviceOf(f)) = f
  <1> DEFINE d == DeviceOf(f)
  <1>1. /\ f \in DeviceForm /\ ValidatedDevice(f)
        /\ IsRight(f.name) /\ f.interface # None
        /\ DeviceConverts(f)
    BY DEF SavableDevice
  <1>2. f.name \in Input /\ f.description \in Input
        /\ f.interface \in InterfaceIds
    BY <1>1 DEF DeviceForm
  <1>3. /\ IsRight(f.description)
        /\ DeviceName(f.name.text) /\ DeviceDescription(f.description.text)
    BY <1>1 DEF ValidatedDevice, Validated, DeviceConverts
  <1>4. /\ f.name.text \in Text /\ f.description.text \in Text
        /\ Right(f.name.text) = f.name /\ Right(f.description.text) = f.description
    BY <1>1, <1>2, <1>3, PageRightInput
  <1>5. d = [name |-> f.name.text, description |-> f.description.text,
             interface |-> f.interface, tags |-> {}]
    BY DEF DeviceOf
  <1>6. d \in Device
    BY <1>2, <1>4, <1>5 DEF Device, Optional
  <1>7. d.name = f.name.text /\ d.description = f.description.text
        /\ d.interface = f.interface /\ d.tags = {}
    BY <1>5
  <1> HIDE DEF d
  <1>8. OrEmpty(d.description) = f.description.text
    BY <1>4, <1>7, PageTexts
  <1>9. DescribedDevice(d)
    <2>1. DeviceToProto(d) = [name |-> f.name.text, description |-> f.description.text,
                                   interface |-> f.interface, tags |-> {}]
      BY <1>6, <1>7, <1>8, PageDeviceMessage
    <2> QED
      BY <1>3, <1>6, <2>1 DEF DescribedDevice, DeviceAccepted
  <1>10. ShowsDevice(d) = f
    <2>1. ShowsDevice(d) = [name |-> f.name, description |-> f.description,
                                 interface |-> f.interface]
      BY <1>4, <1>7, <1>8 DEF ShowsDevice
    <2> QED
      BY <1>1, <2>1 DEF DeviceForm
  <1> QED
    BY <1>9, <1>10 DEF d

-----------------------------------------------------------------------------
(* Peers.                                                                  *)

\* The fields of a peer, and what is one by its fields.
LEMMA PagePeerFields ==
    ASSUME NEW d, IsPeer(d)
    PROVE  /\ d.name \in Text /\ d.location \in Optional /\ d.bridge \in Optional
           /\ d.interfaces \in [DOMAIN d.interfaces -> Interface]
           /\ DOMAIN d.interfaces \subseteq InterfaceIds
           /\ DOMAIN d.devices \subseteq DeviceIds /\ DOMAIN d.executors \subseteq ExecutorIds
           /\ d.devices \in [DOMAIN d.devices -> Device]
           /\ d.executors \in [DOMAIN d.executors -> Executor]
           /\ d = [name |-> d.name, location |-> d.location, bridge |-> d.bridge,
                   interfaces |-> d.interfaces, devices |-> d.devices,
                   executors |-> d.executors]
  BY DEF IsPeer, Peer, Identified

\* Its message, and what is read from one.
LEMMA PagePeerMessage ==
    ASSUME NEW d, IsPeer(d)
    PROVE  ToProto(d) =
             [name |-> d.name, location |-> OrEmpty(d.location), bridge |-> d.bridge,
              interfaces |-> d.interfaces,
              devices |-> [x \in DOMAIN d.devices |-> DeviceToProto(d.devices[x])],
              executors |-> [x \in DOMAIN d.executors |-> ExecutorToProto(d.executors[x])]]
  <1> DEFINE devices == [x \in DOMAIN d.devices |-> DeviceToProto(d.devices[x])]
             executors == [x \in DOMAIN d.executors |-> ExecutorToProto(d.executors[x])]
  <1>1. ToProto(d) = [d EXCEPT !.location = OrEmpty(d.location), !.devices = devices,
                                    !.executors = executors]
    <2>1. d = [name |-> d.name, location |-> d.location, bridge |-> d.bridge,
               interfaces |-> d.interfaces, devices |-> d.devices, executors |-> d.executors]
      BY PagePeerFields
    <2>2. /\ [d EXCEPT !.location = OrEmpty(@)].devices = d.devices
          /\ [d EXCEPT !.location = OrEmpty(@), !.devices = devices].executors = d.executors
      BY <2>1
    <2> QED
      BY <2>2 DEF ToProto, Each
  <1> HIDE DEF devices, executors
  <1>2. d = [name |-> d.name, location |-> d.location, bridge |-> d.bridge,
             interfaces |-> d.interfaces, devices |-> d.devices, executors |-> d.executors]
    BY PagePeerFields
  <1>3. ToProto(d) =
             [name |-> d.name, location |-> OrEmpty(d.location), bridge |-> d.bridge,
              interfaces |-> d.interfaces, devices |-> devices, executors |-> executors]
    BY <1>1, <1>2
  <1> QED
    BY <1>3 DEF devices, executors

\* What is read of the message of a peer.
LEMMA PagePeerRead ==
    ASSUME NEW d, IsPeer(d)
    PROVE  FromProto(d) =
             [name |-> d.name, location |-> d.location, bridge |-> d.bridge,
              interfaces |-> d.interfaces, devices |-> d.devices,
              executors |-> [x \in DOMAIN d.executors |-> ExecutorFromProto(d.executors[x])]]
  BY DEF FromProto, Each, IsPeer, Peer

\* A peer by its fields.
LEMMA PagePeerByFields ==
    ASSUME NEW d, NEW name \in Text, NEW location \in Optional,
           NEW bridge \in Optional,
           NEW I \in SUBSET InterfaceIds, NEW D \in SUBSET DeviceIds,
           NEW E \in SUBSET ExecutorIds,
           NEW interfaces \in [I -> Interface],
           NEW devices \in [D -> Device],
           NEW executors \in [E -> Executor],
           d = [name |-> name, location |-> location, bridge |-> bridge,
                interfaces |-> interfaces, devices |-> devices, executors |-> executors]
    PROVE  IsPeer(d)
  BY DEF IsPeer, Peer, Identified

\* A peer is not None.
LEMMA PagePeerIsValue ==
    ASSUME NEW d, IsPeer(d)
    PROVE  d # None
  <1>1. /\ DOMAIN d.interfaces \in SUBSET InterfaceIds /\ DOMAIN d.devices \in SUBSET DeviceIds
        /\ DOMAIN d.executors \in SUBSET ExecutorIds
        /\ d \in Peer(DOMAIN d.interfaces, DOMAIN d.devices, DOMAIN d.executors)
    BY DEF IsPeer, Identified
  <1> QED
    BY <1>1, NoneIsNoValue

\* The parts of a descriptor are those of the lemmas above.
LEMMA PageDescribed ==
    ASSUME NEW d, IsDescriptor(d)
    PROVE  /\ \A x \in DOMAIN d.devices : DescribedDevice(d.devices[x])
           /\ \A x \in DOMAIN d.executors :
                /\ d.executors[x] \in Executor
                /\ ExecutorAccepted(ExecutorToProto(d.executors[x]))
                /\ d.executors[x].results # None =>
                      Printed(d.executors[x].results) = d.executors[x].results
           /\ Showable(d) => \A x \in DOMAIN d.executors : DescribedContainer(d.executors[x])
           /\ PeerName(d.name) /\ PeerLocation(OrEmpty(d.location))
           /\ d.bridge # None => NetworkInterfaceName(d.bridge)
           /\ \A x \in DOMAIN d.interfaces : InterfaceAccepted(d.interfaces[x])
  <1> DEFINE p == ToProto(d)
  <1>1. /\ IsPeer(d) /\ Accepted(p)
        /\ \A x \in DOMAIN d.executors : d.executors[x].results # None =>
              Printed(d.executors[x].results) = d.executors[x].results
    BY DEF IsDescriptor, All
  <1>2. /\ p.name = d.name /\ p.location = OrEmpty(d.location) /\ p.bridge = d.bridge
        /\ p.interfaces = d.interfaces
        /\ p.devices = [x \in DOMAIN d.devices |-> DeviceToProto(d.devices[x])]
        /\ p.executors = [x \in DOMAIN d.executors |-> ExecutorToProto(d.executors[x])]
    BY <1>1, PagePeerMessage
  <1>3. /\ \A x \in DOMAIN d.devices : d.devices[x] \in Device
        /\ \A x \in DOMAIN d.executors : d.executors[x] \in Executor
    BY <1>1, PagePeerFields
  <1> HIDE DEF p
  <1>4. /\ PeerName(d.name) /\ PeerLocation(OrEmpty(d.location))
        /\ d.bridge # None => NetworkInterfaceName(d.bridge)
        /\ \A x \in DOMAIN p.interfaces : InterfaceAccepted(p.interfaces[x])
        /\ \A x \in DOMAIN p.devices : DeviceAccepted(p.devices[x])
        /\ \A x \in DOMAIN p.executors : ExecutorAccepted(p.executors[x])
    BY <1>1, <1>2 DEF Accepted, All
  <1>5. \A x \in DOMAIN d.devices : DeviceAccepted(DeviceToProto(d.devices[x]))
    BY <1>2, <1>4
  <1>6. \A x \in DOMAIN d.executors : ExecutorAccepted(ExecutorToProto(d.executors[x]))
    BY <1>2, <1>4
  <1>7. \A x \in DOMAIN d.devices : DescribedDevice(d.devices[x])
    BY <1>3, <1>5 DEF DescribedDevice
  <1>8. Showable(d) => \A x \in DOMAIN d.executors : DescribedContainer(d.executors[x])
    BY <1>1, <1>3, <1>6 DEF DescribedContainer, Showable
  <1> QED
    BY <1>1, <1>2, <1>3, <1>4, <1>6, <1>7, <1>8

\* And a peer with such parts is a descriptor.
LEMMA PageIsDescriptor ==
    ASSUME NEW d, IsPeer(d),
           \A x \in DOMAIN d.devices : DescribedDevice(d.devices[x]),
           \A x \in DOMAIN d.executors :
              /\ ExecutorAccepted(ExecutorToProto(d.executors[x]))
              /\ d.executors[x].results # None =>
                    Printed(d.executors[x].results) = d.executors[x].results,
           PeerName(d.name), PeerLocation(OrEmpty(d.location)),
           d.bridge # None => NetworkInterfaceName(d.bridge),
           \A x \in DOMAIN d.interfaces : InterfaceAccepted(d.interfaces[x])
    PROVE  IsDescriptor(d)
  <1> DEFINE p == ToProto(d)
  <1>1. /\ p.name = d.name /\ p.location = OrEmpty(d.location) /\ p.bridge = d.bridge
        /\ p.interfaces = d.interfaces
        /\ p.devices = [x \in DOMAIN d.devices |-> DeviceToProto(d.devices[x])]
        /\ p.executors = [x \in DOMAIN d.executors |-> ExecutorToProto(d.executors[x])]
    BY PagePeerMessage
  <1> HIDE DEF p
  <1>2. \A x \in DOMAIN d.devices : DeviceAccepted(DeviceToProto(d.devices[x]))
    BY DEF DescribedDevice
  <1>3. \A x \in DOMAIN p.devices : DeviceAccepted(p.devices[x])
    BY <1>1, <1>2
  <1>4. \A x \in DOMAIN p.executors : ExecutorAccepted(p.executors[x])
    BY <1>1
  <1>5. Accepted(p)
    BY <1>1, <1>3, <1>4 DEF Accepted, All
  <1> QED
    BY <1>5 DEF IsDescriptor, All, p

\* A descriptor is read back from its message as one with the same message.
LEMMA PagePeerRoundTrip ==
    ASSUME NEW d, IsDescriptor(d)
    PROVE  LET p == ToProto(d)
               q == FromProto(p)
           IN  /\ IsPeer(p) /\ p # None /\ Accepted(p)
               /\ IsDescriptor(q) /\ ToProto(q) = p
               /\ p.interfaces = d.interfaces /\ q.interfaces = d.interfaces
               /\ Showable(q) <=> Showable(d)
               /\ Showable(p) <=> Showable(d)
  <1> DEFINE p == ToProto(d)
             q == FromProto(p)
             I == DOMAIN d.interfaces
             D == DOMAIN d.devices
             E == DOMAIN d.executors
  <1>1. IsPeer(d) /\ Accepted(p)
    BY DEF IsDescriptor
  <1>2. /\ d.name \in Text /\ d.location \in Optional /\ d.bridge \in Optional
        /\ d.interfaces \in [I -> Interface] /\ I \in SUBSET InterfaceIds
        /\ D \in SUBSET DeviceIds /\ E \in SUBSET ExecutorIds
        /\ \A x \in D : d.devices[x] \in Device
        /\ \A x \in E : d.executors[x] \in Executor
    BY <1>1, PagePeerFields
  <1>3. p = [name |-> d.name, location |-> OrEmpty(d.location), bridge |-> d.bridge,
             interfaces |-> d.interfaces,
             devices |-> [x \in D |-> DeviceToProto(d.devices[x])],
             executors |-> [x \in E |-> ExecutorToProto(d.executors[x])]]
    BY <1>1, PagePeerMessage
  <1>4. OrEmpty(d.location) \in Text /\ OrEmpty(d.location) \in Optional
    BY <1>2, PageOptional DEF Optional
  <1>5. /\ [x \in D |-> DeviceToProto(d.devices[x])] \in [D -> Device]
        /\ [x \in E |-> ExecutorToProto(d.executors[x])] \in [E -> Executor]
    BY <1>2, PageDeviceRoundTrip, PageExecutorRoundTrip
  <1>6. IsPeer(p)
    BY <1>2, <1>3, <1>4, <1>5, PagePeerByFields
  <1>7. /\ p.name = d.name /\ p.location = OrEmpty(d.location) /\ p.bridge = d.bridge
        /\ p.interfaces = d.interfaces
        /\ p.devices = [x \in D |-> DeviceToProto(d.devices[x])]
        /\ p.executors = [x \in E |-> ExecutorToProto(d.executors[x])]
    BY <1>3
  <1> HIDE DEF p
  <1>8. DOMAIN p.devices = D /\ DOMAIN p.executors = E
    BY <1>7
  <1>9. q = [name |-> p.name, location |-> p.location, bridge |-> p.bridge,
             interfaces |-> p.interfaces, devices |-> p.devices,
             executors |-> [x \in E |-> ExecutorFromProto(p.executors[x])]]
    BY <1>6, <1>8, PagePeerRead
  <1>10. \A x \in E : ExecutorFromProto(p.executors[x]) \in Executor
    BY <1>2, <1>7, PageExecutorRoundTrip
  <1>11. [x \in E |-> ExecutorFromProto(p.executors[x])] \in [E -> Executor]
    BY <1>10
  <1>12. /\ p.devices \in [D -> Device] /\ p.name \in Text
         /\ p.location \in Optional /\ p.bridge \in Optional
         /\ p.interfaces \in [I -> Interface]
    BY <1>2, <1>4, <1>5, <1>7
  <1>13. IsPeer(q)
    BY <1>2, <1>9, <1>11, <1>12, PagePeerByFields
  <1>14. /\ q.name = d.name /\ q.location = OrEmpty(d.location) /\ q.bridge = d.bridge
         /\ q.interfaces = d.interfaces /\ q.devices = p.devices
         /\ q.executors = [x \in E |-> ExecutorFromProto(p.executors[x])]
    BY <1>7, <1>9
  <1> HIDE DEF q
  <1>15. DOMAIN q.devices = D /\ DOMAIN q.executors = E
    BY <1>8, <1>14
  <1>16. \A x \in E : q.executors[x] = ExecutorFromProto(ExecutorToProto(d.executors[x]))
    BY <1>7, <1>14
  <1>17. \A x \in D : q.devices[x] = DeviceToProto(d.devices[x])
    BY <1>7, <1>14
  <1>18. \A x \in E : /\ ExecutorToProto(q.executors[x]) = ExecutorToProto(d.executors[x])
                      /\ q.executors[x].image = d.executors[x].image
                      /\ p.executors[x].image = d.executors[x].image
                      /\ q.executors[x].results = d.executors[x].results
    BY <1>2, <1>7, <1>16, PageExecutorRoundTrip
  <1>19. \A x \in D : DeviceToProto(q.devices[x]) = DeviceToProto(d.devices[x])
    BY <1>2, <1>17, PageDeviceRoundTrip
  <1>20. OrEmpty(OrEmpty(d.location)) = OrEmpty(d.location)
    BY <1>4, PageTexts
  <1>21. ToProto(q) = p
    <2>1. ToProto(q) =
            [name |-> q.name, location |-> OrEmpty(q.location), bridge |-> q.bridge,
             interfaces |-> q.interfaces,
             devices |-> [x \in D |-> DeviceToProto(q.devices[x])],
             executors |-> [x \in E |-> ExecutorToProto(q.executors[x])]]
      BY <1>13, <1>15, PagePeerMessage
    <2>2. [x \in D |-> DeviceToProto(q.devices[x])]
            = [x \in D |-> DeviceToProto(d.devices[x])]
      BY <1>19
    <2>3. [x \in E |-> ExecutorToProto(q.executors[x])]
            = [x \in E |-> ExecutorToProto(d.executors[x])]
      BY <1>18
    <2>4. p = [name |-> d.name, location |-> OrEmpty(d.location), bridge |-> d.bridge,
               interfaces |-> d.interfaces,
               devices |-> [x \in D |-> DeviceToProto(d.devices[x])],
               executors |-> [x \in E |-> ExecutorToProto(d.executors[x])]]
      BY <1>3 DEF p
    <2> QED
      BY <1>14, <1>20, <2>1, <2>2, <2>3, <2>4
  <1>22. IsDescriptor(q)
    <2>1. /\ \A x \in D : DescribedDevice(d.devices[x])
          /\ \A x \in E : ExecutorAccepted(ExecutorToProto(d.executors[x]))
          /\ \A x \in E : d.executors[x].results # None =>
                             Printed(d.executors[x].results) = d.executors[x].results
          /\ PeerName(d.name) /\ PeerLocation(OrEmpty(d.location))
          /\ d.bridge # None => NetworkInterfaceName(d.bridge)
          /\ \A x \in I : InterfaceAccepted(d.interfaces[x])
      BY PageDescribed
    <2>2. \A x \in D : DescribedDevice(q.devices[x])
      BY <1>2, <1>17, <2>1, PageDeviceRoundTrip DEF DescribedDevice
    <2>3. \A x \in E : ExecutorAccepted(ExecutorToProto(q.executors[x]))
      <3>1. \A x \in E : ExecutorToProto(q.executors[x])
                             = ExecutorToProto(d.executors[x])
        BY <1>18
      <3>2. \A x \in E : ExecutorAccepted(ExecutorToProto(d.executors[x]))
        BY <2>1
      <3> QED
        BY <3>1, <3>2
    <2>4. \A x \in E : q.executors[x].results # None =>
                         Printed(q.executors[x].results) = q.executors[x].results
      <3> SUFFICES ASSUME NEW x \in E, q.executors[x].results # None
                   PROVE  Printed(q.executors[x].results) = q.executors[x].results
        OBVIOUS
      <3>1. q.executors[x].results = d.executors[x].results
        BY <1>18
      <3>2. d.executors[x].results # None =>
              Printed(d.executors[x].results) = d.executors[x].results
        BY <2>1
      <3> QED
        BY <3>1, <3>2
    <2> QED
      BY <1>13, <1>14, <1>15, <1>20, <2>1, <2>2, <2>3, <2>4, PageIsDescriptor
  <1>23. /\ Showable(q) <=> Showable(d)
         /\ Showable(p) <=> Showable(d)
    BY <1>8, <1>15, <1>18 DEF Showable
  <1>24. p # None
    BY <1>6, PagePeerIsValue
  <1> QED
    BY <1>1, <1>6, <1>7, <1>14, <1>21, <1>22, <1>23, <1>24 DEF p, q

\* Of a peer without executables the form shows what its message tells.
LEMMA PagePeerShownByMessage ==
    ASSUME NEW d, NEW q, IsPeer(d), IsPeer(q),
           Showable(d), Showable(q), ToProto(d) = ToProto(q)
    PROVE  Shows(d) = Shows(q)
  <1> DEFINE message(a) ==
          [name |-> a.name, location |-> OrEmpty(a.location), bridge |-> a.bridge,
           interfaces |-> a.interfaces,
           devices |-> [x \in DOMAIN a.devices |-> DeviceToProto(a.devices[x])],
           executors |-> [x \in DOMAIN a.executors |-> ExecutorToProto(a.executors[x])]]
  <1>1. message(d) = message(q)
    BY PagePeerMessage
  <1>2. /\ d.name = q.name /\ OrEmpty(d.location) = OrEmpty(q.location)
        /\ d.bridge = q.bridge /\ d.interfaces = q.interfaces
        /\ message(d).devices = message(q).devices
        /\ message(d).executors = message(q).executors
    BY <1>1
  <1>3. [x \in DOMAIN d.devices |-> DeviceToProto(d.devices[x])]
          = [x \in DOMAIN q.devices |-> DeviceToProto(q.devices[x])]
    BY <1>2
  <1>4. [x \in DOMAIN d.executors |-> ExecutorToProto(d.executors[x])]
          = [x \in DOMAIN q.executors |-> ExecutorToProto(q.executors[x])]
    BY <1>2
  <1>5. /\ DOMAIN d.devices = DOMAIN q.devices
        /\ \A x \in DOMAIN d.devices :
              DeviceToProto(d.devices[x]) = DeviceToProto(q.devices[x])
    BY <1>3
  <1>6. /\ DOMAIN d.executors = DOMAIN q.executors
        /\ \A x \in DOMAIN d.executors :
              ExecutorToProto(d.executors[x]) = ExecutorToProto(q.executors[x])
    BY <1>4
  <1>7. /\ \A x \in DOMAIN d.devices : d.devices[x] \in Device /\ q.devices[x] \in Device
        /\ \A x \in DOMAIN d.executors :
              /\ d.executors[x] \in Executor /\ q.executors[x] \in Executor
              /\ d.executors[x].image # None /\ q.executors[x].image # None
    <2>1. /\ d.devices \in [DOMAIN d.devices -> Device]
          /\ q.devices \in [DOMAIN q.devices -> Device]
          /\ d.executors \in [DOMAIN d.executors -> Executor]
          /\ q.executors \in [DOMAIN q.executors -> Executor]
      BY PagePeerFields
    <2> QED
      BY <1>5, <1>6, <2>1 DEF Showable
  <1>8. [x \in DOMAIN d.devices |-> ShowsDevice(d.devices[x])]
          = [x \in DOMAIN q.devices |-> ShowsDevice(q.devices[x])]
    <2>1. \A x \in DOMAIN d.devices :
             ShowsDevice(d.devices[x]) = ShowsDevice(q.devices[x])
      BY <1>5, <1>7, PageDeviceShownByMessage
    <2> QED
      BY <1>5, <2>1
  <1>9. [x \in DOMAIN d.executors |-> ShowsExecutor(d.executors[x])]
          = [x \in DOMAIN q.executors |-> ShowsExecutor(q.executors[x])]
    <2>1. \A x \in DOMAIN d.executors :
             ShowsExecutor(d.executors[x]) = ShowsExecutor(q.executors[x])
      BY <1>6, <1>7, PageExecutorShownByMessage
    <2> QED
      BY <1>6, <2>1
  <1> HIDE DEF message
  <1> QED
    BY <1>2, <1>8, <1>9 DEF Shows, Each

\* The fields of a form, and what is one by its fields.
LEMMA PageFormFields ==
    ASSUME NEW f, IsUserPeerConfiguration(f)
    PROVE  /\ f.name \in Input /\ f.location \in Input /\ f.bridge \in Input
           /\ f.interfaces \in [DOMAIN f.interfaces -> Interface]
           /\ DOMAIN f.interfaces \subseteq InterfaceIds
           /\ DOMAIN f.devices \subseteq DeviceIds /\ DOMAIN f.executors \subseteq ExecutorIds
           /\ f.devices \in [DOMAIN f.devices -> DeviceForm]
           /\ f.executors \in [DOMAIN f.executors -> ExecutorForm]
           /\ f = [name |-> f.name, location |-> f.location, bridge |-> f.bridge,
                   interfaces |-> f.interfaces, devices |-> f.devices,
                   executors |-> f.executors]
  BY DEF IsUserPeerConfiguration, UserPeerConfiguration, Identified

\* The other way round.
LEMMA PageFormByFields ==
    ASSUME NEW f, NEW name \in Input, NEW location \in Input,
           NEW bridge \in Input,
           NEW I \in SUBSET InterfaceIds, NEW D \in SUBSET DeviceIds,
           NEW E \in SUBSET ExecutorIds,
           NEW interfaces \in [I -> Interface],
           NEW devices \in [D -> DeviceForm],
           NEW executors \in [E -> ExecutorForm],
           f = [name |-> name, location |-> location, bridge |-> bridge,
                interfaces |-> interfaces, devices |-> devices, executors |-> executors]
    PROVE  IsUserPeerConfiguration(f)
  BY DEF IsUserPeerConfiguration, UserPeerConfiguration, Identified

\* A form that Save lets through, by its parts.
SavableParts(f) ==
    /\ \A x \in DOMAIN f.devices : SavableDevice(f.devices[x])
    /\ \A x \in DOMAIN f.executors : SavableContainer(f.executors[x])
    /\ \A x \in DOMAIN f.interfaces : InterfaceAccepted(f.interfaces[x])
    /\ IsRight(f.name) /\ PeerName(f.name.text)
    /\ IsRight(f.location) /\ PeerLocation(f.location.text)
    /\ IsRight(f.bridge)
    /\ IsEmpty(f.bridge.text) \/ NetworkInterfaceName(f.bridge.text)

\* Those are the parts of a form that can be saved.
LEMMA PageSavable ==
    ASSUME NEW f, IsUserPeerConfiguration(f)
    PROVE  Savable(f) <=> SavableParts(f)
  <1> USE DEF All
  <1>1. /\ \A x \in DOMAIN f.devices : f.devices[x] \in DeviceForm
        /\ \A x \in DOMAIN f.executors : f.executors[x] \in ExecutorForm
    BY PageFormFields
  <1>2. ASSUME Savable(f)
        PROVE  SavableParts(f)
    <2>1. IsForm(f) /\ IsValidPeerConfiguration(f) /\ FormConverts(f)
      BY <1>2 DEF Savable
    <2>2. /\ IsRight(f.name) /\ PeerName(f.name.text)
          /\ IsRight(f.location) /\ PeerLocation(f.location.text)
      BY <2>1 DEF IsValidPeerConfiguration, FormConverts
    <2>3. /\ IsRight(f.bridge)
          /\ IsEmpty(f.bridge.text) \/ NetworkInterfaceName(f.bridge.text)
      BY <2>1 DEF IsForm, FormConverts, BridgeConverts, Validated
    <2>4. \A x \in DOMAIN f.devices : SavableDevice(f.devices[x])
      BY <1>1, <2>1
         DEF IsForm, IsValidPeerConfiguration, FormConverts, SavableDevice
    <2>5. \A x \in DOMAIN f.executors : SavableContainer(f.executors[x])
      BY <1>1, <2>1
         DEF IsForm, IsValidPeerConfiguration, FormConverts, SavableContainer
    <2>6. \A x \in DOMAIN f.interfaces : InterfaceAccepted(f.interfaces[x])
      BY <2>1 DEF IsForm
    <2> QED
      BY <2>2, <2>3, <2>4, <2>5, <2>6 DEF SavableParts
  <1>3. ASSUME SavableParts(f)
        PROVE  Savable(f)
    <2>1. \A i : IsRight(i) => HasText(i)
      BY DEF IsRight, HasText
    <2>2. /\ \A x \in DOMAIN f.devices : ValidatedDevice(f.devices[x])
          /\ \A x \in DOMAIN f.devices : DeviceConverts(f.devices[x])
          /\ \A x \in DOMAIN f.devices : /\ IsRight(f.devices[x].name)
                                        /\ f.devices[x].interface # None
      BY <1>3 DEF SavableParts, SavableDevice
    <2>3. /\ \A x \in DOMAIN f.executors : ValidatedExecutor(f.executors[x])
          /\ \A x \in DOMAIN f.executors : ExecutorConverts(f.executors[x])
          /\ \A x \in DOMAIN f.executors : ValidExecutor(f.executors[x])
      BY <1>3 DEF SavableParts, SavableContainer
    <2>4. /\ IsRight(f.name) /\ PeerName(f.name.text)
          /\ IsRight(f.location) /\ PeerLocation(f.location.text)
          /\ IsRight(f.bridge)
          /\ IsEmpty(f.bridge.text) \/ NetworkInterfaceName(f.bridge.text)
          /\ \A x \in DOMAIN f.interfaces : InterfaceAccepted(f.interfaces[x])
      BY <1>3 DEF SavableParts
    <2>5. IsForm(f)
      BY <2>1, <2>2, <2>3, <2>4 DEF IsForm, Validated
    <2>6. IsValidPeerConfiguration(f)
      BY <2>2, <2>3, <2>4 DEF IsValidPeerConfiguration
    <2>7. FormConverts(f)
      BY <2>1, <2>2, <2>3, <2>4 DEF FormConverts, BridgeConverts
    <2> QED
      BY <2>5, <2>6, <2>7 DEF Savable
  <1> QED
    BY <1>2, <1>3

\* A descriptor is shown as a form that can be saved, and that loses nothing
\* of it but the tags of its devices.
LEMMA PagePeerShown ==
    ASSUME NEW d, IsDescriptor(d), Showable(d)
    PROVE  /\ Savable(Shows(d))
           /\ ToProto(DescriptorOf(Shows(d)))
                = [ToProto(d) EXCEPT !.devices =
                      Each(@, LAMBDA x : [x EXCEPT !.tags = {}])]
  <1> DEFINE f == Shows(d)
             q == DescriptorOf(f)
             I == DOMAIN d.interfaces
             D == DOMAIN d.devices
             E == DOMAIN d.executors
  <1>1. IsPeer(d)
    BY DEF IsDescriptor
  <1>2. /\ d.name \in Text /\ d.location \in Optional /\ d.bridge \in Optional
        /\ d.interfaces \in [I -> Interface] /\ I \in SUBSET InterfaceIds
        /\ D \in SUBSET DeviceIds /\ E \in SUBSET ExecutorIds
    BY <1>1, PagePeerFields
  <1>3. /\ \A x \in D : DescribedDevice(d.devices[x])
        /\ \A x \in E : DescribedContainer(d.executors[x])
        /\ PeerName(d.name) /\ PeerLocation(OrEmpty(d.location))
        /\ d.bridge # None => NetworkInterfaceName(d.bridge)
        /\ \A x \in I : InterfaceAccepted(d.interfaces[x])
    BY PageDescribed
  <1>4. /\ OrEmpty(d.location) \in Text /\ OrEmpty(d.bridge) \in Text
    BY <1>2, PageOptional
  <1>5. f = [name |-> Right(d.name), location |-> Right(OrEmpty(d.location)),
             bridge |-> Right(OrEmpty(d.bridge)), interfaces |-> d.interfaces,
             devices |-> [x \in D |-> ShowsDevice(d.devices[x])],
             executors |-> [x \in E |-> ShowsExecutor(d.executors[x])]]
    BY DEF Shows, Each
  <1>6. /\ f.name = Right(d.name) /\ f.location = Right(OrEmpty(d.location))
        /\ f.bridge = Right(OrEmpty(d.bridge)) /\ f.interfaces = d.interfaces
        /\ f.devices = [x \in D |-> ShowsDevice(d.devices[x])]
        /\ f.executors = [x \in E |-> ShowsExecutor(d.executors[x])]
    BY <1>5
  <1> HIDE DEF f
  <1>7. /\ f.name \in Input /\ f.name.text = d.name /\ IsRight(f.name)
        /\ f.location \in Input /\ f.location.text = OrEmpty(d.location)
        /\ IsRight(f.location)
        /\ f.bridge \in Input /\ f.bridge.text = OrEmpty(d.bridge)
        /\ IsRight(f.bridge)
    BY <1>2, <1>4, <1>6, PageRightText
  <1>8. /\ DOMAIN f.devices = D /\ DOMAIN f.executors = E
        /\ \A x \in D : f.devices[x] = ShowsDevice(d.devices[x])
        /\ \A x \in E : f.executors[x] = ShowsExecutor(d.executors[x])
    BY <1>6
  <1>9. /\ \A x \in D : SavableDevice(f.devices[x])
        /\ \A x \in E : SavableContainer(f.executors[x])
    BY <1>3, <1>8, PageDeviceShown, PageContainerShown
  <1>10. /\ f.devices \in [D -> DeviceForm] /\ f.executors \in [E -> ExecutorForm]
    <2>1. /\ \A x \in D : ShowsDevice(d.devices[x]) \in DeviceForm
          /\ \A x \in E : ShowsExecutor(d.executors[x]) \in ExecutorForm
      BY <1>8, <1>9 DEF SavableDevice, SavableContainer
    <2> QED
      BY <1>6, <2>1
  <1>11. IsUserPeerConfiguration(f)
    <2>1. f = [name |-> f.name, location |-> f.location, bridge |-> f.bridge,
               interfaces |-> f.interfaces, devices |-> f.devices, executors |-> f.executors]
      BY <1>5, <1>6
    <2> QED
      BY <1>2, <1>6, <1>7, <1>10, <2>1, PageFormByFields
  <1>12. IsEmpty(f.bridge.text) \/ NetworkInterfaceName(f.bridge.text)
    BY <1>3, <1>7, PageEmpty, PageTexts DEF OrEmpty
  <1>13. SavableParts(f)
    BY <1>3, <1>6, <1>7, <1>8, <1>9, <1>12 DEF SavableParts
  <1>14. Savable(f)
    BY <1>11, <1>13, PageSavable
  <1>15. NoneIfEmpty(OrEmpty(d.bridge)) = d.bridge
    <2>1. CASE d.bridge = None
      BY <2>1, PageEmpty, PageTexts DEF OrEmpty, NoneIfEmpty
    <2>2. CASE d.bridge # None
      <3>1. ~IsEmpty(d.bridge)
        BY <1>3, <2>2 DEF IsEmpty, NetworkInterfaceName
      <3> QED
        BY <2>2, <3>1 DEF OrEmpty, NoneIfEmpty
    <2> QED
      BY <2>1, <2>2
  <1>16. q = [name |-> d.name, location |-> OrEmpty(d.location), bridge |-> d.bridge,
              interfaces |-> d.interfaces,
              devices |-> [x \in D |-> DeviceOf(f.devices[x])],
              executors |-> [x \in E |-> ExecutorOf(f.executors[x])]]
    BY <1>6, <1>7, <1>8, <1>15 DEF DescriptorOf, Each
  <1>17. /\ \A x \in D : DeviceOf(f.devices[x]) \in Device
         /\ \A x \in E : ExecutorOf(f.executors[x]) \in Executor
    BY <1>3, <1>8, PageDeviceShown, PageContainerDescribedAgain
  <1>18. /\ [x \in D |-> DeviceOf(f.devices[x])] \in [D -> Device]
         /\ [x \in E |-> ExecutorOf(f.executors[x])] \in [E -> Executor]
    BY <1>17
  <1>19. IsPeer(q)
    BY <1>2, <1>4, <1>16, <1>18, PagePeerByFields DEF Optional
  <1>20. /\ q.name = d.name /\ q.location = OrEmpty(d.location) /\ q.bridge = d.bridge
         /\ q.interfaces = d.interfaces /\ DOMAIN q.devices = D /\ DOMAIN q.executors = E
         /\ \A x \in D : q.devices[x] = DeviceOf(f.devices[x])
         /\ \A x \in E : q.executors[x] = ExecutorOf(f.executors[x])
    BY <1>16
  <1> HIDE DEF q
  <1>21. /\ \A x \in D : DeviceToProto(q.devices[x])
                             = [DeviceToProto(d.devices[x]) EXCEPT !.tags = {}]
         /\ \A x \in E : ExecutorToProto(q.executors[x])
                             = ExecutorToProto(d.executors[x])
    BY <1>3, <1>8, <1>20, PageDeviceShown, PageContainerDescribedAgain
  <1>22. OrEmpty(q.location) = OrEmpty(d.location)
    BY <1>4, <1>20, PageTexts
  <1>23. ToProto(q) =
           [name |-> d.name, location |-> OrEmpty(d.location), bridge |-> d.bridge,
            interfaces |-> d.interfaces,
            devices |-> [x \in D |-> [DeviceToProto(d.devices[x]) EXCEPT !.tags = {}]],
            executors |-> [x \in E |-> ExecutorToProto(d.executors[x])]]
    <2>1. ToProto(q) =
            [name |-> q.name, location |-> OrEmpty(q.location), bridge |-> q.bridge,
             interfaces |-> q.interfaces,
             devices |-> [x \in D |-> DeviceToProto(q.devices[x])],
             executors |-> [x \in E |-> ExecutorToProto(q.executors[x])]]
      BY <1>19, <1>20, PagePeerMessage
    <2>2. /\ [x \in D |-> DeviceToProto(q.devices[x])]
               = [x \in D |-> [DeviceToProto(d.devices[x]) EXCEPT !.tags = {}]]
          /\ [x \in E |-> ExecutorToProto(q.executors[x])]
               = [x \in E |-> ExecutorToProto(d.executors[x])]
      BY <1>21
    <2> QED
      BY <1>20, <1>22, <2>1, <2>2
  <1>24. ToProto(q) = [ToProto(d) EXCEPT !.devices =
                               Each(@, LAMBDA x : [x EXCEPT !.tags = {}])]
    <2> DEFINE devices == [x \in D |-> DeviceToProto(d.devices[x])]
               untagged == [x \in D |-> [DeviceToProto(d.devices[x]) EXCEPT !.tags = {}]]
               executors == [x \in E |-> ExecutorToProto(d.executors[x])]
    <2>1. ToProto(d) =
            [name |-> d.name, location |-> OrEmpty(d.location), bridge |-> d.bridge,
             interfaces |-> d.interfaces, devices |-> devices, executors |-> executors]
      BY <1>1, PagePeerMessage
    <2>2. Each(devices, LAMBDA x : [x EXCEPT !.tags = {}]) = untagged
      BY DEF Each
    <2>3. ToProto(q) =
            [name |-> d.name, location |-> OrEmpty(d.location), bridge |-> d.bridge,
             interfaces |-> d.interfaces, devices |-> untagged, executors |-> executors]
      BY <1>23
    <2> HIDE DEF devices, untagged, executors
    <2>4. ToProto(d).devices = devices
      BY <2>1
    <2>5. [ToProto(d) EXCEPT !.devices = untagged] = ToProto(q)
      BY <2>1, <2>3
    <2> QED
      BY <2>2, <2>4, <2>5
  <1> QED
    BY <1>14, <1>24 DEF q, f

\* A form that was saved is a descriptor, and shown as it was but for the URLs
\* as they are printed.
LEMMA PagePeerSaved ==
    ASSUME NEW f, Savable(f)
    PROVE  LET d == DescriptorOf(f)
           IN  /\ IsDescriptor(d) /\ Showable(d)
               /\ Shows(d) = Reprinted(f)
               /\ d.interfaces = f.interfaces
               /\ ~FormPanics(f)
  <1> DEFINE d == DescriptorOf(f)
             I == DOMAIN f.interfaces
             D == DOMAIN f.devices
             E == DOMAIN f.executors
  <1>1. IsUserPeerConfiguration(f) /\ SavableParts(f)
    <2>1. IsUserPeerConfiguration(f)
      BY DEF Savable, IsForm
    <2> QED
      BY <2>1, PageSavable
  <1>2. /\ f.name \in Input /\ f.location \in Input /\ f.bridge \in Input
        /\ f.interfaces \in [I -> Interface] /\ I \in SUBSET InterfaceIds
        /\ D \in SUBSET DeviceIds /\ E \in SUBSET ExecutorIds
        /\ f = [name |-> f.name, location |-> f.location, bridge |-> f.bridge,
                interfaces |-> f.interfaces, devices |-> f.devices, executors |-> f.executors]
    BY <1>1, PageFormFields
  <1>3. /\ \A x \in D : SavableDevice(f.devices[x])
        /\ \A x \in E : SavableContainer(f.executors[x])
        /\ \A x \in I : InterfaceAccepted(f.interfaces[x])
        /\ IsRight(f.name) /\ PeerName(f.name.text)
        /\ IsRight(f.location) /\ PeerLocation(f.location.text)
        /\ IsRight(f.bridge)
        /\ IsEmpty(f.bridge.text) \/ NetworkInterfaceName(f.bridge.text)
    BY <1>1 DEF SavableParts
  <1>4. /\ f.name.text \in Text /\ f.location.text \in Text
        /\ f.bridge.text \in Text /\ Right(f.name.text) = f.name
        /\ Right(f.location.text) = f.location /\ Right(f.bridge.text) = f.bridge
    BY <1>2, <1>3, PageRightInput
  <1>5. d = [name |-> f.name.text, location |-> f.location.text,
             bridge |-> NoneIfEmpty(f.bridge.text), interfaces |-> f.interfaces,
             devices |-> [x \in D |-> DeviceOf(f.devices[x])],
             executors |-> [x \in E |-> ExecutorOf(f.executors[x])]]
    BY DEF DescriptorOf, Each
  <1>6. /\ \A x \in D : DescribedDevice(DeviceOf(f.devices[x]))
        /\ \A x \in D : ShowsDevice(DeviceOf(f.devices[x])) = f.devices[x]
        /\ \A x \in E : DescribedContainer(ExecutorOf(f.executors[x]))
        /\ \A x \in E : ShowsExecutor(ExecutorOf(f.executors[x]))
                            = [f.executors[x] EXCEPT !.results.text = Printed(@)]
    BY <1>3, PageDeviceSaved, PageContainerSaved
  <1>7. /\ [x \in D |-> DeviceOf(f.devices[x])] \in [D -> Device]
        /\ [x \in E |-> ExecutorOf(f.executors[x])] \in [E -> Executor]
    BY <1>6 DEF DescribedDevice, DescribedContainer
  <1>8. /\ NoneIfEmpty(f.bridge.text) \in Optional
        /\ OrEmpty(NoneIfEmpty(f.bridge.text)) = f.bridge.text
        /\ OrEmpty(f.location.text) = f.location.text
        /\ f.location.text \in Optional
    BY <1>4, PageTexts DEF Optional
  <1>9. IsPeer(d)
    BY <1>2, <1>4, <1>5, <1>7, <1>8, PagePeerByFields
  <1>10. /\ d.name = f.name.text /\ d.location = f.location.text
         /\ d.bridge = NoneIfEmpty(f.bridge.text) /\ d.interfaces = f.interfaces
         /\ DOMAIN d.devices = D /\ DOMAIN d.executors = E
         /\ \A x \in D : d.devices[x] = DeviceOf(f.devices[x])
         /\ \A x \in E : d.executors[x] = ExecutorOf(f.executors[x])
    BY <1>5
  <1> HIDE DEF d
  <1>11. d.bridge # None => NetworkInterfaceName(d.bridge)
    BY <1>3, <1>10 DEF NoneIfEmpty
  <1>12. \A x \in E : DescribedContainer(d.executors[x])
    BY <1>6, <1>10
  <1>13. IsDescriptor(d)
    <2>1. \A x \in D : DescribedDevice(d.devices[x])
      BY <1>6, <1>10
    <2>2. \A x \in E : /\ ExecutorAccepted(ExecutorToProto(d.executors[x]))
                       /\ d.executors[x].results # None =>
                            Printed(d.executors[x].results) = d.executors[x].results
      BY <1>12 DEF DescribedContainer
    <2> QED
      BY <1>3, <1>8, <1>9, <1>10, <1>11, <2>1, <2>2, PageIsDescriptor
  <1>14. Showable(d)
    BY <1>10, <1>12 DEF Showable, DescribedContainer
  <1>15. Shows(d) = Reprinted(f)
    <2> DEFINE shown == [x \in E |-> [f.executors[x] EXCEPT !.results.text = Printed(@)]]
    <2>1. [x \in D |-> ShowsDevice(d.devices[x])] = f.devices
      <3>1. \A x \in D : ShowsDevice(d.devices[x]) = f.devices[x]
        BY <1>6, <1>10
      <3>2. f.devices \in [D -> DeviceForm]
        BY <1>1, PageFormFields
      <3> QED
        BY <3>1, <3>2
    <2>2. [x \in E |-> ShowsExecutor(d.executors[x])] = shown
      BY <1>6, <1>10
    <2>3. Reprinted(f) = [f EXCEPT !.executors = shown]
      BY DEF Reprinted, Each
    <2> HIDE DEF shown
    <2>4. Shows(d) = [name |-> f.name, location |-> f.location, bridge |-> f.bridge,
                           interfaces |-> f.interfaces, devices |-> f.devices,
                           executors |-> shown]
      BY <1>4, <1>8, <1>10, <2>1, <2>2 DEF Shows, Each
    <2>5. [f EXCEPT !.executors = shown] =
            [name |-> f.name, location |-> f.location, bridge |-> f.bridge,
             interfaces |-> f.interfaces, devices |-> f.devices, executors |-> shown]
      BY <1>2
    <2> QED
      BY <2>3, <2>4, <2>5
  <1>16. ~FormPanics(f)
    BY <1>3 DEF FormPanics, DevicePanics, SavableDevice
  <1> QED
    BY <1>10, <1>13, <1>14, <1>15, <1>16 DEF d

-----------------------------------------------------------------------------
(* Entries of a list that stay.                                            *)

\* A set of numbers has a least one.
LEMMA PageLeast ==
    ASSUME NEW S \in SUBSET Nat, S # {}
    PROVE  \E x \in S : \A y \in S : x <= y
  <1>1. PICK x \in S : \A y \in S : ~(<<y, x>> \in OpToRel(<, Nat))
    BY NatLessThanWellFounded, WFMin
  <1>2. ASSUME NEW y \in S PROVE x <= y
    <2>1. ~(y < x)
      BY <1>1 DEF OpToRel
    <2> QED
      BY <2>1
  <1> QED
    BY <1>2

\* The recursion of EntriesAt, over the first m places of s.
EntryAfter(s, K, g, n) ==
    IF n = 0 THEN <<>>
    ELSE IF n \in K THEN Append(g[n - 1], s[n])
    ELSE g[n - 1]

EntriesUpTo(s, K, m, g) == g = [n \in 0..m |-> EntryAfter(s, K, g, n)]

\* A function that is defined for the places before m is defined for m.
LEMMA PageEntriesNext ==
    ASSUME NEW s, NEW K, NEW m \in Nat \ {0}, NEW g, EntriesUpTo(s, K, m - 1, g)
    PROVE  \E h : EntriesUpTo(s, K, m, h)
  <1> DEFINE h == [n \in 0..m |-> IF n = m THEN EntryAfter(s, K, g, m) ELSE g[n]]
  <1>1. \A n \in 0..(m - 1) : g[n] = EntryAfter(s, K, g, n)
    BY DEF EntriesUpTo
  <1>2. \A n \in 0..(m - 1) : h[n] = g[n]
    OBVIOUS
  <1>3. h[m] = EntryAfter(s, K, g, m)
    OBVIOUS
  <1>4. \A n \in 0..m : EntryAfter(s, K, h, n) = EntryAfter(s, K, g, n)
    <2> SUFFICES ASSUME NEW n \in 0..m
                 PROVE  EntryAfter(s, K, h, n) = EntryAfter(s, K, g, n)
      OBVIOUS
    <2>1. CASE n = 0
      BY <2>1 DEF EntryAfter
    <2>2. CASE n # 0
      <3>1. n - 1 \in 0..(m - 1)
        BY <2>2
      <3>2. h[n - 1] = g[n - 1]
        BY <1>2, <3>1
      <3> HIDE DEF h
      <3> QED
        BY <3>2 DEF EntryAfter
    <2> QED
      BY <2>1, <2>2
  <1>5. \A n \in 0..m : h[n] = EntryAfter(s, K, h, n)
    <2> SUFFICES ASSUME NEW n \in 0..m
                 PROVE  h[n] = EntryAfter(s, K, h, n)
      OBVIOUS
    <2>1. CASE n = m
      BY <1>3, <1>4, <2>1
    <2>2. CASE n # m
      <3>1. n \in 0..(m - 1)
        BY <2>2
      <3>2. h[n] = g[n] /\ g[n] = EntryAfter(s, K, g, n)
        BY <1>1, <1>2, <3>1
      <3> HIDE DEF h
      <3> QED
        BY <1>4, <3>2
    <2> QED
      BY <2>1, <2>2
  <1>6. h = [n \in 0..m |-> h[n]]
    OBVIOUS
  <1> HIDE DEF h
  <1>7. h = [n \in 0..m |-> EntryAfter(s, K, h, n)]
    BY <1>5, <1>6
  <1> QED
    BY <1>7 DEF EntriesUpTo

\* There is such a function for every number of places.
LEMMA PageEntriesDefined ==
    ASSUME NEW s, NEW K, NEW m \in Nat
    PROVE  \E g : EntriesUpTo(s, K, m, g)
  <1> DEFINE Bad == {n \in Nat : ~ \E g : EntriesUpTo(s, K, n, g)}
  <1> SUFFICES Bad = {}
    OBVIOUS
  <1> SUFFICES ASSUME Bad # {} PROVE FALSE
    OBVIOUS
  <1>1. PICK n \in Bad : \A y \in Bad : n <= y
    <2>1. Bad \in SUBSET Nat
      OBVIOUS
    <2> HIDE DEF Bad
    <2> QED
      BY <2>1, PageLeast
  <1>2. n \in Nat /\ ~ \E g : EntriesUpTo(s, K, n, g)
    OBVIOUS
  <1>3. n # 0
    <2>1. EntriesUpTo(s, K, 0, [k \in 0..0 |-> <<>>])
      <3>1. \A k \in 0..0 : EntryAfter(s, K, [j \in 0..0 |-> <<>>], k) = <<>>
        BY DEF EntryAfter
      <3> QED
        BY <3>1 DEF EntriesUpTo
    <2> QED
      BY <1>2, <2>1
  <1>4. n - 1 \in Nat /\ n - 1 \notin Bad
    BY <1>1, <1>2, <1>3
  <1>5. \E g : EntriesUpTo(s, K, n - 1, g)
    BY <1>4
  <1> QED
    BY <1>2, <1>3, <1>5, PageEntriesNext

\* What is left of a list are entries of it.
LEMMA PageEntriesLeft ==
    ASSUME NEW S, NEW s \in Seq(S), NEW K
    PROVE  EntriesAt(s, K) \in Seq(S)
  <1> DEFINE N == Len(s)
             g == CHOOSE g : EntriesUpTo(s, K, N, g)
             Bad == {n \in 0..N : g[n] \notin Seq(S)}
  <1>1. N \in Nat
    OBVIOUS
  <1>2. EntriesAt(s, K) = g[N]
    BY DEF EntriesAt, EntriesUpTo, EntryAfter
  <1>3. EntriesUpTo(s, K, N, g)
    BY <1>1, PageEntriesDefined
  <1>4. \A n \in 0..N : g[n] = EntryAfter(s, K, g, n)
    BY <1>3 DEF EntriesUpTo
  <1> HIDE DEF g, N
  <1>5. Bad = {}
    <2> SUFFICES ASSUME Bad # {} PROVE FALSE
      OBVIOUS
    <2>1. PICK n \in Bad : \A y \in Bad : n <= y
      <3>1. Bad \in SUBSET Nat
        BY <1>1
      <3> HIDE DEF Bad
      <3> QED
        BY <3>1, PageLeast
    <2>2. n \in 0..N /\ g[n] \notin Seq(S) /\ g[n] = EntryAfter(s, K, g, n)
      BY <1>4
    <2>3. n # 0
      BY <2>2 DEF EntryAfter
    <2>4. n - 1 \in 0..N /\ n - 1 \notin Bad /\ n \in 1..N
      BY <1>1, <2>1, <2>2, <2>3
    <2>5. g[n - 1] \in Seq(S)
      BY <2>4
    <2>6. s[n] \in S
      <3>1. \A k \in 1..Len(s) : s[k] \in S
        BY PageEntries
      <3> QED
        BY <2>4, <3>1 DEF N
    <2> QED
      BY <2>2, <2>3, <2>5, <2>6 DEF EntryAfter
  <1> QED
    BY <1>1, <1>2, <1>5

-----------------------------------------------------------------------------
(* Maps of the parts of a form, and the lists of its executors.            *)

\* g gives values of S to some identifiers of X.
IsMap(g, X, S) == DOMAIN g \subseteq X /\ g \in [DOMAIN g -> S]

\* A part is added to a map.
LEMMA PageMapWith ==
    ASSUME NEW X, NEW S, NEW g, IsMap(g, X, S), NEW x \in X, NEW v \in S
    PROVE  IsMap(With(g, x, v), X, S)
  <1> DEFINE D == DOMAIN g \cup {x}
             h == [y \in D |-> IF y = x THEN v ELSE g[y]]
  <1>1. With(g, x, v) = h
    BY DEF With
  <1>2. \A y \in DOMAIN g : g[y] \in S
    BY DEF IsMap
  <1>3. h \in [D -> S] /\ D \subseteq X
    BY <1>2 DEF IsMap
  <1> QED
    BY <1>1, <1>3 DEF IsMap

\* A part is taken out of a map.
LEMMA PageMapWithout ==
    ASSUME NEW X, NEW S, NEW g, IsMap(g, X, S), NEW x
    PROVE  IsMap(Without(g, x), X, S)
  <1> DEFINE D == DOMAIN g \ {x}
             h == [y \in D |-> g[y]]
  <1>1. Without(g, x) = h
    BY DEF Without, Restrict
  <1>2. \A y \in DOMAIN g : g[y] \in S
    BY DEF IsMap
  <1>3. h \in [D -> S] /\ D \subseteq X
    BY <1>2 DEF IsMap
  <1> QED
    BY <1>1, <1>3 DEF IsMap

\* A part of a map is changed.
LEMMA PageMapExcept ==
    ASSUME NEW X, NEW S, NEW g, IsMap(g, X, S), NEW x, NEW v, x \in DOMAIN g => v \in S
    PROVE  IsMap([g EXCEPT ![x] = v], X, S)
  BY DEF IsMap

\* What a map has for an identifier it has.
LEMMA PageMapAt ==
    ASSUME NEW X, NEW S, NEW g, IsMap(g, X, S), NEW x \in DOMAIN g
    PROVE  x \in X /\ g[x] \in S
  BY DEF IsMap

\* An entry of a list is typed, and one is added.
LEMMA PageListTyped ==
    ASSUME NEW S, NEW s \in Seq(S), NEW n \in DOMAIN s, NEW v \in S
    PROVE  [s EXCEPT ![n] = v] \in Seq(S)
  OBVIOUS

\* An entry is added at the end.
LEMMA PageListAdded ==
    ASSUME NEW S, NEW s \in Seq(S), NEW v \in S
    PROVE  Append(s, v) \in Seq(S)
  OBVIOUS

\* The entries of a list have a property exactly if it is a list of such.
LEMMA PageListOf ==
    ASSUME NEW S, NEW T, T \subseteq S, NEW s
    PROVE  s \in Seq(T) <=> s \in Seq(S) /\ \A n \in DOMAIN s : s[n] \in T
  OBVIOUS

-----------------------------------------------------------------------------
(* The inputs of a form, by what they were validated with.                 *)

PeerNames == {i \in Input : Validated(i, PeerName)}

Locations == {i \in Input : Validated(i, PeerLocation)}

Bridges ==
    {i \in Input :
        Validated(i, LAMBDA t : IsEmpty(t) \/ NetworkInterfaceName(t))}

DeviceNames == {i \in Input : Validated(i, DeviceName)}

Descriptions == {i \in Input : Validated(i, DeviceDescription)}

ContainerNames == {i \in Input : Validated(i, ContainerName)}

ImageInputs == {i \in Input : Validated(i, ContainerImage)}

CommandInputs == {i \in Input : Validated(i, ContainerCommand)}

ResultsUrls ==
    {i \in Input :
        IsRight(i) => IsEmpty(i.text) \/ ResultsUrl(i.text)}

EntriesOf(list) ==
    {i \in Input : Validated(i, LAMBDA t : ContainerText(list, t))}

EnvNames == {i \in Input : Validated(i, LAMBDA t : ~IsEmpty(t))}

Envs == [name : EnvNames, value : Text]

AcceptedInterfaces == {x \in Interface : InterfaceAccepted(x)}

ValidatedDevices ==
    [name : DeviceNames, description : Descriptions,
     interface : InterfaceIds \cup {None}]

ListsOk(lists) ==
    /\ lists = [list \in VectorFields |-> lists[list]]
    /\ \A list \in VectorFields : lists[list] \in Seq(EntriesOf(list))

ValidatedExecutors ==
    {e \in [engine : {"Docker", "Podman"}, name : ContainerNames, image : ImageInputs,
            command : CommandInputs, results : ResultsUrls,
            lists : [VectorFields -> Seq(Input)], envs : Seq(Envs)] : ListsOk(e.lists)}

\* A device of the form is one with validated inputs.
LEMMA PageValidatedDevice ==
    ASSUME NEW d
    PROVE  d \in ValidatedDevices <=> d \in DeviceForm /\ ValidatedDevice(d)
  BY DEF ValidatedDevices, DeviceNames, Descriptions, DeviceForm, ValidatedDevice

\* An executor of the form is one with validated inputs.
LEMMA PageValidatedExecutor ==
    ASSUME NEW e
    PROVE  e \in ValidatedExecutors <=> e \in ExecutorForm /\ ValidatedExecutor(e)
  <1> DEFINE Forms == [name : Input, value : Text]
  <1>1. Envs \subseteq Forms /\ \A list : EntriesOf(list) \subseteq Input
    BY DEF Envs, EnvNames, EntriesOf
  <1>2. ASSUME e \in ExecutorForm
        PROVE  /\ e.envs \in Seq(Envs) <=>
                     All(e.envs, LAMBDA env : Validated(env.name, LAMBDA t : ~IsEmpty(t)))
               /\ ListsOk(e.lists) <=>
                     \A list \in VectorFields :
                        All(e.lists[list],
                                 LAMBDA i : Validated(i, LAMBDA t : ContainerText(list, t)))
    <2>1. e.envs \in Seq(Forms)
      BY <1>2 DEF ExecutorForm
    <2>2. e.envs \in Seq(Envs) <=> \A n \in DOMAIN e.envs : e.envs[n] \in Envs
      BY <1>1, <2>1, PageListOf
    <2>3. \A n \in DOMAIN e.envs : e.envs[n] \in Forms
      BY <2>1, PageEntries
    <2>4. \A n \in DOMAIN e.envs :
             e.envs[n] \in Envs <=>
                Validated(e.envs[n].name, LAMBDA t : ~IsEmpty(t))
      BY <2>3 DEF Envs, EnvNames
    <2>5. \A list \in VectorFields : e.lists[list] \in Seq(Input)
      BY <1>2 DEF ExecutorForm
    <2>6. \A list \in VectorFields :
             e.lists[list] \in Seq(EntriesOf(list)) <=>
                \A n \in DOMAIN e.lists[list] : e.lists[list][n] \in EntriesOf(list)
      BY <1>1, <2>5, PageListOf
    <2>7. \A list \in VectorFields : \A n \in DOMAIN e.lists[list] :
             e.lists[list][n] \in Input
      BY <2>5, PageEntries
    <2>8. \A list \in VectorFields : \A n \in DOMAIN e.lists[list] :
             e.lists[list][n] \in EntriesOf(list) <=>
                Validated(e.lists[list][n], LAMBDA t : ContainerText(list, t))
      BY <2>7 DEF EntriesOf
    <2>9. e.lists = [list \in VectorFields |-> e.lists[list]]
      BY <1>2 DEF ExecutorForm
    <2> QED
      BY <2>2, <2>4, <2>6, <2>8, <2>9 DEF All, ListsOk
  <1>3. e \in ValidatedExecutors => e \in ExecutorForm
    <2>1. e.envs \in Seq(Envs) => e.envs \in Seq(Forms)
      BY <1>1, PageListOf
    <2> QED
      BY <2>1 DEF ValidatedExecutors, ExecutorForm, ContainerNames, ImageInputs, CommandInputs, ResultsUrls
  <1>4. ASSUME e \in ExecutorForm
        PROVE  e \in ValidatedExecutors <=>
                 /\ e.name \in ContainerNames /\ e.image \in ImageInputs /\ e.command \in CommandInputs
                 /\ e.results \in ResultsUrls /\ e.envs \in Seq(Envs) /\ ListsOk(e.lists)
    BY <1>4 DEF ValidatedExecutors, ExecutorForm
  <1>5. ASSUME e \in ExecutorForm
        PROVE  /\ e.name \in ContainerNames <=> Validated(e.name, ContainerName)
               /\ e.image \in ImageInputs <=> Validated(e.image, ContainerImage)
               /\ e.command \in CommandInputs <=> Validated(e.command, ContainerCommand)
               /\ e.results \in ResultsUrls <=>
                    (IsRight(e.results) => IsEmpty(e.results.text)
                                                  \/ ResultsUrl(e.results.text))
    BY <1>5 DEF ContainerNames, ImageInputs, CommandInputs, ResultsUrls, ExecutorForm
  <1> QED
    BY <1>2, <1>3, <1>4, <1>5 DEF ValidatedExecutor

\* A form is one with validated parts.
LEMMA PageValidatedForm ==
    ASSUME NEW f
    PROVE  IsForm(f) <=>
             /\ f = [name |-> f.name, location |-> f.location, bridge |-> f.bridge,
                     interfaces |-> f.interfaces, devices |-> f.devices,
                     executors |-> f.executors]
             /\ f.name \in PeerNames /\ f.location \in Locations /\ f.bridge \in Bridges
             /\ IsMap(f.interfaces, InterfaceIds, AcceptedInterfaces)
             /\ IsMap(f.devices, DeviceIds, ValidatedDevices)
             /\ IsMap(f.executors, ExecutorIds, ValidatedExecutors)
  <1>1. ASSUME IsForm(f)
        PROVE  /\ f = [name |-> f.name, location |-> f.location, bridge |-> f.bridge,
                       interfaces |-> f.interfaces, devices |-> f.devices,
                       executors |-> f.executors]
               /\ f.name \in PeerNames /\ f.location \in Locations /\ f.bridge \in Bridges
               /\ IsMap(f.interfaces, InterfaceIds, AcceptedInterfaces)
               /\ IsMap(f.devices, DeviceIds, ValidatedDevices)
               /\ IsMap(f.executors, ExecutorIds, ValidatedExecutors)
    <2>1. /\ IsUserPeerConfiguration(f)
          /\ Validated(f.name, PeerName)
          /\ Validated(f.location, PeerLocation)
          /\ Validated(f.bridge, LAMBDA t : IsEmpty(t) \/ NetworkInterfaceName(t))
          /\ \A x \in DOMAIN f.interfaces : InterfaceAccepted(f.interfaces[x])
          /\ \A x \in DOMAIN f.devices : ValidatedDevice(f.devices[x])
          /\ \A x \in DOMAIN f.executors : ValidatedExecutor(f.executors[x])
      BY <1>1 DEF IsForm, All
    <2>2. /\ f.name \in Input /\ f.location \in Input /\ f.bridge \in Input
          /\ f.interfaces \in [DOMAIN f.interfaces -> Interface]
          /\ DOMAIN f.interfaces \subseteq InterfaceIds
          /\ DOMAIN f.devices \subseteq DeviceIds /\ DOMAIN f.executors \subseteq ExecutorIds
          /\ f.devices \in [DOMAIN f.devices -> DeviceForm]
          /\ f.executors \in [DOMAIN f.executors -> ExecutorForm]
          /\ f = [name |-> f.name, location |-> f.location, bridge |-> f.bridge,
                  interfaces |-> f.interfaces, devices |-> f.devices,
                  executors |-> f.executors]
      BY <2>1, PageFormFields
    <2>3. f.name \in PeerNames /\ f.location \in Locations /\ f.bridge \in Bridges
      BY <2>1, <2>2 DEF PeerNames, Locations, Bridges
    <2>4. IsMap(f.interfaces, InterfaceIds, AcceptedInterfaces)
      BY <2>1, <2>2 DEF IsMap, AcceptedInterfaces
    <2>5. IsMap(f.devices, DeviceIds, ValidatedDevices)
      <3>1. \A x \in DOMAIN f.devices : f.devices[x] \in ValidatedDevices
        BY <2>1, <2>2, PageValidatedDevice
      <3> QED
        BY <2>2, <3>1 DEF IsMap
    <2>6. IsMap(f.executors, ExecutorIds, ValidatedExecutors)
      <3>1. \A x \in DOMAIN f.executors : f.executors[x] \in ValidatedExecutors
        BY <2>1, <2>2, PageValidatedExecutor
      <3> QED
        BY <2>2, <3>1 DEF IsMap
    <2> QED
      BY <2>2, <2>3, <2>4, <2>5, <2>6
  <1>2. ASSUME f = [name |-> f.name, location |-> f.location, bridge |-> f.bridge,
                    interfaces |-> f.interfaces, devices |-> f.devices,
                    executors |-> f.executors],
               f.name \in PeerNames, f.location \in Locations, f.bridge \in Bridges,
               IsMap(f.interfaces, InterfaceIds, AcceptedInterfaces),
               IsMap(f.devices, DeviceIds, ValidatedDevices),
               IsMap(f.executors, ExecutorIds, ValidatedExecutors)
        PROVE  IsForm(f)
    <2>1. /\ f.name \in Input /\ f.location \in Input /\ f.bridge \in Input
          /\ Validated(f.name, PeerName)
          /\ Validated(f.location, PeerLocation)
          /\ Validated(f.bridge, LAMBDA t : IsEmpty(t) \/ NetworkInterfaceName(t))
      BY <1>2 DEF PeerNames, Locations, Bridges
    <2>2. /\ DOMAIN f.interfaces \in SUBSET InterfaceIds
          /\ f.interfaces \in [DOMAIN f.interfaces -> Interface]
          /\ \A x \in DOMAIN f.interfaces : InterfaceAccepted(f.interfaces[x])
      BY <1>2 DEF IsMap, AcceptedInterfaces
    <2>3. /\ DOMAIN f.devices \in SUBSET DeviceIds
          /\ f.devices \in [DOMAIN f.devices -> DeviceForm]
          /\ \A x \in DOMAIN f.devices : ValidatedDevice(f.devices[x])
      <3>1. \A x \in DOMAIN f.devices : f.devices[x] \in ValidatedDevices
        BY <1>2 DEF IsMap
      <3>2. \A x \in DOMAIN f.devices : /\ f.devices[x] \in DeviceForm
                                       /\ ValidatedDevice(f.devices[x])
        BY <3>1, PageValidatedDevice
      <3> QED
        BY <1>2, <3>2 DEF IsMap
    <2>4. /\ DOMAIN f.executors \in SUBSET ExecutorIds
          /\ f.executors \in [DOMAIN f.executors -> ExecutorForm]
          /\ \A x \in DOMAIN f.executors : ValidatedExecutor(f.executors[x])
      <3>1. \A x \in DOMAIN f.executors : f.executors[x] \in ValidatedExecutors
        BY <1>2 DEF IsMap
      <3>2. \A x \in DOMAIN f.executors : /\ f.executors[x] \in ExecutorForm
                                         /\ ValidatedExecutor(f.executors[x])
        BY <3>1, PageValidatedExecutor
      <3> QED
        BY <1>2, <3>2 DEF IsMap
    <2>5. IsUserPeerConfiguration(f)
      BY <1>2, <2>1, <2>2, <2>3, <2>4, PageFormByFields
    <2> QED
      BY <2>1, <2>2, <2>3, <2>4, <2>5 DEF IsForm, All
  <1> QED
    BY <1>1, <1>2

\* Validating makes an input right for a valid text.
LEMMA PageChecked ==
    ASSUME NEW t \in Text, NEW valid \in BOOLEAN
    PROVE  LET i == Checked(valid, t)
           IN  i \in Input /\ i.text = t /\ HasText(i) /\ (IsRight(i) <=> valid)
  BY DEF Checked, Right, Both, Input, HasText, IsRight

\* The inputs of a new form.
LEMMA PageNothingTyped ==
    /\ Left \in Input /\ ~HasText(Left) /\ ~IsRight(Left)
    /\ Right(Empty) \in Input /\ Right(Empty).text = Empty
    /\ IsRight(Right(Empty)) /\ IsEmpty(Empty)
  BY PageEmpty DEF Left, Right, Input, HasText, IsRight, IsEmpty, Empty

\* What the validators make of a text.
LEMMA PageValidators ==
    ASSUME NEW t \in Text
    PROVE  /\ PeerNameInput(t) \in PeerNames
           /\ PeerLocationInput(t) \in Locations
           /\ BridgeNameInput(t) \in Bridges
           /\ DeviceNameInput(t) \in DeviceNames
           /\ DeviceDescriptionInput(t) \in Descriptions
           /\ ExecutorContainerNameInput(t) \in ContainerNames
           /\ ExecutorContainerImageInput(t) \in ImageInputs
           /\ ExecutorContainerCommandInput(t) \in CommandInputs
           /\ ExecutorContainerResultsUrlInput(t) \in ResultsUrls
           /\ EnvNameInput(t) \in EnvNames
  <1>1. PeerNameInput(t) \in PeerNames
    <2>1. PeerName(t) \in BOOLEAN
      BY DEF PeerName
    <2> QED
      BY <2>1, PageChecked DEF PeerNameInput, PeerNames, Validated
  <1>2. PeerLocationInput(t) \in Locations
    <2>1. PeerLocation(t) \in BOOLEAN
      BY DEF PeerLocation
    <2> QED
      BY <2>1, PageChecked DEF PeerLocationInput, Locations, Validated
  <1>3. BridgeNameInput(t) \in Bridges
    <2>1. (IsEmpty(t) \/ NetworkInterfaceName(t)) \in BOOLEAN
      OBVIOUS
    <2> QED
      BY <2>1, PageChecked DEF BridgeNameInput, Bridges, Validated
  <1>4. DeviceNameInput(t) \in DeviceNames
    <2>1. DeviceName(t) \in BOOLEAN
      BY DEF DeviceName
    <2> QED
      BY <2>1, PageChecked DEF DeviceNameInput, DeviceNames, Validated
  <1>5. DeviceDescriptionInput(t) \in Descriptions
    <2>1. DeviceDescription(t) \in BOOLEAN
      BY DEF DeviceDescription, Text
    <2> QED
      BY <2>1, PageChecked DEF DeviceDescriptionInput, Descriptions, Validated
  <1>6. ExecutorContainerNameInput(t) \in ContainerNames
    <2>1. ContainerName(t) \in BOOLEAN
      BY DEF ContainerName
    <2> QED
      BY <2>1, PageChecked DEF ExecutorContainerNameInput, ContainerNames, Validated
  <1>7. ExecutorContainerImageInput(t) \in ImageInputs
    <2>1. ContainerImage(t) \in BOOLEAN
      BY DEF ContainerImage, Text
    <2> QED
      BY <2>1, PageChecked DEF ExecutorContainerImageInput, ImageInputs, Validated
  <1>8. ExecutorContainerCommandInput(t) \in CommandInputs
    <2>1. ContainerCommand(t) \in BOOLEAN
      BY DEF ContainerCommand
    <2> QED
      BY <2>1, PageChecked DEF ExecutorContainerCommandInput, CommandInputs, Validated
  <1>9. ExecutorContainerResultsUrlInput(t) \in ResultsUrls
    <2>1. ResultsUrl(t) \in BOOLEAN
      BY DEF ResultsUrl
    <2> QED
      BY <2>1, PageChecked DEF ExecutorContainerResultsUrlInput, ResultsUrls
  <1>10. EnvNameInput(t) \in EnvNames
    <2>1. (~IsEmpty(t)) \in BOOLEAN
      OBVIOUS
    <2> QED
      BY <2>1, PageChecked DEF EnvNameInput, EnvNames, Validated
  <1> QED
    BY <1>1, <1>2, <1>3, <1>4, <1>5, <1>6, <1>7, <1>8, <1>9, <1>10

\* What the validators of a list make of a text.
LEMMA PageEntryValidated ==
    ASSUME NEW t \in Text, NEW list \in VectorFields
    PROVE  ValidateEntry(list, t) \in EntriesOf(list)
  <1>1. ValidateEntry(list, t) = Checked(ContainerText(list, t), t)
    BY DEF ValidateEntry, VectorFields, ContainerText,
           ExecutorContainerVolumesInput, ExecutorContainerDevicesInput,
           ExecutorContainerPortsInput, ExecutorContainerArgsInput
  <1>2. ContainerText(list, t) \in BOOLEAN
    BY DEF ContainerText, VectorFields, ContainerVolume, ContainerDevice,
           ContainerPortSpec, ContainerCommandArgument
  <1> QED
    BY <1>1, <1>2, PageChecked DEF EntriesOf, Validated

\* Inputs that nothing was typed into yet.
LEMMA PageNewInputs ==
    /\ Left \in PeerNames /\ Right(Empty) \in Locations
    /\ Right(Empty) \in Bridges
    /\ Left \in DeviceNames /\ Right(Empty) \in Descriptions
    /\ Right(Empty) \in ContainerNames /\ Left \in ImageInputs
    /\ Right(Empty) \in CommandInputs /\ Right(Empty) \in ResultsUrls
    /\ Left \in EnvNames /\ \A list : Left \in EntriesOf(list)
  <1>1. /\ Left \in PeerNames /\ Left \in DeviceNames /\ Left \in ImageInputs
        /\ Left \in EnvNames /\ \A list : Left \in EntriesOf(list)
    BY PageNothingTyped DEF PeerNames, DeviceNames, ImageInputs, EnvNames, EntriesOf, Validated
  <1>2. /\ PeerLocation(Empty) /\ DeviceDescription(Empty)
    BY DEF PeerLocation, DeviceDescription, Empty,
           InvalidStartAndEndOfLocation, ValidCharactersInLocation
  <1>3. Right(Empty) \in Locations /\ Right(Empty) \in Descriptions
    BY <1>2, PageNothingTyped DEF Locations, Descriptions, Validated
  <1>4. Right(Empty) \in ContainerNames /\ Right(Empty) \in CommandInputs
    BY PageNothingTyped DEF ContainerNames, CommandInputs, Validated, ContainerName,
       ContainerCommand
  <1>5. Right(Empty) \in Bridges /\ Right(Empty) \in ResultsUrls
    BY PageNothingTyped DEF Bridges, ResultsUrls, Validated
  <1> QED
    BY <1>1, <1>3, <1>4, <1>5

\* A new form is one.
LEMMA PageNewForm == IsForm(NewForm)
  <1> DEFINE f == NewForm
  <1>1. f = [name |-> Left, location |-> Right(Empty),
             bridge |-> Right(Empty), interfaces |-> <<>>, devices |-> <<>>,
             executors |-> <<>>]
    BY DEF NewForm
  <1>2. \A X, S : IsMap(<<>>, X, S)
    BY DEF IsMap
  <1> QED
    BY <1>1, <1>2, PageNewInputs, PageValidatedForm

-----------------------------------------------------------------------------
(* A part of the form is put into it.                                      *)

\* Inputs of the peer.
LEMMA PagePeerTyped ==
    ASSUME NEW f, IsForm(f), NEW name \in {"name", "location", "bridge"}, NEW v,
           name = "name" => v \in PeerNames, name = "location" => v \in Locations,
           name = "bridge" => v \in Bridges
    PROVE  IsForm([f EXCEPT ![name] = v]) /\ [f EXCEPT ![name] = v].interfaces = f.interfaces
  <1> DEFINE g == [f EXCEPT ![name] = v]
  <1>1. f = [name |-> f.name, location |-> f.location, bridge |-> f.bridge,
             interfaces |-> f.interfaces, devices |-> f.devices, executors |-> f.executors]
    BY PageValidatedForm
  <1>2. CASE name = "name"
    <2>1. g = [f EXCEPT !["name"] = v]
      BY <1>2
    <2>2. [f EXCEPT !["name"] = v] = [f EXCEPT !.name = v]
      BY <1>1
    <2>3. [f EXCEPT !.name = v] =
            [name |-> v, location |-> f.location, bridge |-> f.bridge,
             interfaces |-> f.interfaces, devices |-> f.devices, executors |-> f.executors]
      BY <1>1
    <2> QED
      BY <1>2, <2>1, <2>2, <2>3, PageValidatedForm
  <1>3. CASE name = "location"
    <2>1. g = [f EXCEPT !["location"] = v]
      BY <1>3
    <2>2. [f EXCEPT !["location"] = v] = [f EXCEPT !.location = v]
      BY <1>1
    <2>3. [f EXCEPT !.location = v] =
            [name |-> f.name, location |-> v, bridge |-> f.bridge,
             interfaces |-> f.interfaces, devices |-> f.devices, executors |-> f.executors]
      BY <1>1
    <2> QED
      BY <1>3, <2>1, <2>2, <2>3, PageValidatedForm
  <1>4. CASE name = "bridge"
    <2>1. g = [f EXCEPT !["bridge"] = v]
      BY <1>4
    <2>2. [f EXCEPT !["bridge"] = v] = [f EXCEPT !.bridge = v]
      BY <1>1
    <2>3. [f EXCEPT !.bridge = v] =
            [name |-> f.name, location |-> f.location, bridge |-> v,
             interfaces |-> f.interfaces, devices |-> f.devices, executors |-> f.executors]
      BY <1>1
    <2> QED
      BY <1>4, <2>1, <2>2, <2>3, PageValidatedForm
  <1> QED
    BY <1>2, <1>3, <1>4

\* Interfaces, devices and executors.
LEMMA PageInterfacesPut ==
    ASSUME NEW f, IsForm(f), NEW m, IsMap(m, InterfaceIds, AcceptedInterfaces)
    PROVE  IsForm([f EXCEPT !.interfaces = m]) /\ [f EXCEPT !.interfaces = m].interfaces = m
  BY PageValidatedForm

\* The same for its devices.
LEMMA PageDevicesPut ==
    ASSUME NEW f, IsForm(f), NEW m, IsMap(m, DeviceIds, ValidatedDevices)
    PROVE  /\ IsForm([f EXCEPT !.devices = m])
           /\ [f EXCEPT !.devices = m].interfaces = f.interfaces
  BY PageValidatedForm

\* The same for its executors.
LEMMA PageExecutorsPut ==
    ASSUME NEW f, IsForm(f), NEW m, IsMap(m, ExecutorIds, ValidatedExecutors)
    PROVE  /\ IsForm([f EXCEPT !.executors = m])
           /\ [f EXCEPT !.executors = m].interfaces = f.interfaces
  BY PageValidatedForm

\* One device, one executor.
LEMMA PageDevicePut ==
    ASSUME NEW f, IsForm(f), NEW x, NEW v,
           x \in DOMAIN f.devices => v \in ValidatedDevices
    PROVE  /\ IsForm([f EXCEPT !.devices[x] = v])
           /\ [f EXCEPT !.devices[x] = v].interfaces = f.interfaces
  <1>1. IsMap([f.devices EXCEPT ![x] = v], DeviceIds, ValidatedDevices)
    BY PageValidatedForm, PageMapExcept
  <1>2. [f EXCEPT !.devices[x] = v] = [f EXCEPT !.devices = [f.devices EXCEPT ![x] = v]]
    OBVIOUS
  <1> QED
    BY <1>1, <1>2, PageDevicesPut

\* The same for one executor.
LEMMA PageExecutorPut ==
    ASSUME NEW f, IsForm(f), NEW x, NEW v,
           x \in DOMAIN f.executors => v \in ValidatedExecutors
    PROVE  /\ IsForm([f EXCEPT !.executors[x] = v])
           /\ [f EXCEPT !.executors[x] = v].interfaces = f.interfaces
  <1>1. IsMap([f.executors EXCEPT ![x] = v], ExecutorIds, ValidatedExecutors)
    BY PageValidatedForm, PageMapExcept
  <1>2. [f EXCEPT !.executors[x] = v] = [f EXCEPT !.executors = [f.executors EXCEPT ![x] = v]]
    OBVIOUS
  <1> QED
    BY <1>1, <1>2, PageExecutorsPut

\* The devices and executors of a form.
LEMMA PageFormParts ==
    ASSUME NEW f, IsForm(f)
    PROVE  /\ \A x \in DOMAIN f.devices : x \in DeviceIds /\ f.devices[x] \in ValidatedDevices
           /\ \A x \in DOMAIN f.executors : x \in ExecutorIds /\ f.executors[x] \in ValidatedExecutors
           /\ \A x \in DOMAIN f.interfaces : x \in InterfaceIds /\ f.interfaces[x] \in AcceptedInterfaces
  BY PageValidatedForm, PageMapAt

\* Inputs of a device.
LEMMA PageDeviceTyped ==
    ASSUME NEW d \in ValidatedDevices
    PROVE  /\ \A v \in DeviceNames : [d EXCEPT !.name = v] \in ValidatedDevices
           /\ \A v \in DeviceNames : [d EXCEPT !["name"] = v] \in ValidatedDevices
           /\ \A v \in Descriptions : [d EXCEPT !.description = v] \in ValidatedDevices
           /\ \A v \in InterfaceIds \cup {None} : [d EXCEPT !.interface = v] \in ValidatedDevices
  BY DEF ValidatedDevices

\* Inputs of an executor.
LEMMA PageExecutorTyped ==
    ASSUME NEW e \in ValidatedExecutors
    PROVE  /\ \A v \in {"Docker", "Podman"} : [e EXCEPT !.engine = v] \in ValidatedExecutors
           /\ \A v \in ContainerNames : [e EXCEPT !["name"] = v] \in ValidatedExecutors
           /\ \A v \in ImageInputs : [e EXCEPT !["image"] = v] \in ValidatedExecutors
           /\ \A v \in CommandInputs : [e EXCEPT !["command"] = v] \in ValidatedExecutors
           /\ \A v \in ResultsUrls : [e EXCEPT !["results"] = v] \in ValidatedExecutors
           /\ \A v \in Seq(Envs) : [e EXCEPT !.envs = v] \in ValidatedExecutors
  BY DEF ValidatedExecutors

\* One of the lists of an executor is changed.
LEMMA PageListTypedInto ==
    ASSUME NEW e \in ValidatedExecutors, NEW list \in VectorFields,
           NEW v \in Seq(EntriesOf(list))
    PROVE  [e EXCEPT !.lists[list] = v] \in ValidatedExecutors
  <1> DEFINE ls == [e.lists EXCEPT ![list] = v]
  <1>1. /\ e.lists = [l \in VectorFields |-> e.lists[l]]
        /\ \A l \in VectorFields : e.lists[l] \in Seq(EntriesOf(l))
    BY DEF ValidatedExecutors, ListsOk
  <1>2. /\ ls = [l \in VectorFields |-> ls[l]]
        /\ \A l \in VectorFields : ls[l] \in Seq(EntriesOf(l))
    BY <1>1
  <1>3. v \in Seq(Input)
    <2>1. EntriesOf(list) \subseteq Input
      BY DEF EntriesOf
    <2> QED
      BY <2>1, PageListOf
  <1>4. ls \in [VectorFields -> Seq(Input)]
    BY <1>3 DEF ValidatedExecutors
  <1>5. [e EXCEPT !.lists[list] = v] = [e EXCEPT !.lists = ls]
    OBVIOUS
  <1>6. ListsOk(ls)
    BY <1>2 DEF ListsOk
  <1> HIDE DEF ls
  <1> QED
    BY <1>4, <1>5, <1>6 DEF ValidatedExecutors

-----------------------------------------------------------------------------
(* What is typed, and the inputs of the interface to be added.             *)

TypedInto(f, t) ==
    \/ f \in TextField /\ t \in Text
    \/ f \in NumberField /\ t \in Int \cup {NotANumber}

AllTyped(t) == \A f \in DOMAIN t : TypedInto(f, t[f])

\* Something is typed into an input, it is validated or deleted, or emptied.
LEMMA PageTypedMore ==
    ASSUME NEW t, AllTyped(t), NEW f, NEW v, TypedInto(f, v)
    PROVE  AllTyped(With(t, f, v))
  BY DEF AllTyped, With

\* Some of it is forgotten.
LEMMA PageTypedLess ==
    ASSUME NEW t, AllTyped(t), NEW S, S \subseteq DOMAIN t
    PROVE  AllTyped(Restrict(t, S))
  BY DEF AllTyped, Restrict

\* An input is validated.
LEMMA PageTypedWithout ==
    ASSUME NEW t, AllTyped(t), NEW f
    PROVE  AllTyped(Without(t, f))
  BY PageTypedLess DEF Without

\* The name of the interface is emptied when it is added.
LEMMA PageTypedEmptied ==
    ASSUME NEW t, AllTyped(t)
    PROVE  AllTyped([f \in DOMAIN t |-> IF f = DraftName THEN Empty ELSE t[f]])
  <1>1. TypedInto(DraftName, Empty)
    BY PageEmpty DEF TypedInto, TextField
  <1> QED
    BY <1>1 DEF AllTyped

\* A draft with numbers that can be read if they are right.
RightDraft(d) ==
    /\ d \in Draft
    /\ RightBitrate(d.bitrate) /\ RightBitrate(d.dataBitrate)
    /\ RightSample(d.sample) /\ RightSample(d.dataSample)

FreeIn(name, interfaces) ==
    IsRight(name) /\ NetworkInterfaceName(name.text)
        => \/ name.text.chars = "padded"
           \/ \A i \in DOMAIN interfaces : interfaces[i].name # name.text

\* The validators of numbers.
LEMMA PageBitrateTyped ==
    ASSUME NEW n \in Int \cup {NotANumber}
    PROVE  LET v == BitrateValidator(n)
           IN  v \in Number /\ RightBitrate(v)
  BY DEF BitrateValidator, Checked, Right, Both, Number,
         RightBitrate, IsRight

\* A sample point that is found right can be read again.
LEMMA PageSampleTyped ==
    ASSUME NEW n \in Int \cup {NotANumber}
    PROVE  LET v == SamplePointsValidator(n)
           IN  v \in Number /\ RightSample(v)
  BY DEF SamplePointsValidator, Checked, Right, Both, Number,
         RightSample, IsRight

\* The name of an interface that is found right is free, or has spaces.
LEMMA PageInterfaceNameTyped ==
    ASSUME NEW t \in Text
    PROVE  LET v == InterfaceNameInput(t)
           IN  v \in Input /\ FreeIn(v, form.interfaces)
  <1> DEFINE v == InterfaceNameInput(t)
             name == Trim(t)
  <1>1. name \in Text \/ IsEmpty(name)
    BY DEF Trim, Text, CharClass, IsEmpty
  <1>2. t.chars # "padded" => name = t
    BY DEF Trim
  <1>3. v = IF IsEmpty(name) THEN Left
            ELSE IF NetworkInterfaceName(name)
                 THEN Checked(~NameTaken(name), t)
                 ELSE Both(name)
    BY DEF InterfaceNameInput
  <1> HIDE DEF name, v
  <1>4. CASE IsEmpty(name)
    <2>1. v = Left
      BY <1>3, <1>4
    <2>2. v \in Input /\ ~IsRight(v)
      BY <2>1, PageNothingTyped
    <2> QED
      BY <2>2 DEF FreeIn, v
  <1>5. CASE ~IsEmpty(name) /\ NetworkInterfaceName(name)
    <2>1. v = Checked(~NameTaken(name), t)
      BY <1>3, <1>5
    <2>2. /\ v \in Input /\ v.text = t /\ (IsRight(v) <=> ~NameTaken(name))
      BY <2>1, PageChecked
    <2>3. ~NameTaken(name) =>
             \A i \in DOMAIN form.interfaces : form.interfaces[i].name # name
      BY DEF NameTaken
    <2> QED
      BY <1>2, <2>2, <2>3 DEF FreeIn, v
  <1>6. CASE ~IsEmpty(name) /\ ~NetworkInterfaceName(name)
    <2>1. v = Both(name)
      BY <1>3, <1>6
    <2>2. v \in Input /\ ~IsRight(v)
      BY <1>1, <1>6, <2>1 DEF Both, Input, IsRight
    <2> QED
      BY <2>2 DEF FreeIn, v
  <1> QED
    BY <1>4, <1>5, <1>6

\* The draft of a page that was opened.
LEMMA PageNewDraft ==
    /\ RightDraft(NewDraft) /\ ~IsRight(NewDraft.name)
           /\ NewDraft.name = Left
  <1> DEFINE d == NewDraft
  <1>1. d = [name |-> Left, kind |-> "Ethernet", fd |-> FALSE,
             bitrate |-> Right(500), sample |-> Right(7000),
             dataBitrate |-> Right(2000), dataSample |-> Right(7000)]
    BY DEF NewDraft
  <1>2. NotANumber \notin Int
    BY PeerFormAssumption
  <1>3. /\ Right(500) \in Number /\ Right(2000) \in Number
        /\ Right(7000) \in Number
    BY DEF Right, Number
  <1>4. /\ RightBitrate(Right(500)) /\ RightBitrate(Right(2000))
        /\ RightSample(Right(7000))
    BY <1>2 DEF Right, RightBitrate, RightSample, CanSamplePoint, Rounded
  <1>5. d \in Draft
    BY <1>1, <1>3, PageNothingTyped DEF Draft
  <1> QED
    BY <1>1, <1>4, <1>5, PageNothingTyped DEF RightDraft

\* A text or a number is validated for the draft.
LEMMA PageDraftTyped ==
    ASSUME NEW d, RightDraft(d), NEW v, NEW name,
           \/ name = "name" /\ v \in Input
           \/ name \in {"bitrate", "dataBitrate"} /\ v \in Number /\ RightBitrate(v)
           \/ name \in {"sample", "dataSample"} /\ v \in Number /\ RightSample(v)
    PROVE  /\ RightDraft([d EXCEPT ![name] = v])
           /\ [d EXCEPT ![name] = v].name = IF name = "name" THEN v ELSE d.name
  <1>1. CASE name = "name" /\ v \in Input
    <2>1. [d EXCEPT ![name] = v] = [d EXCEPT !.name = v]
      BY <1>1 DEF RightDraft, Draft
    <2>2. RightDraft([d EXCEPT !.name = v]) /\ [d EXCEPT !.name = v].name = v
      BY <1>1 DEF RightDraft, Draft
    <2> QED
      BY <1>1, <2>1, <2>2
  <1>2. CASE name = "bitrate" /\ v \in Number /\ RightBitrate(v)
    <2>1. [d EXCEPT ![name] = v] = [d EXCEPT !.bitrate = v]
      BY <1>2 DEF RightDraft, Draft
    <2>2. RightDraft([d EXCEPT !.bitrate = v]) /\ [d EXCEPT !.bitrate = v].name = d.name
      BY <1>2 DEF RightDraft, Draft
    <2> QED
      BY <1>2, <2>1, <2>2
  <1>3. CASE name = "dataBitrate" /\ v \in Number /\ RightBitrate(v)
    <2>1. [d EXCEPT ![name] = v] = [d EXCEPT !.dataBitrate = v]
      BY <1>3 DEF RightDraft, Draft
    <2>2. RightDraft([d EXCEPT !.dataBitrate = v]) /\ [d EXCEPT !.dataBitrate = v].name = d.name
      BY <1>3 DEF RightDraft, Draft
    <2> QED
      BY <1>3, <2>1, <2>2
  <1>4. CASE name = "sample" /\ v \in Number /\ RightSample(v)
    <2>1. [d EXCEPT ![name] = v] = [d EXCEPT !.sample = v]
      BY <1>4 DEF RightDraft, Draft
    <2>2. RightDraft([d EXCEPT !.sample = v]) /\ [d EXCEPT !.sample = v].name = d.name
      BY <1>4 DEF RightDraft, Draft
    <2> QED
      BY <1>4, <2>1, <2>2
  <1>5. CASE name = "dataSample" /\ v \in Number /\ RightSample(v)
    <2>1. [d EXCEPT ![name] = v] = [d EXCEPT !.dataSample = v]
      BY <1>5 DEF RightDraft, Draft
    <2>2. RightDraft([d EXCEPT !.dataSample = v]) /\ [d EXCEPT !.dataSample = v].name = d.name
      BY <1>5 DEF RightDraft, Draft
    <2> QED
      BY <1>5, <2>1, <2>2
  <1> QED
    BY <1>1, <1>2, <1>3, <1>4, <1>5

\* The interface that is added is one CARL accepts.
LEMMA PageInterfaceAdded ==
    ASSUME RightDraft(draft),
           NetworkInterfaceName(draft.name.text),
           draft.kind = "Can" => ~CanPanics
    PROVE  [name |-> draft.name.text, configuration |-> Configuration] \in AcceptedInterfaces
  <1> DEFINE x == [name |-> draft.name.text, configuration |-> Configuration]
  <1>1. draft.name.text \in Text /\ draft.fd \in BOOLEAN /\ draft.kind \in {"Ethernet", "Can"}
    BY DEF RightDraft, Draft, Input
  <1>2. CASE draft.kind = "Ethernet"
    <2>1. Configuration = [kind |-> "Ethernet"]
      BY <1>2 DEF Configuration
    <2>2. x \in Interface
      BY <1>1, <2>1 DEF Interface
    <2> QED
      BY <2>1, <2>2 DEF AcceptedInterfaces, InterfaceAccepted
  <1>3. CASE draft.kind = "Can"
    <2> DEFINE b == draft.bitrate.text
               s == draft.sample.text
               db == draft.dataBitrate.text
               ds == draft.dataSample.text
    <2>1. Readable(draft.bitrate, draft.sample) /\ Readable(draft.dataBitrate, draft.dataSample)
      BY <1>3 DEF CanPanics
    <2>2. /\ b # NotANumber /\ s # NotANumber /\ db # NotANumber /\ ds # NotANumber
          /\ CanSamplePoint(Rounded(s)) /\ CanSamplePoint(Rounded(ds))
      BY <2>1 DEF Readable
    <2>3. b \in Int /\ s \in Int /\ db \in Int /\ ds \in Int
      BY <2>2 DEF RightDraft, Draft, Number
    <2>4. U32 \in Nat \ {0}
      BY PeerFormAssumption
    <2>5. Configuration =
            [kind |-> "Can", fd |-> draft.fd, bitrate |-> (b * 1000) % U32,
             sample |-> Rounded(s), dataBitrate |-> (db * 1000) % U32,
             dataSample |-> Rounded(ds)]
      BY <1>3 DEF Configuration
    <2> HIDE DEF b, s, db, ds
    <2>6. (b * 1000) % U32 \in 0..(U32 - 1) /\ (db * 1000) % U32 \in 0..(U32 - 1)
      BY <2>3, <2>4
    <2>7. Rounded(s) \in Nat /\ Rounded(ds) \in Nat
      BY <2>3 DEF Rounded
    <2>8. x \in Interface
      BY <1>1, <2>5, <2>6, <2>7 DEF Interface
    <2>9. InterfaceAccepted(x)
      BY <2>2, <2>5 DEF InterfaceAccepted
    <2> QED
      BY <2>8, <2>9 DEF AcceptedInterfaces
  <1> QED
    BY <1>1, <1>2, <1>3

\* Names stay distinct when a free one is added, and when one goes.
LEMMA PageNamesWith ==
    ASSUME NEW m, DistinctNames(m), NEW x \in InterfaceIds \ DOMAIN m, NEW v,
           \/ v.name.chars = "padded"
           \/ \A i \in DOMAIN m : m[i].name # v.name
    PROVE  DistinctNames(With(m, x, v))
  <1> DEFINE h == With(m, x, v)
  <1>1. /\ DOMAIN h = DOMAIN m \cup {x} /\ h[x] = v
        /\ \A i \in DOMAIN m : h[i] = m[i]
    BY DEF With
  <1> HIDE DEF h
  <1> SUFFICES ASSUME NEW i \in DOMAIN h, NEW j \in DOMAIN h, h[i].name = h[j].name
               PROVE  \/ i = j
                      \/ h[i].name.chars = "padded"
                      \/ \E d \in Descriptors :
                            /\ {i, j} \subseteq DOMAIN d.interfaces
                            /\ d.interfaces[i].name = h[i].name
                            /\ d.interfaces[j].name = h[i].name
    BY DEF DistinctNames, h
  <1>2. CASE i \in DOMAIN m /\ j \in DOMAIN m
    BY <1>1, <1>2 DEF DistinctNames
  <1>3. CASE i = x \/ j = x
    BY <1>1, <1>3
  <1> QED
    BY <1>1, <1>2, <1>3

\* Names stay distinct when an interface goes.
LEMMA PageNamesWithout ==
    ASSUME NEW m, DistinctNames(m), NEW x
    PROVE  DistinctNames(Without(m, x))
  <1> DEFINE h == Without(m, x)
  <1>1. DOMAIN h \subseteq DOMAIN m /\ \A i \in DOMAIN h : h[i] = m[i]
    BY DEF Without, Restrict
  <1> HIDE DEF h
  <1>2. DistinctNames(h)
    BY <1>1 DEF DistinctNames
  <1> QED
    BY <1>2 DEF h

-----------------------------------------------------------------------------
(* The invariant: what the page shows, and what CARL knows of it.          *)

OriginOf(o, f) == o # None => IsDescriptor(o) /\ Showable(o) /\ f = Shows(o)

PageInv ==
    /\ page \in {"loading", "shown", "crashed", "left"} /\ edits \in 0..MaxEdits
    /\ page = "left" /\ stored # None => outcome = "stored" /\ request = None
    /\ IsForm(form) /\ DistinctNames(form.interfaces) /\ OriginOf(origin, form)
    /\ RightDraft(draft) /\ FreeIn(draft.name, form.interfaces) /\ AllTyped(typing)
    /\ page = "loading" => draft = NewDraft

\* The message p is what the form f was saved as.
SavedAs(f, p) == Savable(f) /\ p = ToProto(DescriptorOf(f))

ReadableMessage(p) ==
    /\ IsDescriptor(FromProto(p)) /\ ToProto(FromProto(p)) = p
    /\ Accepted(p) /\ DistinctNames(p.interfaces)

ClickDropped(f) ==
    \/ ~IsRight(f.bridge)
    \/ \E d \in DOMAIN f.devices : ~IsRight(f.devices[d].description)

CarlInv ==
    /\ isNew \in BOOLEAN /\ awaiting \in BOOLEAN
    /\ deleting \in BOOLEAN /\ deleted \in BOOLEAN
    /\ outcome \in {"none", "stored", "failed", "dropped"}
    /\ IsForm(clicked)
    /\ awaiting => request # None
    /\ ~isNew => stored # None \/ deleted
    /\ outcome = "dropped" => ClickDropped(clicked)
    /\ request # None => SavedAs(clicked, request) /\ DistinctNames(request.interfaces)
    /\ stored # None => ReadableMessage(stored)
    /\ kept # None => SavedAs(kept, stored)

\* The two parts make up the invariant.
LEMMA PageInvariantParts == IInv <=> PageInv /\ CarlInv
  <1>1. TypeOK <=>
          /\ page \in {"loading", "shown", "crashed", "left"} /\ edits \in 0..MaxEdits
          /\ deleting \in BOOLEAN /\ deleted \in BOOLEAN
          /\ IsForm(form) /\ IsForm(clicked) /\ (kept # None => IsForm(kept))
          /\ draft \in Draft /\ isNew \in BOOLEAN /\ awaiting \in BOOLEAN
          /\ (stored # None => Accepted(stored)) /\ (awaiting => request # None)
          /\ outcome \in {"none", "stored", "failed", "refused", "dropped"}
    BY DEF TypeOK
  <1>2. SaveAnswered <=>
          /\ TypeOK /\ outcome # "refused" /\ (~isNew => stored # None \/ deleted)
          /\ (page = "left" /\ stored # None => outcome = "stored" /\ request = None)
          /\ (outcome = "dropped" => ClickDropped(clicked))
    BY DEF SaveAnswered, ClickDropped
  <1>3. DistinctInterfaceNames <=> DistinctNames(form.interfaces)
    BY DEF DistinctInterfaceNames
  <1>4. DistinctMessageNames <=>
          /\ request # None => DistinctNames(request.interfaces)
          /\ stored # None => DistinctNames(stored.interfaces)
    BY DEF DistinctMessageNames
  <1>5. TypingOK <=> AllTyped(typing)
    BY DEF TypingOK, AllTyped, TypedInto
  <1>6. draft \in Draft /\ RightNumbers <=> RightDraft(draft)
    BY DEF RightNumbers, RightDraft
  <1>7. RightNameFree <=> FreeIn(draft.name, form.interfaces)
    BY DEF RightNameFree, FreeIn, NameTaken
  <1>8. LoadingUntouched <=> (page = "loading" => draft = NewDraft)
    BY DEF LoadingUntouched
  <1>9. RequestIsClicked <=> (request # None => SavedAs(clicked, request))
    BY DEF RequestIsClicked, SavedAs
  <1>10. StoredIsKept <=> (kept # None => SavedAs(kept, stored))
    BY DEF StoredIsKept, SavedAs
  <1>11. StoredReadable <=>
           (stored # None => /\ IsDescriptor(FromProto(stored))
                             /\ ToProto(FromProto(stored)) = stored)
    BY DEF StoredReadable
  <1>12. OriginShown <=> OriginOf(origin, form)
    BY DEF OriginShown, OriginOf
  <1>13. SavedAs(kept, stored) => IsForm(kept)
    BY DEF SavedAs, Savable
  <1>14. (stored # None => ReadableMessage(stored)) <=>
           (stored # None => /\ IsDescriptor(FromProto(stored))
                             /\ ToProto(FromProto(stored)) = stored
                             /\ Accepted(stored)
                             /\ DistinctNames(stored.interfaces))
    BY DEF ReadableMessage
  <1>15. outcome \in {"none", "stored", "failed", "dropped"} <=>
           outcome \in {"none", "stored", "failed", "refused", "dropped"} /\ outcome # "refused"
    OBVIOUS
  <1>16. IInv <=>
           /\ SaveAnswered /\ DistinctInterfaceNames /\ DistinctMessageNames
           /\ TypingOK /\ RightNumbers /\ RightNameFree /\ LoadingUntouched
           /\ RequestIsClicked /\ StoredIsKept /\ StoredReadable
           /\ OriginShown
    BY DEF IInv
  <1>17. ASSUME IInv PROVE PageInv /\ CarlInv
    BY <1>1, <1>2, <1>3, <1>4, <1>5, <1>6, <1>7, <1>8, <1>9, <1>10, <1>11, <1>12, <1>14,
       <1>15, <1>16, <1>17 DEF PageInv, CarlInv
  <1>18. ASSUME PageInv, CarlInv PROVE IInv
    BY <1>1, <1>2, <1>3, <1>4, <1>5, <1>6, <1>7, <1>8, <1>9, <1>10, <1>11, <1>12, <1>13,
       <1>14, <1>15, <1>16, <1>18 DEF PageInv, CarlInv
  <1> QED
    BY <1>17, <1>18

-----------------------------------------------------------------------------
(* Edits.                                                                  *)

\* An edit leaves what CARL knows as it is.
CarlKept ==
    UNCHANGED <<isNew, request, awaiting, stored, outcome, clicked, kept, deleting, deleted>>

\* An edit keeps what holds of it.
LEMMA PageCarlKept ==
    ASSUME CarlInv, CarlKept
    PROVE  CarlInv'
  BY DEF CarlInv, CarlKept

\* What every edit does.
LEMMA PageEdit ==
    ASSUME PageInv, Edit
    PROVE  /\ page = "shown" /\ page' = page /\ edits' \in 0..MaxEdits /\ CarlKept
  <1>1. MaxEdits \in Nat
    BY PeerFormAssumption
  <1>2. /\ page = "shown" /\ page' = page /\ edits < MaxEdits /\ edits' = edits + 1
        /\ CarlKept
    BY DEF Edit, carl, CarlKept
  <1> QED
    BY <1>1, <1>2 DEF PageInv

\* The form is edited.
LEMMA PageFormEdited ==
    ASSUME PageInv, page = "shown", page' = page, edits' \in 0..MaxEdits,
           NEW f, Edited(f), IsForm(f), f.interfaces = form.interfaces,
           draft' = draft, AllTyped(typing')
    PROVE  PageInv'
  <1>1. form' = f /\ origin' = None
    BY DEF Edited
  <1> QED
    BY <1>1 DEF PageInv, OriginOf

\* The draft is edited, or something typed.
LEMMA PageDraftEdited ==
    ASSUME PageInv, page = "shown", page' = page, edits' \in 0..MaxEdits,
           form' = form, origin' = origin, RightDraft(draft'),
           FreeIn(draft'.name, form.interfaces), AllTyped(typing')
    PROVE  PageInv'
  BY DEF PageInv

\* A text of a field is something typed into it.
LEMMA PageTextTyped ==
    ASSUME PageInv, NEW f \in DebouncedFields \cup {DraftName}, NEW t \in Text
    PROVE  TypedInto(f, t)
  <1>1. DOMAIN form.devices \subseteq DeviceIds /\ DOMAIN form.executors \subseteq ExecutorIds
    BY PageFormParts DEF PageInv
  <1>2. f \in TextField
    BY <1>1 DEF DebouncedFields, Field, TextField, DraftName
  <1> QED
    BY <1>2 DEF TypedInto

\* A key was pressed in a text input.
LEMMA PageTypeText ==
    ASSUME PageInv,
           NEW f \in DebouncedFields \cup {DraftName}, NEW t \in Texts,
           TypeText(f, t)
    PROVE  PageInv' /\ CarlKept
  <1>1. /\ page = "shown" /\ page' = page /\ edits' \in 0..MaxEdits /\ CarlKept
    BY PageEdit DEF TypeText
  <1>2. typing' = With(typing, f, t) /\ form' = form /\ draft' = draft /\ origin' = origin
    BY DEF TypeText
  <1>3. TypedInto(f, t)
    BY PageTextTyped, PeerFormAssumption
  <1>4. AllTyped(typing')
    BY <1>2, <1>3, PageTypedMore DEF PageInv
  <1>5. RightDraft(draft') /\ FreeIn(draft'.name, form.interfaces)
    BY <1>2 DEF PageInv
  <1> QED
    BY <1>1, <1>2, <1>4, <1>5, PageDraftEdited

\* What is numbered was typed as a number.
LEMMA PageTypeNumber ==
    ASSUME PageInv, NEW n \in NumberFields,
           NEW x \in Numbers(n), TypeNumber(n, x)
    PROVE  PageInv' /\ CarlKept
  <1> DEFINE f == Field("draft", None, n)
  <1>1. /\ page = "shown" /\ page' = page /\ edits' \in 0..MaxEdits /\ CarlKept
    BY PageEdit DEF TypeNumber
  <1>2. typing' = With(typing, f, x) /\ form' = form /\ draft' = draft /\ origin' = origin
    BY DEF TypeNumber
  <1>3. TypedInto(f, x)
    <2>1. n \in {"bitrate", "sample", "dataBitrate", "dataSample"}
      BY DEF NumberFields
    <2>2. f \in NumberField
      BY <2>1 DEF Field, NumberField
    <2>3. Bitrates \subseteq 0..(U32 - 1) /\ SamplePoints \subseteq Int
      BY PeerFormAssumption
    <2>4. Bitrates \subseteq Int
      BY <2>3, PeerFormAssumption
    <2>5. x \in Int \cup {NotANumber}
      <3>1. x \in {NotANumber} \cup Bitrates \cup SamplePoints
        BY DEF Numbers
      <3> QED
        BY <2>3, <2>4, <3>1
    <2> QED
      BY <2>2, <2>5 DEF TypedInto
  <1> HIDE DEF f
  <1>4. AllTyped(typing')
    BY <1>2, <1>3, PageTypedMore DEF PageInv
  <1>5. RightDraft(draft') /\ FreeIn(draft'.name, form.interfaces)
    BY <1>2 DEF PageInv
  <1> QED
    BY <1>1, <1>2, <1>4, <1>5, PageDraftEdited

\* The kind of the interface to be added is chosen.
LEMMA PageChooseKind ==
    ASSUME PageInv, NEW kind \in {"Ethernet", "Can"},
           ChooseKind(kind)
    PROVE  PageInv' /\ CarlKept
  <1>1. /\ page = "shown" /\ page' = page /\ edits' \in 0..MaxEdits /\ CarlKept
    BY PageEdit DEF ChooseKind
  <1>2. /\ draft' = [draft EXCEPT !.kind = kind] /\ typing' = typing /\ form' = form
        /\ origin' = origin
    BY DEF ChooseKind
  <1>3. RightDraft(draft') /\ draft'.name = draft.name
    BY <1>2 DEF PageInv, RightDraft, Draft
  <1>4. AllTyped(typing') /\ FreeIn(draft'.name, form.interfaces)
    BY <1>2, <1>3 DEF PageInv
  <1> QED
    BY <1>1, <1>2, <1>3, <1>4, PageDraftEdited

\* CAN FD is turned on or off.
LEMMA PageToggleFd ==
    ASSUME PageInv, ToggleFd
    PROVE  PageInv' /\ CarlKept
  <1>1. /\ page = "shown" /\ page' = page /\ edits' \in 0..MaxEdits /\ CarlKept
    BY PageEdit DEF ToggleFd
  <1>2. /\ draft' = [draft EXCEPT !.fd = ~draft.fd] /\ typing' = typing /\ form' = form
        /\ origin' = origin
    BY DEF ToggleFd
  <1>3. RightDraft(draft') /\ draft'.name = draft.name
    <2>1. (~draft.fd) \in BOOLEAN
      OBVIOUS
    <2> DEFINE fd == ~draft.fd
    <2> HIDE DEF fd
    <2>2. draft' = [draft EXCEPT !.fd = fd] /\ fd \in BOOLEAN
      BY <1>2, <2>1 DEF fd
    <2> QED
      BY <2>2 DEF PageInv, RightDraft, Draft
  <1>4. AllTyped(typing') /\ FreeIn(draft'.name, form.interfaces)
    BY <1>2, <1>3 DEF PageInv
  <1> QED
    BY <1>1, <1>2, <1>3, <1>4, PageDraftEdited

\* The pause after typing is over: an input of the form is validated.
LEMMA PageFieldSet ==
    ASSUME IsForm(form), NEW f, NEW t, TypedInto(f, t), f.part # "draft"
    PROVE  LET g == Set(f, Validate(f, t))
           IN  IsForm(g) /\ g.interfaces = form.interfaces
  <1> DEFINE v == Validate(f, t)
             g == Set(f, v)
  <1>1. /\ t \in Text
        /\ \/ f.part = "peer" /\ f.name \in {"name", "location", "bridge"}
           \/ f.part = "device" /\ f.name = "name"
           \/ f.part = "executor" /\ f.name \in {"name", "image", "command", "results"}
    BY DEF TypedInto, TextField, NumberField, DraftName, Field
  <1>2. CASE f.part = "peer"
    <2>1. /\ f.name = "name" => v = PeerNameInput(t)
          /\ f.name = "location" => v = PeerLocationInput(t)
          /\ f.name = "bridge" => v = BridgeNameInput(t)
      BY <1>2 DEF Validate
    <2>2. g = [form EXCEPT ![f.name] = v]
      BY <1>2 DEF Set
    <2>3. /\ f.name = "name" => v \in PeerNames
          /\ f.name = "location" => v \in Locations
          /\ f.name = "bridge" => v \in Bridges
          /\ f.name \in {"name", "location", "bridge"}
      BY <1>1, <1>2, <2>1, PageValidators
    <2> HIDE DEF v, g
    <2>4. IsForm(g) /\ g.interfaces = form.interfaces
      BY <2>2, <2>3, PagePeerTyped
    <2> QED
      BY <2>4 DEF v, g
  <1>3. CASE f.part = "device"
    <2>1. v = DeviceNameInput(t)
      BY <1>3 DEF Validate
    <2>2. g = [form EXCEPT !.devices[f.id] = [form.devices[f.id] EXCEPT ![f.name] = v]]
      BY <1>3 DEF Set
    <2>3. v \in DeviceNames /\ f.name = "name"
      BY <1>1, <1>3, <2>1, PageValidators
    <2> HIDE DEF v, g
    <2>4. f.id \in DOMAIN form.devices =>
             [form.devices[f.id] EXCEPT ![f.name] = v] \in ValidatedDevices
      BY <2>3, PageFormParts, PageDeviceTyped
    <2>5. IsForm(g) /\ g.interfaces = form.interfaces
      BY <2>2, <2>4, PageDevicePut
    <2> QED
      BY <2>5 DEF v, g
  <1>4. CASE f.part = "executor"
    <2>1. /\ f.name = "name" => v = ExecutorContainerNameInput(t)
          /\ f.name = "image" => v = ExecutorContainerImageInput(t)
          /\ f.name = "command" => v = ExecutorContainerCommandInput(t)
          /\ f.name = "results" => v = ExecutorContainerResultsUrlInput(t)
      BY <1>4 DEF Validate
    <2>2. g = [form EXCEPT !.executors[f.id] = [form.executors[f.id] EXCEPT ![f.name] = v]]
      BY <1>4 DEF Set
    <2>3. /\ f.name = "name" => v \in ContainerNames
          /\ f.name = "image" => v \in ImageInputs
          /\ f.name = "command" => v \in CommandInputs
          /\ f.name = "results" => v \in ResultsUrls
          /\ f.name \in {"name", "image", "command", "results"}
      BY <1>1, <1>4, <2>1, PageValidators
    <2> HIDE DEF v, g
    <2>4. f.id \in DOMAIN form.executors =>
             [form.executors[f.id] EXCEPT ![f.name] = v] \in ValidatedExecutors
      BY <2>3, PageFormParts, PageExecutorTyped
    <2>5. IsForm(g) /\ g.interfaces = form.interfaces
      BY <2>2, <2>4, PageExecutorPut
    <2> QED
      BY <2>5 DEF v, g
  <1> QED
    BY <1>1, <1>2, <1>3, <1>4

\* The pause is over, for an input of the form or of the draft.
LEMMA PageSettle ==
    ASSUME PageInv, NEW f \in DOMAIN typing, Settle(f)
    PROVE  PageInv' /\ CarlKept
  <1> DEFINE t == typing[f]
             v == Validate(f, t)
  <1>1. TypedInto(f, t)
    BY DEF PageInv, AllTyped
  <1>2. /\ page = "shown" /\ page' = page /\ edits' = edits /\ CarlKept
        /\ typing' = Without(typing, f)
    BY DEF Settle, CarlKept, carl
  <1>3. edits' \in 0..MaxEdits /\ AllTyped(typing')
    BY <1>2, PageTypedWithout DEF PageInv
  <1>4. CASE f.part # "draft"
    <2>1. Edited(Set(f, v)) /\ draft' = draft
      BY <1>4 DEF Settle
    <2>2. IsForm(Set(f, v)) /\ Set(f, v).interfaces = form.interfaces
      BY <1>1, <1>4, PageFieldSet DEF PageInv
    <2> HIDE DEF v
    <2> QED
      BY <1>2, <1>3, <2>1, <2>2, PageFormEdited
  <1>5. CASE f.part = "draft"
    <2>1. draft' = [draft EXCEPT ![f.name] = v] /\ form' = form /\ origin' = origin
      BY <1>5 DEF Settle
    <2>2. \/ f.name = "name" /\ t \in Text
          \/ /\ f.name \in {"bitrate", "sample", "dataBitrate", "dataSample"}
             /\ t \in Int \cup {NotANumber}
      BY <1>1, <1>5 DEF TypedInto, TextField, NumberField, DraftName, Field
    <2>3. /\ f.name = "name" => v = InterfaceNameInput(t)
          /\ f.name \in {"bitrate", "dataBitrate"} => v = BitrateValidator(t)
          /\ f.name \in {"sample", "dataSample"} => v = SamplePointsValidator(t)
      BY <1>5 DEF Validate
    <2> HIDE DEF v, t
    <2>4. /\ \/ f.name = "name" /\ v \in Input
             \/ f.name \in {"bitrate", "dataBitrate"} /\ v \in Number /\ RightBitrate(v)
             \/ f.name \in {"sample", "dataSample"} /\ v \in Number /\ RightSample(v)
          /\ f.name = "name" => FreeIn(v, form.interfaces)
      BY <2>2, <2>3, PageInterfaceNameTyped, PageBitrateTyped, PageSampleTyped
    <2>5. /\ RightDraft(draft')
          /\ draft'.name = IF f.name = "name" THEN v ELSE draft.name
      <3>1. RightDraft(draft)
        BY DEF PageInv
      <3> QED
        BY <2>1, <2>4, <3>1, PageDraftTyped
    <2>6. FreeIn(draft'.name, form.interfaces)
      BY <2>4, <2>5 DEF PageInv
    <2> QED
      BY <1>2, <1>3, <2>1, <2>5, <2>6, PageDraftEdited
  <1> QED
    BY <1>2, <1>4, <1>5

\* An interface is added: its name was free, or has spaces.
LEMMA PageAddInterface ==
    ASSUME PageInv,
           NEW i \in InterfaceIds \ DOMAIN form.interfaces, AddInterface(i)
    PROVE  PageInv' /\ CarlKept
  <1> DEFINE x == [name |-> draft.name.text, configuration |-> Configuration]
             m == With(form.interfaces, i, x)
  <1>1. /\ page = "shown" /\ page' = page /\ edits' \in 0..MaxEdits /\ CarlKept
    BY PageEdit DEF AddInterface
  <1>2. /\ IsRight(draft.name) /\ NetworkInterfaceName(draft.name.text)
        /\ draft.kind = "Can" => ~CanPanics
        /\ form' = [form EXCEPT !.interfaces = m] /\ origin' = None
        /\ draft' = [draft EXCEPT !.name = Right(Empty)]
        /\ typing' = [f \in DOMAIN typing |->
                        IF f = DraftName THEN Empty ELSE typing[f]]
    BY DEF AddInterface, AddEnabled, Edited
  <1>3. x \in AcceptedInterfaces
    BY <1>2, PageInterfaceAdded DEF PageInv
  <1>4. x.name.chars = "padded" \/ \A j \in DOMAIN form.interfaces : form.interfaces[j].name # x.name
    BY <1>2 DEF PageInv, FreeIn
  <1> HIDE DEF x
  <1>5. IsMap(m, InterfaceIds, AcceptedInterfaces)
    BY <1>3, PageMapWith, PageValidatedForm DEF PageInv
  <1>6. DistinctNames(m)
    BY <1>4, PageNamesWith DEF PageInv
  <1> HIDE DEF m
  <1>7. IsForm(form') /\ form'.interfaces = m
    BY <1>2, <1>5, PageInterfacesPut DEF PageInv
  <1>8. RightDraft(draft') /\ draft'.name = Right(Empty)
    <2>1. Right(Empty) \in Input
      BY PageNothingTyped
    <2> QED
      BY <1>2, <2>1 DEF PageInv, RightDraft, Draft
  <1>9. FreeIn(draft'.name, form'.interfaces)
    <2>1. ~NetworkInterfaceName(draft'.name.text)
      BY <1>8, PageNothingTyped DEF NetworkInterfaceName, IsEmpty
    <2> QED
      BY <2>1 DEF FreeIn
  <1>10. AllTyped(typing')
    BY <1>2, PageTypedEmptied DEF PageInv
  <1>11. PageInv'
    BY <1>1, <1>2, <1>6, <1>7, <1>8, <1>9, <1>10 DEF PageInv, OriginOf
  <1> QED
    BY <1>1, <1>11

\* An interface is deleted: what was free stays free.
LEMMA PageDeleteInterface ==
    ASSUME PageInv, NEW i, DeleteInterface(i)
    PROVE  PageInv' /\ CarlKept
  <1> DEFINE m == Without(form.interfaces, i)
  <1>1. /\ page = "shown" /\ page' = page /\ edits' \in 0..MaxEdits /\ CarlKept
    BY PageEdit DEF DeleteInterface
  <1>2. /\ form' = [form EXCEPT !.interfaces = m] /\ origin' = None
        /\ draft' = draft /\ typing' = typing
    BY DEF DeleteInterface, Edited
  <1>3. IsMap(m, InterfaceIds, AcceptedInterfaces)
    BY PageMapWithout, PageValidatedForm DEF PageInv
  <1>4. DistinctNames(m)
    BY PageNamesWithout DEF PageInv
  <1>5. FreeIn(draft.name, m)
    <2>1. DOMAIN m \subseteq DOMAIN form.interfaces /\ \A j \in DOMAIN m : m[j] = form.interfaces[j]
      BY DEF Without, Restrict
    <2> HIDE DEF m
    <2> QED
      BY <2>1 DEF PageInv, FreeIn
  <1> HIDE DEF m
  <1>6. IsForm(form') /\ form'.interfaces = m
    BY <1>2, <1>3, PageInterfacesPut DEF PageInv
  <1>7. PageInv'
    BY <1>1, <1>2, <1>4, <1>5, <1>6 DEF PageInv, OriginOf
  <1> QED
    BY <1>1, <1>7

-----------------------------------------------------------------------------
(* Devices.                                                                *)

\* A device is added.
LEMMA PageAddDevice ==
    ASSUME PageInv, NEW d \in DeviceIds, AddDevice(d)
    PROVE  PageInv' /\ CarlKept
  <1> DEFINE x == [name |-> Left, description |-> Right(Empty), interface |-> None]
             m == With(form.devices, d, x)
             f == [form EXCEPT !.devices = m]
  <1>1. /\ page = "shown" /\ page' = page /\ edits' \in 0..MaxEdits /\ CarlKept
    BY PageEdit DEF AddDevice
  <1>2. Edited(f) /\ draft' = draft /\ typing' = typing
    BY DEF AddDevice
  <1>3. x \in ValidatedDevices
    BY PageNewInputs DEF ValidatedDevices
  <1> HIDE DEF x
  <1>4. IsMap(m, DeviceIds, ValidatedDevices)
    BY <1>3, PageMapWith, PageValidatedForm DEF PageInv
  <1> HIDE DEF m
  <1>5. IsForm(f) /\ f.interfaces = form.interfaces
    BY <1>4, PageDevicesPut DEF PageInv
  <1>6. AllTyped(typing')
    BY <1>2 DEF PageInv
  <1> HIDE DEF f
  <1> QED
    BY <1>1, <1>2, <1>5, <1>6, PageFormEdited

\* The description of a device is typed.
LEMMA PageTypeDescription ==
    ASSUME PageInv, NEW d, NEW t \in Texts,
           TypeDescription(d, t)
    PROVE  PageInv' /\ CarlKept
  <1> DEFINE v == DeviceDescriptionInput(t)
             x == [form.devices[d] EXCEPT !.description = v]
             f == [form EXCEPT !.devices[d] = x]
  <1>1. /\ page = "shown" /\ page' = page /\ edits' \in 0..MaxEdits /\ CarlKept
    BY PageEdit DEF TypeDescription
  <1>2. Edited(f) /\ draft' = draft /\ typing' = typing
    BY DEF TypeDescription
  <1>3. v \in Descriptions
    <2>1. t \in Text
      BY PeerFormAssumption
    <2> QED
      BY <2>1, PageValidators
  <1> HIDE DEF v
  <1>4. d \in DOMAIN form.devices => x \in ValidatedDevices
    BY <1>3, PageFormParts, PageDeviceTyped DEF PageInv
  <1> HIDE DEF x
  <1>5. IsForm(f) /\ f.interfaces = form.interfaces
    BY <1>4, PageDevicePut DEF PageInv
  <1>6. AllTyped(typing')
    BY <1>2 DEF PageInv
  <1> HIDE DEF f
  <1> QED
    BY <1>1, <1>2, <1>5, <1>6, PageFormEdited

\* The interface of a device is selected.
LEMMA PageSelectInterface ==
    ASSUME PageInv, NEW d,
           NEW i \in DOMAIN form.interfaces \cup {None}, SelectInterface(d, i)
    PROVE  PageInv' /\ CarlKept
  <1> DEFINE x == [form.devices[d] EXCEPT !.interface = i]
             f == [form EXCEPT !.devices[d] = x]
  <1>1. /\ page = "shown" /\ page' = page /\ edits' \in 0..MaxEdits /\ CarlKept
    BY PageEdit DEF SelectInterface
  <1>2. Edited(f) /\ draft' = draft /\ typing' = typing
    BY DEF SelectInterface
  <1>3. i \in InterfaceIds \cup {None}
    BY PageFormParts DEF PageInv
  <1>4. d \in DOMAIN form.devices => x \in ValidatedDevices
    BY <1>3, PageFormParts, PageDeviceTyped DEF PageInv
  <1> HIDE DEF x
  <1>5. IsForm(f) /\ f.interfaces = form.interfaces
    BY <1>4, PageDevicePut DEF PageInv
  <1>6. AllTyped(typing')
    BY <1>2 DEF PageInv
  <1> HIDE DEF f
  <1> QED
    BY <1>1, <1>2, <1>5, <1>6, PageFormEdited

\* With a device or an executor goes what is typed into its inputs.
LEMMA PageTypingLeft ==
    ASSUME PageInv, NEW part, NEW id, typing' = TypingWithout(part, id)
    PROVE  AllTyped(typing')
  BY PageTypedLess DEF PageInv, TypingWithout

\* A device is deleted.
LEMMA PageDeleteDevice ==
    ASSUME PageInv, NEW d, DeleteDevice(d)
    PROVE  PageInv' /\ CarlKept
  <1> DEFINE m == Without(form.devices, d)
             f == [form EXCEPT !.devices = m]
  <1>1. /\ page = "shown" /\ page' = page /\ edits' \in 0..MaxEdits /\ CarlKept
    BY PageEdit DEF DeleteDevice
  <1>2. Edited(f) /\ draft' = draft /\ typing' = TypingWithout("device", d)
    BY DEF DeleteDevice
  <1>3. IsMap(m, DeviceIds, ValidatedDevices)
    BY PageMapWithout, PageValidatedForm DEF PageInv
  <1> HIDE DEF m
  <1>4. IsForm(f) /\ f.interfaces = form.interfaces
    BY <1>3, PageDevicesPut DEF PageInv
  <1>5. AllTyped(typing')
    BY <1>2, PageTypingLeft
  <1> HIDE DEF f
  <1> QED
    BY <1>1, <1>2, <1>4, <1>5, PageFormEdited

-----------------------------------------------------------------------------
(* Executors.                                                              *)

\* An executor is added.
LEMMA PageAddExecutor ==
    ASSUME PageInv, NEW e \in ExecutorIds, AddExecutor(e)
    PROVE  PageInv' /\ CarlKept
  <1> DEFINE ls == [list \in VectorFields |-> <<>>]
             x == [engine |-> "Podman", name |-> Right(Empty), image |-> Left,
                   command |-> Right(Empty), results |-> Right(Empty),
                   lists |-> ls, envs |-> <<>>]
             m == With(form.executors, e, x)
             f == [form EXCEPT !.executors = m]
  <1>1. /\ page = "shown" /\ page' = page /\ edits' \in 0..MaxEdits /\ CarlKept
    BY PageEdit DEF AddExecutor
  <1>2. Edited(f) /\ draft' = draft /\ typing' = typing
    BY DEF AddExecutor
  <1>3. /\ ls \in [VectorFields -> Seq(Input)] /\ ListsOk(ls)
    BY DEF ListsOk
  <1> HIDE DEF ls
  <1>4. x \in ValidatedExecutors
    BY <1>3, PageNewInputs DEF ValidatedExecutors
  <1> HIDE DEF x
  <1>5. IsMap(m, ExecutorIds, ValidatedExecutors)
    BY <1>4, PageMapWith, PageValidatedForm DEF PageInv
  <1> HIDE DEF m
  <1>6. IsForm(f) /\ f.interfaces = form.interfaces
    BY <1>5, PageExecutorsPut DEF PageInv
  <1>7. AllTyped(typing')
    BY <1>2 DEF PageInv
  <1> HIDE DEF f
  <1> QED
    BY <1>1, <1>2, <1>6, <1>7, PageFormEdited

\* An executor is deleted.
LEMMA PageDeleteExecutor ==
    ASSUME PageInv, NEW e, DeleteExecutor(e)
    PROVE  PageInv' /\ CarlKept
  <1> DEFINE m == Without(form.executors, e)
             f == [form EXCEPT !.executors = m]
  <1>1. /\ page = "shown" /\ page' = page /\ edits' \in 0..MaxEdits /\ CarlKept
    BY PageEdit DEF DeleteExecutor
  <1>2. Edited(f) /\ draft' = draft /\ typing' = TypingWithout("executor", e)
    BY DEF DeleteExecutor
  <1>3. IsMap(m, ExecutorIds, ValidatedExecutors)
    BY PageMapWithout, PageValidatedForm DEF PageInv
  <1> HIDE DEF m
  <1>4. IsForm(f) /\ f.interfaces = form.interfaces
    BY <1>3, PageExecutorsPut DEF PageInv
  <1>5. AllTyped(typing')
    BY <1>2, PageTypingLeft
  <1> HIDE DEF f
  <1> QED
    BY <1>1, <1>2, <1>4, <1>5, PageFormEdited

\* An executor is changed.
LEMMA PageExecutorEdited ==
    ASSUME PageInv, page = "shown", page' = page, edits' \in 0..MaxEdits,
           NEW e \in DOMAIN form.executors, NEW x \in ValidatedExecutors,
           Edited([form EXCEPT !.executors[e] = x]), draft' = draft, typing' = typing
    PROVE  PageInv'
  <1> DEFINE f == [form EXCEPT !.executors[e] = x]
  <1>1. IsForm(f) /\ f.interfaces = form.interfaces
    BY PageExecutorPut DEF PageInv
  <1>2. AllTyped(typing') /\ Edited(f)
    BY DEF PageInv
  <1> HIDE DEF f
  <1> QED
    BY <1>1, <1>2, PageFormEdited

\* What an executor of the form is made of.
LEMMA PageExecutorParts ==
    ASSUME PageInv, NEW e \in DOMAIN form.executors
    PROVE  /\ form.executors[e] \in ValidatedExecutors
           /\ form.executors[e].envs \in Seq(Envs)
           /\ \A list \in VectorFields :
                 form.executors[e].lists[list] \in Seq(EntriesOf(list))
  <1>1. form.executors[e] \in ValidatedExecutors
    BY PageFormParts DEF PageInv
  <1> QED
    BY <1>1 DEF ValidatedExecutors, ListsOk

\* The engine of an executor is chosen.
LEMMA PageChooseEngine ==
    ASSUME PageInv, NEW e \in DOMAIN form.executors,
           NEW engine \in {"Docker", "Podman"}, ChooseEngine(e, engine)
    PROVE  PageInv' /\ CarlKept
  <1> DEFINE x == [form.executors[e] EXCEPT !.engine = engine]
  <1>1. /\ page = "shown" /\ page' = page /\ edits' \in 0..MaxEdits /\ CarlKept
    BY PageEdit DEF ChooseEngine
  <1>2. Edited([form EXCEPT !.executors[e] = x]) /\ draft' = draft /\ typing' = typing
    BY DEF ChooseEngine
  <1>3. x \in ValidatedExecutors
    BY PageExecutorParts, PageExecutorTyped
  <1> HIDE DEF x
  <1> QED
    BY <1>1, <1>2, <1>3, PageExecutorEdited

\* The environment variables of an executor are changed.
LEMMA PageEnvsEdited ==
    ASSUME PageInv, page = "shown", page' = page, edits' \in 0..MaxEdits,
           NEW e \in DOMAIN form.executors, NEW s \in Seq(Envs),
           Edited([form EXCEPT !.executors[e].envs = s]), draft' = draft, typing' = typing
    PROVE  PageInv'
  <1> DEFINE x == [form.executors[e] EXCEPT !.envs = s]
  <1>1. x \in ValidatedExecutors
    BY PageExecutorParts, PageExecutorTyped
  <1>2. Edited([form EXCEPT !.executors[e] = x])
    OBVIOUS
  <1> HIDE DEF x
  <1> QED
    BY <1>1, <1>2, PageExecutorEdited

\* An environment variable is added.
LEMMA PageAddEnv ==
    ASSUME PageInv, NEW e \in DOMAIN form.executors, AddEnv(e)
    PROVE  PageInv' /\ CarlKept
  <1> DEFINE v == [name |-> Left, value |-> Empty]
             s == Append(form.executors[e].envs, v)
  <1>1. /\ page = "shown" /\ page' = page /\ edits' \in 0..MaxEdits /\ CarlKept
    BY PageEdit DEF AddEnv
  <1>2. Edited([form EXCEPT !.executors[e].envs = s]) /\ draft' = draft /\ typing' = typing
    BY DEF AddEnv
  <1>3. v \in Envs
    BY PageNewInputs, PageEmpty DEF Envs
  <1> HIDE DEF v
  <1>4. s \in Seq(Envs)
    BY <1>3, PageExecutorParts, PageListAdded
  <1> HIDE DEF s
  <1> QED
    BY <1>1, <1>2, <1>4, PageEnvsEdited

\* An environment variable is typed.
LEMMA PageTypeEnv ==
    ASSUME PageInv, NEW e \in DOMAIN form.executors,
           NEW n \in DOMAIN form.executors[e].envs, NEW t \in Texts, TypeEnv(e, n, t, t)
    PROVE  PageInv' /\ CarlKept
  <1> DEFINE envs == form.executors[e].envs
             v == EnvNameInput(t)
             x == [envs[n] EXCEPT !.name = v]
             y == [envs[n] EXCEPT !.value = t]
  <1>1. /\ page = "shown" /\ page' = page /\ edits' \in 0..MaxEdits /\ CarlKept
    BY PageEdit DEF TypeEnv
  <1>2. /\ \/ Edited([form EXCEPT !.executors[e].envs = [envs EXCEPT ![n] = x]])
           \/ Edited([form EXCEPT !.executors[e].envs = [envs EXCEPT ![n] = y]])
        /\ draft' = draft /\ typing' = typing
    BY DEF TypeEnv
  <1>3. t \in Text /\ v \in EnvNames
    <2>1. t \in Text
      BY PeerFormAssumption
    <2> QED
      BY <2>1, PageValidators
  <1> HIDE DEF v
  <1>4. envs \in Seq(Envs) /\ envs[n] \in Envs
    BY PageExecutorParts, PageEntries
  <1>5. x \in Envs /\ y \in Envs
    BY <1>3, <1>4 DEF Envs
  <1> HIDE DEF x, y
  <1>6. [envs EXCEPT ![n] = x] \in Seq(Envs) /\ [envs EXCEPT ![n] = y] \in Seq(Envs)
    BY <1>4, <1>5, PageListTyped
  <1> HIDE DEF envs
  <1> QED
    BY <1>1, <1>2, <1>6, PageEnvsEdited

\* The environment variables of one name are deleted.
LEMMA PageDeleteEnv ==
    ASSUME PageInv, NEW e \in DOMAIN form.executors, NEW n,
           DeleteEnv(e, n)
    PROVE  PageInv' /\ CarlKept
  <1> DEFINE envs == form.executors[e].envs
             K == {k \in DOMAIN envs : envs[k].name.text # envs[n].name.text}
             s == EntriesAt(envs, K)
  <1>1. /\ page = "shown" /\ page' = page /\ edits' \in 0..MaxEdits /\ CarlKept
    BY PageEdit DEF DeleteEnv
  <1>2. Edited([form EXCEPT !.executors[e].envs = s]) /\ draft' = draft /\ typing' = typing
    BY DEF DeleteEnv
  <1>3. envs \in Seq(Envs)
    BY PageExecutorParts
  <1> HIDE DEF envs, K
  <1>4. s \in Seq(Envs)
    BY <1>3, PageEntriesLeft
  <1> HIDE DEF s
  <1> QED
    BY <1>1, <1>2, <1>4, PageEnvsEdited

\* A list of an executor is changed.
LEMMA PageListEdited ==
    ASSUME PageInv, page = "shown", page' = page, edits' \in 0..MaxEdits,
           NEW e \in DOMAIN form.executors, NEW list \in VectorFields,
           NEW s \in Seq(EntriesOf(list)),
           Edited([form EXCEPT !.executors[e].lists[list] = s]), draft' = draft,
           typing' = typing
    PROVE  PageInv'
  <1> DEFINE x == [form.executors[e] EXCEPT !.lists[list] = s]
  <1>1. x \in ValidatedExecutors
    BY PageExecutorParts, PageListTypedInto
  <1>2. Edited([form EXCEPT !.executors[e] = x])
    OBVIOUS
  <1> HIDE DEF x
  <1> QED
    BY <1>1, <1>2, PageExecutorEdited

\* An entry of a list is added.
LEMMA PageAddEntry ==
    ASSUME PageInv, NEW e \in DOMAIN form.executors,
           NEW list \in VectorFields, AddEntry(e, list)
    PROVE  PageInv' /\ CarlKept
  <1> DEFINE s == Append(form.executors[e].lists[list], Left)
  <1>1. /\ page = "shown" /\ page' = page /\ edits' \in 0..MaxEdits /\ CarlKept
    BY PageEdit DEF AddEntry
  <1>2. /\ Edited([form EXCEPT !.executors[e].lists[list] = s])
        /\ draft' = draft /\ typing' = typing
    BY DEF AddEntry
  <1>3. s \in Seq(EntriesOf(list))
    BY PageNewInputs, PageExecutorParts, PageListAdded
  <1> HIDE DEF s
  <1> QED
    BY <1>1, <1>2, <1>3, PageListEdited

\* An entry of a list is typed.
LEMMA PageTypeEntry ==
    ASSUME PageInv, NEW e \in DOMAIN form.executors,
           NEW list \in VectorFields, NEW n \in DOMAIN form.executors[e].lists[list],
           NEW t \in Texts, TypeEntry(e, list, n, t)
    PROVE  PageInv' /\ CarlKept
  <1> DEFINE v == ValidateEntry(list, t)
             s == [form.executors[e].lists[list] EXCEPT ![n] = v]
  <1>1. /\ page = "shown" /\ page' = page /\ edits' \in 0..MaxEdits /\ CarlKept
    BY PageEdit DEF TypeEntry
  <1>2. /\ Edited([form EXCEPT !.executors[e].lists[list] = s])
        /\ draft' = draft /\ typing' = typing
    BY DEF TypeEntry
  <1>3. v \in EntriesOf(list)
    <2>1. t \in Text
      BY PeerFormAssumption
    <2> QED
      BY <2>1, PageEntryValidated
  <1> HIDE DEF v
  <1>4. s \in Seq(EntriesOf(list))
    BY <1>3, PageExecutorParts, PageListTyped
  <1> HIDE DEF s
  <1> QED
    BY <1>1, <1>2, <1>4, PageListEdited

\* The entries with one text are deleted.
LEMMA PageDeleteEntry ==
    ASSUME PageInv, NEW e \in DOMAIN form.executors,
           NEW list \in VectorFields, NEW n, DeleteEntry(e, list, n)
    PROVE  PageInv' /\ CarlKept
  <1> DEFINE entries == form.executors[e].lists[list]
             K == {k \in DOMAIN entries : entries[k].text # entries[n].text}
             s == EntriesAt(entries, K)
  <1>1. /\ page = "shown" /\ page' = page /\ edits' \in 0..MaxEdits /\ CarlKept
    BY PageEdit DEF DeleteEntry
  <1>2. /\ Edited([form EXCEPT !.executors[e].lists[list] = s])
        /\ draft' = draft /\ typing' = typing
    BY DEF DeleteEntry
  <1>3. entries \in Seq(EntriesOf(list))
    BY PageExecutorParts
  <1> HIDE DEF entries, K
  <1>4. s \in Seq(EntriesOf(list))
    BY <1>3, PageEntriesLeft
  <1> HIDE DEF s
  <1> QED
    BY <1>1, <1>2, <1>4, PageListEdited

-----------------------------------------------------------------------------
(* Saving and loading.                                                     *)

\* A form that the button lets through is sent, unless an input that the
\* button does not look at is not right; and it never panics.
LEMMA PageSavedUnlessDropped ==
    ASSUME NEW f, IsForm(f), IsValidPeerConfiguration(f)
    PROVE  ~FormPanics(f) /\ (FormConverts(f) \/ ClickDropped(f))
  <1>1. /\ IsRight(f.name) /\ IsRight(f.location)
        /\ \A x \in DOMAIN f.devices : /\ IsRight(f.devices[x].name)
                                      /\ f.devices[x].interface # None
        /\ \A x \in DOMAIN f.executors : ValidExecutor(f.executors[x])
    BY DEF IsValidPeerConfiguration, All
  <1>2. /\ Validated(f.name, PeerName)
        /\ Validated(f.location, PeerLocation)
        /\ Validated(f.bridge, LAMBDA t : IsEmpty(t) \/ NetworkInterfaceName(t))
        /\ \A x \in DOMAIN f.devices : ValidatedDevice(f.devices[x])
        /\ \A x \in DOMAIN f.executors : ValidatedExecutor(f.executors[x])
    BY DEF IsForm, All
  <1>3. \A i : IsRight(i) => HasText(i)
    BY DEF IsRight, HasText
  <1>4. ~FormPanics(f)
    BY <1>1 DEF FormPanics, DevicePanics
  <1>5. ASSUME ~ClickDropped(f) PROVE FormConverts(f)
    <2>1. IsRight(f.bridge) /\ \A x \in DOMAIN f.devices : IsRight(f.devices[x].description)
      BY <1>5 DEF ClickDropped
    <2>2. HasText(f.name) /\ PeerName(f.name.text)
      BY <1>1, <1>2, <1>3 DEF Validated
    <2>3. HasText(f.location) /\ PeerLocation(f.location.text)
      BY <1>1, <1>2, <1>3 DEF Validated
    <2>4. BridgeConverts(f.bridge)
      BY <1>2, <1>3, <2>1 DEF Validated, BridgeConverts
    <2>5. \A x \in DOMAIN f.devices : DeviceConverts(f.devices[x])
      BY <1>1, <1>2, <1>3, <2>1 DEF Validated, ValidatedDevice, DeviceConverts
    <2>6. \A x \in DOMAIN f.executors : ExecutorConverts(f.executors[x])
      <3> SUFFICES ASSUME NEW x \in DOMAIN f.executors
                   PROVE  ExecutorConverts(f.executors[x])
        OBVIOUS
      <3> DEFINE e == f.executors[x]
      <3>1. ValidExecutor(e) /\ ValidatedExecutor(e)
        BY <1>1, <1>2
      <3> HIDE DEF e
      <3>2. /\ IsRight(e.name) /\ IsRight(e.image) /\ IsRight(e.command)
            /\ IsRight(e.results)
            /\ \A list \in VectorFields : \A n \in DOMAIN e.lists[list] :
                  IsRight(e.lists[list][n])
            /\ \A n \in DOMAIN e.envs : IsRight(e.envs[n].name)
        BY <3>1 DEF ValidExecutor, All
      <3>3. /\ ContainerName(e.name.text) /\ ContainerImage(e.image.text)
            /\ ContainerCommand(e.command.text)
            /\ IsEmpty(e.results.text) \/ ResultsUrl(e.results.text)
        BY <1>3, <3>1, <3>2 DEF ValidatedExecutor, Validated
      <3>4. \A list \in VectorFields : \A n \in DOMAIN e.lists[list] :
               ContainerText(list, e.lists[list][n].text)
        BY <1>3, <3>1, <3>2 DEF ValidatedExecutor, Validated, All
      <3>5. \A n \in DOMAIN e.envs : ~IsEmpty(e.envs[n].name.text)
        BY <1>3, <3>1, <3>2 DEF ValidatedExecutor, Validated, All
      <3>6. \A n \in DOMAIN e.envs : EnvConverts(e.envs[n])
        BY <1>3, <3>2, <3>5 DEF EnvConverts, ContainerEnvironmentVariable
      <3>7. ExecutorConverts(e)
        BY <1>3, <3>2, <3>3, <3>4, <3>6 DEF ExecutorConverts, All
      <3> QED
        BY <3>7 DEF e
    <2> QED
      BY <2>2, <2>3, <2>4, <2>5, <2>6 DEF FormConverts, All
  <1> QED
    BY <1>4, <1>5

\* The message of a form that was saved: CARL accepts it, and reads back what
\* has the same message.
LEMMA PageMessageSaved ==
    ASSUME NEW f, NEW p, SavedAs(f, p)
    PROVE  /\ p # None /\ p.interfaces = f.interfaces /\ IsForm(f)
           /\ Accepted(p) /\ IsDescriptor(FromProto(p))
           /\ ToProto(FromProto(p)) = p
  <1> DEFINE d == DescriptorOf(f)
  <1>1. Savable(f) /\ p = ToProto(d)
    BY DEF SavedAs
  <1>2. IsDescriptor(d) /\ d.interfaces = f.interfaces
    BY <1>1, PagePeerSaved
  <1> HIDE DEF d
  <1> QED
    BY <1>1, <1>2, PagePeerRoundTrip DEF Savable

\* Save: the form is sent, or the click dropped.
LEMMA PageSave ==
    ASSUME PageInv, CarlInv, Save
    PROVE  PageInv' /\ CarlInv' /\ page' = page
  <1>1. /\ page = "shown" /\ request = None /\ IsValidPeerConfiguration(form)
        /\ clicked' = form
        /\ UNCHANGED <<form, draft, typing, isNew, stored, kept, deleting, deleted, origin, edits>>
    BY DEF Save
  <1>2. IsForm(form) /\ DistinctNames(form.interfaces)
    BY DEF PageInv
  <1>3. ~FormPanics(form) /\ (FormConverts(form) \/ ClickDropped(form))
    BY <1>1, <1>2, PageSavedUnlessDropped
  <1>4. /\ isNew' \in BOOLEAN /\ IsForm(clicked') /\ (~isNew' => stored' # None \/ deleted')
        /\ deleting' \in BOOLEAN /\ deleted' \in BOOLEAN
        /\ (stored' # None => ReadableMessage(stored'))
        /\ (kept' # None => SavedAs(kept', stored'))
    BY <1>1, <1>2 DEF CarlInv
  <1>5. CASE ~FormConverts(form)
    <2>1. /\ page' = page /\ outcome' = "dropped" /\ request' = request /\ awaiting' = awaiting
      BY <1>3, <1>5 DEF Save
    <2>2. ClickDropped(clicked')
      BY <1>1, <1>3, <1>5
    <2>3. CarlInv'
      BY <1>1, <1>4, <2>1, <2>2 DEF CarlInv
    <2>4. PageInv'
      BY <1>1, <2>1 DEF PageInv
    <2> QED
      BY <2>1, <2>3, <2>4
  <1>6. CASE FormConverts(form)
    <2>1. /\ page' = page /\ outcome' = "none" /\ awaiting' = TRUE
          /\ request' = ToProto(DescriptorOf(form))
      BY <1>3, <1>6 DEF Save
    <2>2. SavedAs(form, request')
      BY <1>1, <1>2, <1>6, <2>1 DEF SavedAs, Savable
    <2>3. request' # None /\ request'.interfaces = form.interfaces
      BY <2>2, PageMessageSaved
    <2>4. CarlInv'
      BY <1>1, <1>2, <1>4, <2>1, <2>2, <2>3 DEF CarlInv
    <2>5. PageInv'
      BY <1>1, <2>1 DEF PageInv
    <2> QED
      BY <2>1, <2>4, <2>5
  <1> QED
    BY <1>5, <1>6

\* CARL stores what was sent, or fails to; it never refuses it.
LEMMA PageStorePeerDescriptor ==
    ASSUME PageInv, CarlInv, StorePeerDescriptor
    PROVE  PageInv' /\ CarlInv' /\ page' = page
  <1>1. /\ request # None /\ request' = None /\ awaiting' = FALSE /\ clicked' = NewForm
        /\ deleted' \in {deleted, FALSE}
        /\ UNCHANGED <<page, form, draft, typing, deleting, origin, edits>>
    BY DEF StorePeerDescriptor
  <1>2. SavedAs(clicked, request) /\ DistinctNames(request.interfaces)
    BY <1>1 DEF CarlInv
  <1>3. /\ Accepted(request) /\ IsDescriptor(FromProto(request))
        /\ ToProto(FromProto(request)) = request
    BY <1>2, PageMessageSaved
  <1>4. ASSUME outcome' = "stored" \/ stored' = stored
        PROVE  PageInv' /\ page' = page
    BY <1>1, <1>4 DEF PageInv
  <1>5. IsForm(clicked') /\ deleting' \in BOOLEAN /\ deleted' \in BOOLEAN
    BY <1>1, PageNewForm DEF CarlInv
  <1>6. CASE /\ stored' = ToProto(FromProto(request)) /\ kept' = clicked
             /\ outcome' = "stored" /\ isNew' = (isNew /\ ~awaiting)
    <2>1. stored' = request /\ kept' = clicked /\ outcome' = "stored"
      BY <1>3, <1>6
    <2>2. isNew' \in BOOLEAN /\ stored' # None
      BY <1>1, <1>6, <2>1
    <2>3. ReadableMessage(stored') /\ SavedAs(kept', stored')
      BY <1>2, <1>3, <2>1 DEF ReadableMessage
    <2> QED
      BY <1>1, <1>4, <1>5, <2>1, <2>2, <2>3 DEF CarlInv
  <1>7. CASE /\ outcome' = IF Accepted(request) THEN "failed" ELSE "refused"
             /\ UNCHANGED <<stored, kept, isNew, deleted>>
    <2>1. /\ outcome' = "failed" /\ stored' = stored /\ kept' = kept /\ isNew' = isNew
          /\ deleted' = deleted
      BY <1>3, <1>7
    <2>2. CarlInv'
      BY <1>1, <1>5, <2>1 DEF CarlInv
    <2> QED
      BY <1>4, <2>1, <2>2
  <1> QED
    BY <1>6, <1>7 DEF StorePeerDescriptor

\* A page that panicked keeps its form.
LEMMA PageCrash ==
    ASSUME PageInv, CarlInv, Crash
    PROVE  PageInv' /\ CarlInv'
  <1>1. /\ page' = "crashed" /\ CarlKept
        /\ UNCHANGED <<form, draft, typing, origin, edits>>
    BY DEF Crash, carl, CarlKept
  <1>2. PageInv'
    BY <1>1 DEF PageInv
  <1> QED
    BY <1>1, <1>2, PageCarlKept

\* A peer is loaded, or the page panics over an Executable.
LEMMA PageLoad ==
    ASSUME PageInv, CarlInv, Load
    PROVE  PageInv' /\ CarlInv' /\ (page' = "crashed" => ~Showable(stored))
  <1> DEFINE d == FromProto(stored)
  <1>1. page = "loading" /\ stored # None /\ ReadableMessage(stored)
    BY DEF Load, CarlInv
  <1>2. IsDescriptor(d) /\ ToProto(d) = stored /\ DistinctNames(stored.interfaces)
    BY <1>1 DEF ReadableMessage
  <1>3. draft = NewDraft
    BY <1>1 DEF PageInv
  <1>4. CASE Showable(d)
    <2>1. /\ page' = "shown" /\ form' = Shows(d) /\ isNew' = FALSE /\ origin' = d
          /\ UNCHANGED <<draft, typing, edits, request, awaiting, stored, outcome, clicked, kept>>
          /\ UNCHANGED <<deleting, deleted>>
      BY <1>4 DEF Load, carl
    <2>2. d.interfaces = stored.interfaces
      BY <1>2, PagePeerRoundTrip
    <2> HIDE DEF d
    <2>3. IsForm(form') /\ form'.interfaces = d.interfaces
      <3>1. IsForm(Shows(d))
        BY <1>2, <1>4, PagePeerShown DEF Savable
      <3>2. Shows(d).interfaces = d.interfaces
        BY DEF Shows
      <3> QED
        BY <2>1, <3>1, <3>2
    <2>4. OriginOf(origin', form')
      BY <1>2, <1>4, <2>1 DEF OriginOf
    <2>5. FreeIn(draft'.name, form'.interfaces)
      BY <1>3, <2>1, PageNewDraft DEF FreeIn
    <2>6. PageInv'
      BY <1>2, <2>1, <2>2, <2>3, <2>4, <2>5 DEF PageInv
    <2>7. CarlInv'
      BY <1>1, <2>1 DEF CarlInv
    <2> QED
      BY <2>1, <2>6, <2>7
  <1>5. CASE ~Showable(d)
    <2>1. Crash
      BY <1>5 DEF Load
    <2>2. Showable(stored) <=> Showable(d)
      BY <1>2, PagePeerRoundTrip
    <2> HIDE DEF d
    <2> QED
      BY <1>5, <2>1, <2>2, PageCrash
  <1> QED
    BY <1>4, <1>5

\* There is nothing to load.
LEMMA PageLoadNothing ==
    ASSUME PageInv, CarlInv, LoadNothing
    PROVE  PageInv' /\ CarlInv' /\ page' = "shown"
  <1>1. /\ page' = "shown" /\ CarlKept
        /\ UNCHANGED <<form, draft, typing, origin, edits>>
    BY DEF LoadNothing, carl, CarlKept
  <1>2. PageInv'
    BY <1>1 DEF PageInv
  <1> QED
    BY <1>1, <1>2, PageCarlKept

\* The page is gone, for another one or for good.
LEMMA PageClosed ==
    ASSUME PageInv, CarlInv, Closed, UNCHANGED deleted,
           \/ page' = "loading" /\ UNCHANGED <<stored, kept>>
           \/ page' = "left" /\ stored' = None /\ kept' = None
    PROVE  PageInv' /\ CarlInv'
  <1>1. /\ form' = NewForm /\ draft' = NewDraft /\ typing' = <<>>
        /\ isNew' = TRUE /\ awaiting' = FALSE /\ deleting' = FALSE
        /\ origin' = None /\ outcome' = "none"
        /\ clicked' = IF request = None THEN NewForm ELSE clicked
        /\ UNCHANGED <<request, edits>>
    BY DEF Closed
  <1>2. DistinctNames(form'.interfaces)
    BY <1>1 DEF DistinctNames, NewForm
  <1>3. AllTyped(typing')
    BY <1>1 DEF AllTyped
  <1>4. FreeIn(draft'.name, form'.interfaces) /\ RightDraft(draft')
    BY <1>1, PageNewDraft DEF FreeIn
  <1>5. PageInv'
    BY <1>1, <1>2, <1>3, <1>4, PageNewForm DEF PageInv, OriginOf
  <1>6. IsForm(clicked')
    BY <1>1, PageNewForm DEF CarlInv
  <1>7. request' # None => SavedAs(clicked', request') /\ DistinctNames(request'.interfaces)
    BY <1>1 DEF CarlInv
  <1>8. /\ stored' # None => ReadableMessage(stored')
        /\ kept' # None => SavedAs(kept', stored')
        /\ deleted' \in BOOLEAN
    BY DEF CarlInv
  <1>9. CarlInv'
    BY <1>1, <1>6, <1>7, <1>8 DEF CarlInv
  <1> QED
    BY <1>5, <1>9

\* The page is opened again.
LEMMA PageReload ==
    ASSUME PageInv, CarlInv, Reload
    PROVE  PageInv' /\ CarlInv' /\ page' = "loading"
  <1>1. page' = "loading" /\ Closed /\ UNCHANGED deleted /\ UNCHANGED <<stored, kept>>
    BY DEF Reload
  <1> QED
    BY <1>1, PageClosed

\* The peer is deleted, by this page or by another client.
LEMMA PageDeletes ==
    ASSUME PageInv, CarlInv, Delete \/ DeletePeerDescriptor \/ DeletedElsewhere
    PROVE  PageInv' /\ CarlInv' /\ page' \in {page, "left"}
  <1>1. CASE Delete
    <2>1. /\ page' = page /\ deleting' = TRUE
          /\ UNCHANGED <<form, draft, typing, isNew, request, awaiting, stored, outcome,
                         clicked, kept, deleted, origin, edits>>
      BY <1>1 DEF Delete
    <2>2. PageInv'
      BY <2>1 DEF PageInv
    <2>3. CarlInv'
      BY <2>1 DEF CarlInv
    <2> QED
      BY <2>1, <2>2, <2>3
  <1>2. CASE DeletePeerDescriptor
    <2>1. CASE stored' = None /\ kept' = None /\ page' = "left" /\ Closed /\ UNCHANGED deleted
      BY <2>1, PageClosed
    <2>2. CASE /\ deleting' = FALSE
               /\ UNCHANGED <<page, form, draft, typing, isNew, request, awaiting, stored, outcome,
                              clicked, kept, deleted, origin, edits>>
      <3>1. PageInv'
        BY <2>2 DEF PageInv
      <3>2. CarlInv'
        BY <2>2 DEF CarlInv
      <3> QED
        BY <2>2, <3>1, <3>2
    <2> QED
      BY <1>2, <2>1, <2>2 DEF DeletePeerDescriptor
  <1>3. CASE DeletedElsewhere
    <2>1. /\ page' = page /\ stored' = None /\ kept' = None /\ deleted' = TRUE
          /\ UNCHANGED <<form, draft, typing, isNew, request, awaiting, outcome, clicked,
                         deleting, origin, edits>>
      BY <1>3 DEF DeletedElsewhere
    <2>2. PageInv'
      BY <2>1 DEF PageInv
    <2>3. CarlInv'
      BY <2>1 DEF CarlInv
    <2> QED
      BY <2>1, <2>2, <2>3
  <1> QED
    BY <1>1, <1>2, <1>3

\* The page panics over the numbers of a CAN interface only where the button
\* does not look, or with a bitrate that is too large.
LEMMA PagePanicsByNumbers ==
    ASSUME PageInv, AddInterfacePanics
    PROVE  /\ Crash /\ draft.kind = "Can"
           /\ \/ /\ ~draft.fd
                 /\ ~(IsRight(draft.dataBitrate) /\ IsRight(draft.dataSample))
              \/ Overflows
  <1>1. /\ Crash /\ draft.kind = "Can" /\ AddEnabled
        /\ CanPanics \/ Overflows
    BY DEF AddInterfacePanics
  <1>2. RightDraft(draft)
    BY DEF PageInv
  <1>3. IsRight(draft.bitrate) /\ IsRight(draft.sample) =>
           Readable(draft.bitrate, draft.sample)
    BY <1>2 DEF RightDraft, RightBitrate, RightSample, Readable
  <1>4. IsRight(draft.dataBitrate) /\ IsRight(draft.dataSample) =>
           Readable(draft.dataBitrate, draft.dataSample)
    BY <1>2 DEF RightDraft, RightBitrate, RightSample, Readable
  <1>5. /\ {"bitrate", "sample"} \subseteq NumberFields
        /\ draft.fd => {"dataBitrate", "dataSample"} \subseteq NumberFields
    BY <1>1 DEF NumberFields
  <1>6. /\ IsRight(draft.bitrate) /\ IsRight(draft.sample)
        /\ draft.fd => IsRight(draft.dataBitrate) /\ IsRight(draft.dataSample)
    <2>1. \A n \in NumberFields : IsRight(draft[n])
      BY <1>1 DEF AddEnabled
    <2>2. /\ IsRight(draft["bitrate"]) /\ IsRight(draft["sample"])
          /\ draft.fd => IsRight(draft["dataBitrate"]) /\ IsRight(draft["dataSample"])
      BY <1>5, <2>1
    <2> QED
      BY <2>2
  <1> QED
    BY <1>1, <1>3, <1>4, <1>6 DEF CanPanics

-----------------------------------------------------------------------------
(* Every step keeps the invariant.                                         *)

\* The page at first, over what other clients have stored.
LEMMA PageInit ==
    ASSUME Init
    PROVE  PageInv /\ CarlInv
  <1>1. /\ page = "loading" /\ form = NewForm /\ draft = NewDraft /\ typing = <<>>
        /\ isNew = TRUE /\ request = None /\ awaiting = FALSE
        /\ stored \in {None} \cup {ToProto(d) : d \in Descriptors}
        /\ outcome = "none" /\ clicked = NewForm /\ kept = None /\ origin = None /\ edits = 0
        /\ deleting = FALSE /\ deleted = FALSE
    BY DEF Init
  <1>2. MaxEdits \in Nat /\ \A d \in Descriptors : IsDescriptor(d)
    BY PeerFormAssumption
  <1>3. DistinctNames(form.interfaces)
    BY <1>1 DEF DistinctNames, NewForm
  <1>4. AllTyped(typing)
    BY <1>1 DEF AllTyped
  <1>5. FreeIn(draft.name, form.interfaces) /\ RightDraft(draft)
    BY <1>1, PageNewDraft DEF FreeIn
  <1>6. PageInv
    BY <1>1, <1>2, <1>3, <1>4, <1>5, PageNewForm DEF PageInv, OriginOf
  <1>7. ASSUME NEW d \in Descriptors, stored = ToProto(d)
        PROVE  ReadableMessage(stored)
    <2>1. IsDescriptor(d)
      BY <1>2
    <2>2. /\ Accepted(stored) /\ IsDescriptor(FromProto(stored))
          /\ ToProto(FromProto(stored)) = stored /\ stored.interfaces = d.interfaces
      BY <1>7, <2>1, PagePeerRoundTrip
    <2>3. DistinctNames(d.interfaces)
      BY DEF DistinctNames
    <2> QED
      BY <2>2, <2>3 DEF ReadableMessage
  <1>8. stored # None => ReadableMessage(stored)
    BY <1>1, <1>7
  <1>9. CarlInv
    BY <1>1, <1>8, PageNewForm DEF CarlInv
  <1> QED
    BY <1>6, <1>9

\* A step that edits the page, or ends a pause.
LEMMA PageEditSteps ==
    ASSUME PageInv, CarlInv,
           \/ EditTexts \/ EditDevices \/ EditExecutors
           \/ \E f \in DOMAIN typing : Settle(f)
    PROVE  PageInv' /\ CarlInv' /\ page' = page
  <1>0. ASSUME PageInv', CarlKept, page' = page PROVE PageInv' /\ CarlInv' /\ page' = page
    BY <1>0, PageCarlKept
  <1>1. CASE EditTexts
    <2>1. PICK f \in DebouncedFields, t \in Texts : TypeText(f, t)
      BY <1>1 DEF EditTexts
    <2>2. page' = page
      BY <2>1 DEF TypeText, Edit
    <2> QED
      BY <1>0, <2>1, <2>2, PageTypeText
  <1>2. CASE EditDevices
    <2>1. CASE \E d \in DeviceIds \ DOMAIN form.devices : AddDevice(d)
      <3>1. PICK d \in DeviceIds : AddDevice(d)
        BY <2>1
      <3>2. page' = page
        BY <3>1 DEF AddDevice, Edit
      <3> QED
        BY <1>0, <3>1, <3>2, PageAddDevice
    <2>2. ASSUME NEW d \in DOMAIN form.devices, NEW t \in Texts, TypeDescription(d, t)
          PROVE  PageInv' /\ CarlInv' /\ page' = page
      <3>1. page' = page
        BY <2>2 DEF TypeDescription, Edit
      <3> QED
        BY <1>0, <2>2, <3>1, PageTypeDescription
    <2>3. ASSUME NEW d \in DOMAIN form.devices, NEW i \in DOMAIN form.interfaces \cup {None},
                 SelectInterface(d, i)
          PROVE  PageInv' /\ CarlInv' /\ page' = page
      <3>1. page' = page
        BY <2>3 DEF SelectInterface, Edit
      <3> QED
        BY <1>0, <2>3, <3>1, PageSelectInterface
    <2>4. ASSUME NEW d \in DOMAIN form.devices, DeleteDevice(d)
          PROVE  PageInv' /\ CarlInv' /\ page' = page
      <3>1. page' = page
        BY <2>4 DEF DeleteDevice, Edit
      <3> QED
        BY <1>0, <2>4, <3>1, PageDeleteDevice
    <2> QED
      BY <1>2, <2>1, <2>2, <2>3, <2>4 DEF EditDevices
  <1>3. CASE EditExecutors
    <2>1. CASE \E e \in ExecutorIds \ DOMAIN form.executors : AddExecutor(e)
      <3>1. PICK e \in ExecutorIds : AddExecutor(e)
        BY <2>1
      <3>2. page' = page
        BY <3>1 DEF AddExecutor, Edit
      <3> QED
        BY <1>0, <3>1, <3>2, PageAddExecutor
    <2>2. ASSUME NEW e \in DOMAIN form.executors, NEW engine \in {"Docker", "Podman"},
                 ChooseEngine(e, engine)
          PROVE  PageInv' /\ CarlInv' /\ page' = page
      <3>1. page' = page
        BY <2>2 DEF ChooseEngine, Edit
      <3> QED
        BY <1>0, <2>2, <3>1, PageChooseEngine
    <2>3. ASSUME NEW e \in DOMAIN form.executors, DeleteExecutor(e)
          PROVE  PageInv' /\ CarlInv' /\ page' = page
      <3>1. page' = page
        BY <2>3 DEF DeleteExecutor, Edit
      <3> QED
        BY <1>0, <2>3, <3>1, PageDeleteExecutor
    <2>4. ASSUME NEW e \in DOMAIN form.executors, AddEnv(e)
          PROVE  PageInv' /\ CarlInv' /\ page' = page
      <3>1. page' = page
        BY <2>4 DEF AddEnv, Edit
      <3> QED
        BY <1>0, <2>4, <3>1, PageAddEnv
    <2>5. ASSUME NEW e \in DOMAIN form.executors, NEW n \in DOMAIN form.executors[e].envs,
                 NEW t \in Texts, TypeEnv(e, n, t, t)
          PROVE  PageInv' /\ CarlInv' /\ page' = page
      <3>1. page' = page
        BY <2>5 DEF TypeEnv, Edit
      <3> QED
        BY <1>0, <2>5, <3>1, PageTypeEnv
    <2>6. ASSUME NEW e \in DOMAIN form.executors, NEW n \in DOMAIN form.executors[e].envs,
                 DeleteEnv(e, n)
          PROVE  PageInv' /\ CarlInv' /\ page' = page
      <3>1. page' = page
        BY <2>6 DEF DeleteEnv, Edit
      <3> QED
        BY <1>0, <2>6, <3>1, PageDeleteEnv
    <2>7. ASSUME NEW e \in DOMAIN form.executors, NEW list \in VectorFields,
                 AddEntry(e, list)
          PROVE  PageInv' /\ CarlInv' /\ page' = page
      <3>1. page' = page
        BY <2>7 DEF AddEntry, Edit
      <3> QED
        BY <1>0, <2>7, <3>1, PageAddEntry
    <2>8. ASSUME NEW e \in DOMAIN form.executors, NEW list \in VectorFields,
                 NEW n \in DOMAIN form.executors[e].lists[list],
                 NEW t \in Texts, TypeEntry(e, list, n, t)
          PROVE  PageInv' /\ CarlInv' /\ page' = page
      <3>1. page' = page
        BY <2>8 DEF TypeEntry, Edit
      <3> QED
        BY <1>0, <2>8, <3>1, PageTypeEntry
    <2>9. ASSUME NEW e \in DOMAIN form.executors, NEW list \in VectorFields,
                 NEW n \in DOMAIN form.executors[e].lists[list], DeleteEntry(e, list, n)
          PROVE  PageInv' /\ CarlInv' /\ page' = page
      <3>1. page' = page
        BY <2>9 DEF DeleteEntry, Edit
      <3> QED
        BY <1>0, <2>9, <3>1, PageDeleteEntry
    <2> QED
      BY <1>3, <2>1, <2>2, <2>3, <2>4, <2>5, <2>6, <2>7, <2>8, <2>9 DEF EditExecutors
  <1>4. ASSUME NEW f \in DOMAIN typing, Settle(f)
        PROVE  PageInv' /\ CarlInv' /\ page' = page
    <2>1. page' = page
      BY <1>4 DEF Settle
    <2> QED
      BY <1>0, <1>4, <2>1, PageSettle
  <1> QED
    BY <1>1, <1>2, <1>3, <1>4

\* Why the page panics in a step that makes it panic.
Explained ==
    \/ page = "loading" /\ ~Showable(stored)
    \/ /\ draft.kind = "Can"
       /\ \/ /\ ~draft.fd
             /\ ~(IsRight(draft.dataBitrate) /\ IsRight(draft.dataSample))
          \/ Overflows

\* A step that edits the interfaces, or panics over one.
LEMMA PageInterfaceSteps ==
    ASSUME PageInv, CarlInv, EditInterfaces
    PROVE  PageInv' /\ CarlInv' /\ (page' = page \/ Explained)
  <1>0. ASSUME PageInv', CarlKept, page' = page
        PROVE  PageInv' /\ CarlInv' /\ (page' = page \/ Explained)
    BY <1>0, PageCarlKept
  <1>1. ASSUME NEW t \in Texts, TypeText(DraftName, t)
        PROVE  PageInv' /\ CarlInv' /\ (page' = page \/ Explained)
    <2>1. page' = page
      BY <1>1 DEF TypeText, Edit
    <2>2. PageInv' /\ CarlKept
      BY <1>1, PageTypeText
    <2> QED
      BY <1>0, <2>1, <2>2
  <1>2. ASSUME NEW kind \in {"Ethernet", "Can"}, ChooseKind(kind)
        PROVE  PageInv' /\ CarlInv' /\ (page' = page \/ Explained)
    <2>1. page' = page
      BY <1>2 DEF ChooseKind, Edit
    <2> QED
      BY <1>0, <1>2, <2>1, PageChooseKind
  <1>3. CASE ToggleFd
    <2>1. page' = page
      BY <1>3 DEF ToggleFd, Edit
    <2> QED
      BY <1>0, <1>3, <2>1, PageToggleFd
  <1>4. ASSUME NEW n \in NumberFields, NEW x \in Numbers(n), TypeNumber(n, x)
        PROVE  PageInv' /\ CarlInv' /\ (page' = page \/ Explained)
    <2>1. page' = page
      BY <1>4 DEF TypeNumber, Edit
    <2> QED
      BY <1>0, <1>4, <2>1, PageTypeNumber
  <1>5. ASSUME NEW i \in InterfaceIds \ DOMAIN form.interfaces, AddInterface(i)
        PROVE  PageInv' /\ CarlInv' /\ (page' = page \/ Explained)
    <2>1. page' = page
      BY <1>5 DEF AddInterface, Edit
    <2> QED
      BY <1>0, <1>5, <2>1, PageAddInterface
  <1>6. CASE AddInterfacePanics
    <2>1. Crash /\ Explained
      BY <1>6, PagePanicsByNumbers DEF Explained
    <2> QED
      BY <2>1, PageCrash
  <1>7. ASSUME NEW i \in DOMAIN form.interfaces, DeleteInterface(i)
        PROVE  PageInv' /\ CarlInv' /\ (page' = page \/ Explained)
    <2>1. page' = page
      BY <1>7 DEF DeleteInterface, Edit
    <2> QED
      BY <1>0, <1>7, <2>1, PageDeleteInterface
  <1> QED
    BY <1>1, <1>2, <1>3, <1>4, <1>5, <1>6, <1>7 DEF EditInterfaces

\* Every step keeps the invariant, and explains a panic.
LEMMA PageStep ==
    ASSUME PageInv, CarlInv,
           [Next]_vars
    PROVE  /\ PageInv' /\ CarlInv'
           /\ page' = "crashed" /\ page # "crashed" => Explained
  <1>1. CASE \/ EditTexts \/ EditDevices \/ EditExecutors
             \/ \E f \in DOMAIN typing : Settle(f)
    <2>1. PageInv' /\ CarlInv' /\ page' = page
      BY <1>1, PageEditSteps
    <2> QED
      BY <2>1
  <1>2. CASE EditInterfaces
    BY <1>2, PageInterfaceSteps
  <1>3. CASE Save
    BY <1>3, PageSave
  <1>4. CASE StorePeerDescriptor
    BY <1>4, PageStorePeerDescriptor
  <1>5. CASE Load
    <2>1. PageInv' /\ CarlInv' /\ (page' = "crashed" => ~Showable(stored)) /\ page = "loading"
      BY <1>5, PageLoad DEF Load
    <2> QED
      BY <2>1 DEF Explained
  <1>6. CASE LoadNothing
    BY <1>6, PageLoadNothing
  <1>7. CASE Reload
    BY <1>7, PageReload
  <1>8. CASE Delete \/ DeletePeerDescriptor \/ DeletedElsewhere
    BY <1>8, PageDeletes
  <1>9. CASE UNCHANGED vars
    <2>1. /\ page' = page /\ CarlKept
          /\ UNCHANGED <<form, draft, typing, origin, edits>>
      BY <1>9 DEF vars, CarlKept
    <2>2. PageInv'
      BY <2>1 DEF PageInv, CarlKept
    <2> QED
      BY <2>1, <2>2, PageCarlKept
  <1> QED
    BY <1>1, <1>2, <1>3, <1>4, <1>5, <1>6, <1>7, <1>8, <1>9 DEF Next

-----------------------------------------------------------------------------

\* The invariant of the page and of CARL's store holds in every behaviour of
\* LEA's page of one peer, whatever was stored before, whatever the operator
\* types, and however often the page is opened again.
LEMMA PageInvariant ==
    Spec => [](PageInv /\ CarlInv)
  <1>1. Init => PageInv /\ CarlInv
    BY PageInit
  <1>2. PageInv /\ CarlInv /\ [Next]_vars => (PageInv /\ CarlInv)'
    BY PageStep
  <1> QED
    BY <1>1, <1>2, PTL DEF Spec

\* A click on Save or on Delete is answered: CARL never refuses a form that the
\* button let through, a click on Save is dropped only for the inputs the button
\* overlooks, and the page knows whether its peer is stored, but for what other
\* clients delete and for a save that its own deletion overtook.
THEOREM PageSaveAnswered ==
    Spec => []SaveAnswered
  <1>1. PageInv /\ CarlInv => SaveAnswered
    <2>1. ASSUME PageInv, CarlInv PROVE IInv
      BY <2>1, PageInvariantParts
    <2> QED
      BY <2>1 DEF IInv
  <1> QED
    BY <1>1, PageInvariant, PTL

\* Two interfaces of the form have one name only for the reasons that
\* DistinctInterfaceNames gives.
THEOREM PageDistinctInterfaceNames ==
    Spec => []DistinctInterfaceNames
  <1>1. PageInv /\ CarlInv => DistinctInterfaceNames
    BY DEF PageInv, DistinctInterfaceNames
  <1> QED
    BY <1>1, PageInvariant, PTL

\* What was saved is what is shown again, through descriptor, message, store
\* and back.
THEOREM PageReloadShowsSaved ==
    Spec => []ReloadShowsSaved
  <1>1. ASSUME PageInv, CarlInv, origin # None, kept # None, ToProto(origin) = stored
        PROVE  form = Reprinted(kept)
    <2> DEFINE d == DescriptorOf(kept)
    <2>1. IsDescriptor(origin) /\ Showable(origin) /\ form = Shows(origin)
      BY <1>1 DEF PageInv, OriginOf
    <2>2. Savable(kept) /\ stored = ToProto(d)
      BY <1>1 DEF CarlInv, SavedAs
    <2>3. IsDescriptor(d) /\ Showable(d) /\ Shows(d) = Reprinted(kept)
      BY <2>2, PagePeerSaved
    <2> HIDE DEF d
    <2>4. IsPeer(origin) /\ IsPeer(d)
      BY <2>1, <2>3 DEF IsDescriptor
    <2>5. Shows(origin) = Shows(d)
      BY <1>1, <2>1, <2>2, <2>3, <2>4, PagePeerShownByMessage
    <2> QED
      BY <2>1, <2>3, <2>5
  <1>2. PageInv /\ CarlInv => ReloadShowsSaved
    BY <1>1 DEF ReloadShowsSaved
  <1> QED
    BY <1>2, PageInvariant, PTL

\* Saving a page that nobody edited is possible, and changes nothing but the
\* tags of the devices.
THEOREM PageUntouchedSaveKeeps ==
    Spec => []UntouchedSaveKeeps
  <1>1. ASSUME PageInv, origin # None
        PROVE  /\ Savable(form)
               /\ ToProto(DescriptorOf(form))
                    = [ToProto(origin) EXCEPT !.devices =
                          Each(@, LAMBDA x : [x EXCEPT !.tags = {}])]
    <2>1. IsDescriptor(origin) /\ Showable(origin) /\ form = Shows(origin)
      BY <1>1 DEF PageInv, OriginOf
    <2> QED
      BY <2>1, PagePeerShown
  <1>2. PageInv /\ CarlInv => UntouchedSaveKeeps
    BY <1>1 DEF UntouchedSaveKeeps, Savable
  <1> QED
    BY <1>2, PageInvariant, PTL

\* The page panics only for the reasons that PanicsExplained gives: never by
\* saving, and never with every number valid.
THEOREM PagePanicsExplained ==
    Spec => PanicsExplained
  <1>1. PageInv /\ CarlInv /\ [Next]_vars =>
          [page' = "crashed" /\ page # "crashed" =>
              \/ page = "loading" /\ ~Showable(stored)
              \/ /\ draft.kind = "Can"
                 /\ \/ /\ ~draft.fd
                       /\ ~(IsRight(draft.dataBitrate) /\ IsRight(draft.dataSample))
                    \/ Overflows]_vars
    BY PageStep DEF Explained
  <1> QED
    BY <1>1, PageInvariant, PTL DEF Spec, PanicsExplained
=============================================================================
