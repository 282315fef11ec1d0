--------------------------- MODULE KubevirtToolset ---------------------------
(***************************************************************************)
(* The tools and prompts of the kubevirt toolset (pkg/toolsets/kubevirt)   *)
(* and the operations of pkg/kubevirt, as programs of requests.            *)
(***************************************************************************)
EXTENDS CoreToolset

CONSTANT VMArguments   \* what vm_create may be asked for

-----------------------------------------------------------------------------
(* pkg/kubevirt/vm.go                                                      *)

GetVirtualMachine == Get("VM")

\* Mutant: applied by force.
MutantApplyStrategy(strategy) == Apply("VM", strategy)

\* The object that was read, with another run strategy: the API server takes
\* it only if it is still the object it has.
UpdateVirtualMachine(strategy) == Update("VM", strategy)

StartVM == << GetVirtualMachine,
              When("not-Always", UpdateVirtualMachine("Always")) >>

StopVM == << GetVirtualMachine,
             When("not-Halted", UpdateVirtualMachine("Halted")) >>

RestartVM == << GetVirtualMachine, UpdateVirtualMachine("Halted"),
                UpdateVirtualMachine("Always") >>

\* The source need not exist: the clone controller looks for it.
CloneVM == << Create("VMClone", "plain") >>

lifecycle == Checked({StartVM, StopVM, RestartVM})
cloneVM   == Checked({CloneVM})

-----------------------------------------------------------------------------
(* vm_create: every list may fail and is then empty.                       *)

collectDataSources ==
    << Try(ListIn("DataSource", "openshift-virtualization-os-images")),
       Try(ListIn("DataSource", "kubevirt-os-images")),
       Try(ListAll("DataSource")) >>

SearchPreferences ==
    << Try(List("ClusterPreference")), Try(List("Preference")) >>

SearchInstancetypes ==
    << Try(List("ClusterInstancetype")), Try(List("Instancetype")) >>

\* The machine is applied with what module VMResolution chooses.
vmCreate(args, autostart) ==
    collectDataSources \o SearchPreferences \o SearchInstancetypes
      \o << [Apply("VM", IF autostart THEN "Always" ELSE "Halted")
               EXCEPT !.args = args] >>

createVM == Checked({vmCreate(args, auto) : args \in VMArguments,
                                            auto \in BOOLEAN})

-----------------------------------------------------------------------------
(* vm_guest_info                                                           *)

validateVMI == << Get("VMI"), When("not-running", Refuse) >>

getVMISubresource(sub) == GetSub("GuestAgent", sub)

GuestInfo == {"guestosinfo", "filesystemlist", "userlist", "interfacelist"}

\* Each of them may fail, but not all.
GetAllGuestInfo ==
    << Try(getVMISubresource("guestosinfo")),
       Try(getVMISubresource("filesystemlist")),
       Try(getVMISubresource("userlist")),
       Try(getVMISubresource("interfacelist")),
       When("no-info", Refuse) >>

fetchGuestInfo ==
    {<<getVMISubresource(sub)>> : sub \in GuestInfo} \cup {GetAllGuestInfo}

guestInfo == Checked({validateVMI \o fetch : fetch \in fetchGuestInfo})

-----------------------------------------------------------------------------
(* The prompt vm-troubleshoot: an error is part of the guide.              *)

fetchVirtualMachineStatus         == << Try(Get("VM")) >>
fetchVirtualMachineInstanceStatus == << Try(Get("VMI")) >>
fetchVirtLauncherPod              == << Try(List("Pod")) >>
fetchVirtLauncherPodLogs          == << When("listed", Try(GetSub("Pod", "log"))) >>

\* The second list only after the first.
fetchEvents ==
    << Try(Review), Try(List("Event")),
       When("answered", Try(Review)), When("answered", Try(List("Event"))) >>

vmTroubleshootHandler ==
    Checked({ fetchVirtualMachineStatus \o fetchVirtualMachineInstanceStatus
                \o fetchVirtLauncherPod \o fetchVirtLauncherPodLogs
                \o fetchEvents })

-----------------------------------------------------------------------------
(* The prompt windows-golden-image: it asks for the licence and writes a   *)
(* guide, which says to apply the manifest with resources_create_or_update *)

windowsGoldenImageHandler == Checked({<<AskForEULA>>})

\* The manifest in the guide: a run that is named by the API server
\* (generateName) and says whether the licence is accepted.
buildStaticPipelineRun(acceptEula) ==
    <<"PipelineRun", IF acceptEula THEN "accepted" ELSE "windows", FALSE>>

\* What the guide says to do.
FollowTheGuide(acceptEula) ==
    resourcesCreateOrUpdate(<<buildStaticPipelineRun(acceptEula)>>)

-----------------------------------------------------------------------------

CloneTools      == [ vm_clone      |-> Tool(Destructive, cloneVM) ]
CreateTools     == [ vm_create     |-> Tool(Destructive, createVM) ]
GuestagentTools == [ vm_guest_info |-> Tool(Reader, guestInfo) ]
LifecycleTools  == [ vm_lifecycle  |-> Tool(Destructive, lifecycle) ]

VMTroubleshootPrompts == [ vm_troubleshoot |-> vmTroubleshootHandler ]
GoldenImagePrompts == [ windows_golden_image |-> windowsGoldenImageHandler ]
=============================================================================
