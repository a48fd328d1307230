--------------------------- MODULE ServiceMethods ---------------------------
(***************************************************************************)
(* The service methods that open a transaction of their own, and the       *)
(* methods of the same services that write several rows without one, in    *)
(* the notation of Statements.  Which queries are handed the transaction,  *)
(* and which ways out of a method end it, differs from method to method.   *)
(* A loop whose turns do the same is given one turn where two would say    *)
(* nothing more.                                                           *)
(***************************************************************************)
EXTENDS Statements

-----------------------------------------------------------------------------
(* Settings, metadata, enquiries, membership *)

CreateUserMetadata == Begin ** In ** Commit

CreateFlowSetting == Begin ** Read ** (Throw \cup In ** Commit)

\* the settings that do not exist yet are created in a transaction of their own
UpdateFlowSetting ==
    Begin ** Read ** (In \cup CreateFlowSetting) ** Commit

RemoveFlowSetting == Begin ** Read ** (Throw \cup In ** Commit)

\* what changes existing settings is in an inner try that only logs
ChangeEudrSetting == Try(In ** Read ** In ** In ** In ** In)

InsertEudrSetting == In ** In ** In ** In ** In

CreateEudrSetting == Begin ** Read ** (ChangeEudrSetting \cup InsertEudrSetting) ** Commit

UpdateEudrSetting ==
    Begin ** Read ** (Throw \cup In ** In ** In ** Commit ** Read)

FindEudrSetting ==
    Read ** Maybe(Begin ** In ** In ** In ** In ** In ** Commit ** Read)

CreateEnquiry == Begin ** In ** Commit ** Read

\* the memberships in force are ended by a statement that is not awaited
CreateUserMembership == Begin ** Spawn ** Out ** Commit

CreatePayment == Begin ** Out ** Commit

CreateUserAddons == Begin ** Out ** Commit

-----------------------------------------------------------------------------
(* Farms, segments, requests for satellite reports *)

CreateFarm == Begin ** Read ** (Throw \cup In ** Maybe(In) ** Commit)

\* the farm is updated outside the transaction its coordinates are changed in
UpdateFarm == Begin ** Read ** Out ** Maybe(In ** In) ** Commit ** Read

CreateSegment == Begin ** Each(In ** In) ** Commit

UpdateSegment == Begin ** In ** Maybe(In ** In) ** Commit

RemoveSegment == Begin ** Out ** Read ** Out ** Commit

CreateUserAndFarm ==
    Read ** Maybe(Out) ** Maybe(In ** Maybe(In) ** Loop(In ** In))

\* the service that detects deforestation is called with the transaction open
Detect == Read ** (Throw \cup Call ** Maybe(Throw))

\* the images are stored outside the transaction
StoreDetection == In ** In ** Out

CreateDeforestation ==
    Begin ** CreateUserAndFarm ** Detect ** StoreDetection ** Commit ** Maybe(Try(Call))

\* insertExistingData commits, or rolls back and returns false
InsertReports == Undo(Each(In ** Maybe(In)) ** Commit)

\* create of the pasture management: a refused request returns with the
\* transaction open, and that of a report another user has is rolled back after
\* insertExistingData has committed it.  The search for existing reports logs an
\* error, and what follows is then one of the same choices.
CreatePastureReport ==
    LET Search == Try(Look ** Maybe(Look))
        Copied == InsertReports ** Drop
        Added  == Look ** InsertReports ** Try(Read ** Call)
    IN  Begin ** Maybe(Look ** Maybe(Search ** (Copied \cup Drop \cup Added)))

-----------------------------------------------------------------------------
(* Blends, assessments, shipments *)

CopyBlend == Begin ** Read ** (Throw \cup In ** Maybe(In) ** Commit ** Read)

DeleteBlend == Begin ** Read ** (Throw \cup Maybe(In) ** Maybe(In) ** In ** Commit)

BulkCreateBlendSettings == Begin ** In ** Commit

DeleteBlendSettings == Begin ** Read ** (Throw \cup In ** In ** In ** Commit)

CreateAssessment ==
    Begin ** In ** (Throw \cup In ** Maybe(In ** Maybe(Try(Call))) ** Commit ** Read)

\* the copy is made in the transaction, its headings, questions and options
\* outside it
CopyQuestions == Read ** Loop(Out ** Read)

CopyDefaultAssessment ==
    Read ** (Throw \cup Begin ** Each(In ** In ** CopyQuestions) ** Commit)

UpdateAssessment ==
    Begin ** Read ** (Throw \cup In ** (Throw \cup In ** In ** Maybe(In ** Maybe(Try(Call))) ** Commit))

UpdateShipmentStatus == Begin ** In ** Commit

CreateShipment == Begin ** In ** Maybe(In) ** Maybe(In) ** Commit

\* an item that does not exist is listed as failed
BulkAssignShipments == Begin ** Each(Item(Look ** (Throw \cup In ** Maybe(In)))) ** Commit

BulkRejectShipments == Begin ** Each(Item(Look ** (Throw \cup In ** Maybe(In)))) ** Commit

\* the transaction is opened, used by no statement and never ended
BulkApproveShipments ==
    Begin ** Each(Try(Read ** (Throw \cup Out))) ** Out ** Loop(Try(Maybe(Read ** Out) ** Read ** Out ** Call))

-----------------------------------------------------------------------------
(* Diligence reports and production places *)

CreateReportByOperator ==
    Begin ** Maybe(Read) ** (Throw \cup In ** Loop(In) ** Commit)

\* three methods of one form: the update is not handed the transaction
ChangeReport == Begin ** (Throw \cup Out ** Commit ** Read)

\* a dispute is copied under the id it already has, which the table rejects;
\* nothing catches an error
DuplicateReport ==
    LET CopyPlace == In ** Read ** (Throw \cup Read ** Loop(In))
    IN  Begin ** Read ** (Throw \cup In ** Read ** Loop(CopyPlace) ** Commit)

BulkAssignReports == Begin ** Each(Item(Read ** (Throw \cup In))) ** Commit

BulkRejectReports == Begin ** Each(Item(Read ** (Throw \cup In))) ** Commit

\* the transaction is opened, used by no statement and never ended
BulkApproveReports ==
    Begin ** Each(Try(Read ** (Throw \cup Maybe(Read ** Out) ** Out ** Read ** Out ** Call)))

UpdateOverdue == Begin ** Each(In) ** Commit

StoreWarnings == Maybe(Out ** Out)

WarnPlaces == Read ** Maybe(Call ** StoreWarnings)

\* updateDueDiligenceReport of the production places: the transaction is
\* opened, used by no statement and never ended
EditExistingFarm ==
    LET Point   == Maybe(Out ** Out)
        Polygon == Out ** Out ** Out ** Read ** Maybe(Out) ** Each(Out)
    IN  Out ** Read ** Maybe(Out) ** Out ** Maybe(Read) ** (Point \cup Polygon)
            ** Out ** Out ** Maybe(Out)

\* the fields of the farm that did not exist are read at the end: null
EditNewFarm ==
    LET Point   == Out
        Polygon == Out ** Out ** Out
    IN  Out ** Out ** Out ** (Point \cup Polygon) ** WarnPlaces ** Throw

EditProductionPlace ==
    Read ** Begin ** Read
         ** (Throw \cup Read ** (EditExistingFarm ** WarnPlaces ** Maybe(Call) \cup EditNewFarm))

\* a place that is not found is answered without ending the transaction
MitigateRisk ==
    Begin ** Read ** Maybe((In \cup In ** In) ** Look ** In ** Maybe(In ** In) ** Commit)

RemoveRiskMitigationFile == Begin ** Read ** (Throw \cup In ** (Throw \cup Commit))

MitigateHighRiskFarms == Begin ** Read ** In ** In ** In ** In ** Commit

UpdateEudrAssessmentStatus == Begin ** Each(Look ** (Throw \cup In)) ** Commit

UpdateDisregardStatus == Begin ** Read ** In ** Commit

MitigateHighRiskPlaces == Begin ** Read ** (Throw \cup Each(In) ** Commit)

-----------------------------------------------------------------------------
(* Methods that write several rows without a transaction *)

CreateUser == Read ** (Throw \cup Out)

\* the user of the operator is looked up, and created if there is none
FindOperator == Maybe(Throw \cup Read ** Maybe(CreateUser))

AssignExporter == Maybe(Read ** Maybe(Read) ** Maybe(Read ** Out))

CreateReportBySupplier ==
    (Throw \cup FindOperator) ** Maybe(Read ** Maybe(Throw))
        ** Out ** Maybe(Out) ** AssignExporter

\* the required assessments that exist are updated, the others created, and
\* the ones no longer required destroyed
UpdateReport == Out ** Read ** Maybe(Out) ** Maybe(Out) ** Read ** (AssignExporter \cup Out)

UpdateReportBySupplier == (Throw \cup FindOperator) ** UpdateReport

AttachContainers == Read ** Out

CreateBlend == Out ** Maybe(AttachContainers) ** Maybe(Out) ** Maybe(Out) ** Read

UpdateBlend ==
    Read ** (Throw \cup Out ** Out ** Maybe(AttachContainers)
                         ** Maybe(Read ** (Throw \cup Out) \cup Out) ** Read)

GenerateLotId == Throw \cup Maybe(Read) ** Read

CreateBlendSettings ==
    Read ** (Throw \cup GenerateLotId ** Out ** Maybe(Out) ** Maybe(Out) ** Read)

UpdateBlendSettings ==
    Read ** (Throw \cup Read ** (Throw \cup
        Out ** Maybe(GenerateLotId ** Read ** Out) ** Maybe(Out ** Out) ** Read))

DeleteFarm == Out ** Out ** Read ** (Throw \cup Out)

\* a question, an option of it, a question below the option; one level further
\* down nothing is saved, and the id of it is read
SaveQuestions ==
    LET SaveBelow == Out ** Maybe(Out ** Maybe(Throw))
    IN  Out ** Maybe(Out ** Maybe(SaveBelow ** Out))

CreateQuestion ==
    Read ** (Throw \cup Maybe(Read) ** SaveQuestions ** Out ** Maybe(Out))

RemoveQuestion == Read ** Out ** Maybe(Read ** Loop(Out))

ReorderQuestion == Read ** (Throw \cup Read ** (Throw \cup Each(Out)))

\* the survey is looked up or created, linked to the report, and each response
\* added as the latest version or put in the place of the last one
LinkSurvey == Read ** Maybe(Out)

SurveyOfFarm == Read ** Read ** Maybe(Out) ** Maybe(LinkSurvey)

SurveyOfReport == Read ** Maybe(Out) ** LinkSurvey

Respond == Read ** Read ** (Out ** Out \cup Out)

SaveResponse ==
    Read ** (Throw \cup (SurveyOfFarm \cup SurveyOfReport) ** Maybe(Out) ** Maybe(Respond)
                     ** Read ** Out ** Maybe(Out) ** Read)

CreateMitigation == Maybe(Read) ** Read ** Maybe(Out ** Maybe(Out))

\* the alert and the mail are not awaited
CreateDispute ==
    Read ** Read ** (Throw \cup Maybe(Read) ** (Throw \cup
        Out ** Maybe(Out) ** Out ** Read ** Fork ** Fork))

-----------------------------------------------------------------------------
(* Production places and their imports, without a transaction *)

\* the survey of a farm is attached to the report, to the place and to both
AttachAssessments ==
    Read ** Read ** Read
         ** Maybe(Read ** Maybe(Out) ** Read ** Maybe(Out) ** Read ** Maybe(Out))

AttachPlaces ==
    Maybe(Read ** Read ** Maybe(Out) ** Out ** AttachAssessments ** WarnPlaces)

AddExistingPlaces == Read ** (Throw \cup Out ** Read ** AttachPlaces)

\* a place that is known and said to lie elsewhere
MovePlace ==
    (Out ** Out ** Out \cup Out ** Out ** Out ** Out ** Out ** Out)
        ** Read ** (Throw \cup Out ** Out)

FindProducer == Read ** Maybe(Out)

\* an error that createFarmLocation catches is thrown where its result is read
LocateFarm == Read ** Out ** Read ** Out ** Maybe(Out ** Out)

AddFarms == FindProducer ** Out ** LocateFarm

\* an error of the other application, or of the ids it gives, is logged
TellOther == Read ** Try(Call ** Out ** Out)

\* the surveys that follow the links are those of AttachPlaces
AddPlaces ==
    Read ** (Throw \cup Out ** Read ** Read ** Read ** Read ** Maybe(MovePlace) ** Maybe(AddFarms)
                     ** Out ** Read ** Out ** WarnPlaces ** Maybe(TellOther))

\* JobService.create swallows its error
CreateImportJob == Read ** Try(Out)

\* the report is saved as "Processing Farms", and the job that may not exist read
ImportGeoJson == Each(Put) ** (Throw \cup CreateImportJob ** Out)

\* an item of a batch that fails is dropped by allSettled
SyncFarms == Each(Try(Call ** Maybe(Out) ** Maybe(Out)))

RegisterProducer == Call ** Out

\* two methods of one form
ChangeProducer == Read ** (Throw \cup Call ** Out)

RemoveUnacceptedFarms == Read ** Loop(Out)

RemoveFarms == Maybe(Read) ** Out \cup Out ** Out

\* an upload or a survey that does not exist is found so after the statuses of its
\* places were written
AssessPlace == (Out \cup Out ** Out) ** Read

RiskOfPlace ==
    Read ** (Throw \cup AssessPlace ** Read ** (Throw \cup Out ** Read ** Maybe(Out)) ** Out)

RiskOfReport ==
    Read ** Read ** Maybe(AssessPlace ** (Throw \cup Out ** Read ** Maybe(Out))) ** (Throw \cup Out)

UpdateRiskStatus == RiskOfPlace \cup RiskOfReport

\* the comment of a mitigation that exists is updated without awaiting it
MitigateManually ==
    Throw \cup Each(Read ** (Throw \cup Maybe(Out) ** Read ** (Spawn \cup Out)))

DeleteDispute == Out ** Out

-----------------------------------------------------------------------------
(* Deforestation requests and farms, without a transaction *)

\* the catch of the block-chain call puts the columns back and throws
WriteToBlockChain == Maybe(Read) ** Maybe(Out) ** Call ** Out ** Maybe(Throw)

\* the request is marked as certified before it is
RequestComplianceCertificate ==
    Read ** (Throw \cup Out ** Read ** Read ** WriteToBlockChain)

UpdateBulkStatus == Each(Item(Out))

DetectDeforestationBulk == Call ** (Throw \cup Each(Out))

StoreProtectedAreas == Maybe(Read ** Maybe(Out) ** Maybe(Out))

\* the info of a place is saved without awaiting it, the place is not
RecalculateTolerance == Throw \cup Read ** Read ** Read ** Loop(Spawn ** Out)

\* the requests for reports of the places that have none in force
RequestReports == Read ** Maybe(Out ** Out) ** (RecalculateTolerance \cup Call)

\* the reports of a batch of the call-back, with their infos and places
StoreReports ==
    Out ** Out ** Out ** Out ** Read
        ** Maybe(Out ** Out ** Read ** (Throw \cup Maybe(Out) ** Maybe(Try(Call))))

\* each farm's old reports are deleted before its new one is written
DetectBulk ==
    Call ** Loop(Read ** Maybe(Out ** Out ** Out ** Out ** Maybe(Try(Call))))

FindByCfFarm == Read ** Maybe(Read ** Out)

PullFarm == Call ** (Throw \cup Out ** Loop(Out) ** Loop(Out ** (Throw \cup Out)))

-----------------------------------------------------------------------------
(* Assessments, products, requests for information, without a transaction *)

UploadFiles == Maybe(Read ** Maybe(Throw)) ** Maybe(Maybe(Read) ** Out ** Read ** Maybe(Out))

CreateHeading == Read ** (Throw \cup Read ** Out)

\* the loop over the headings that remain starts at the second one and goes one
\* too far
RemoveHeading ==
    Read ** (Throw \cup Out ** Read ** Maybe(Loop(Out ** Read) ** Throw))

\* this loop goes one too far as well
ReorderHeading == Read ** (Throw \cup Each(Out ** Read) ** Throw)

SaveMobileResponse ==
    Read ** (Throw \cup Read ** Maybe(Read) ** Maybe(Out) ** Maybe(LinkSurvey)
                     ** Maybe(Respond) ** Maybe(Out) ** Read)

UpdateMitigation == Read ** (Throw \cup Out ** Out ** Maybe(Out) ** Read)

DiscussMitigation == Out ** Maybe(Out) ** Read

CreateExemptProduct == Out ** Maybe(AttachContainers)

UpdateExemptProduct == Read ** (Throw \cup Out ** Maybe(Read ** Out ** Out))

DeleteExemptProduct == Read ** Maybe(Out ** Out)

DeleteProduct == Read ** (Throw \cup Read ** Loop(Out) ** Out)

\* the history of the upload is written before the rows, as a success
UploadBlendSettings == Throw \cup Call ** Out ** Maybe(BulkCreateBlendSettings)

RequestInformation == Out ** Maybe(Out ** Call) ** Try(Call)

AddSupplier == Throw \cup Read ** (Throw \cup CreateUser)

RemoveInformationRequests == Read ** (Throw \cup Out)

AttachOperator == Read ** (Throw \cup Out ** Call)

-----------------------------------------------------------------------------
(* The methods by name, and how each deals with an error *)

Service ==
    [ createUserMetadata |-> CreateUserMetadata, createFlowSetting |-> CreateFlowSetting,
      updateFlowSetting |-> UpdateFlowSetting, removeFlowSetting |-> RemoveFlowSetting,
      createEudrSetting |-> CreateEudrSetting, updateEudrSetting |-> UpdateEudrSetting,
      findEudrSetting |-> FindEudrSetting, createEnquiry |-> CreateEnquiry,
      createUserMembership |-> CreateUserMembership, createPayment |-> CreatePayment,
      createUserAddons |-> CreateUserAddons, createFarm |-> CreateFarm,
      updateFarm |-> UpdateFarm, createSegment |-> CreateSegment,
      updateSegment |-> UpdateSegment, removeSegment |-> RemoveSegment,
      createDeforestation |-> CreateDeforestation, createPasture |-> CreatePastureReport,
      copyBlend |-> CopyBlend, deleteBlend |-> DeleteBlend,
      bulkCreateBlendSettings |-> BulkCreateBlendSettings,
      deleteBlendSettings |-> DeleteBlendSettings, createAssessment |-> CreateAssessment,
      copyDefaultAssessment |-> CopyDefaultAssessment, updateAssessment |-> UpdateAssessment,
      updateShipmentStatus |-> UpdateShipmentStatus, createShipment |-> CreateShipment,
      bulkAssignShipments |-> BulkAssignShipments, bulkRejectShipments |-> BulkRejectShipments,
      bulkApproveShipments |-> BulkApproveShipments,
      createReportByOperator |-> CreateReportByOperator, changeReport |-> ChangeReport,
      duplicateReport |-> DuplicateReport, bulkAssignReports |-> BulkAssignReports,
      bulkRejectReports |-> BulkRejectReports, bulkApproveReports |-> BulkApproveReports,
      updateOverdue |-> UpdateOverdue, editPlace |-> EditProductionPlace,
      mitigateRisk |-> MitigateRisk, removeMitigationFile |-> RemoveRiskMitigationFile,
      mitigateHighRiskFarms |-> MitigateHighRiskFarms,
      updateEudrAssessmentStatus |-> UpdateEudrAssessmentStatus,
      updateDisregardStatus |-> UpdateDisregardStatus,
      mitigateHighRiskPlaces |-> MitigateHighRiskPlaces,
      createReportBySupplier |-> CreateReportBySupplier, updateReport |-> UpdateReport,
      updateReportBySupplier |-> UpdateReportBySupplier, assignExporter |-> AssignExporter,
      createBlend |-> CreateBlend, updateBlend |-> UpdateBlend,
      createBlendSettings |-> CreateBlendSettings, updateBlendSettings |-> UpdateBlendSettings,
      deleteFarm |-> DeleteFarm, createQuestion |-> CreateQuestion,
      removeQuestion |-> RemoveQuestion, reorderQuestion |-> ReorderQuestion,
      saveResponse |-> SaveResponse, createMitigation |-> CreateMitigation,
      createDispute |-> CreateDispute, attachPlaces |-> AttachPlaces,
      addExistingPlaces |-> AddExistingPlaces,
      importGeoJson |-> ImportGeoJson, syncFarms |-> SyncFarms,
      registerProducer |-> RegisterProducer, changeProducer |-> ChangeProducer,
      removeUnacceptedFarms |-> RemoveUnacceptedFarms, removeFarms |-> RemoveFarms,
      updateRiskStatus |-> UpdateRiskStatus, mitigateManually |-> MitigateManually,
      deleteDispute |-> DeleteDispute,
      requestComplianceCertificate |-> RequestComplianceCertificate,
      updateBulkStatus |-> UpdateBulkStatus,
      detectDeforestationBulk |-> DetectDeforestationBulk,
      storeProtectedAreas |-> StoreProtectedAreas,
      recalculateTolerance |-> RecalculateTolerance,
      findByCfFarm |-> FindByCfFarm,
      pullFarm |-> PullFarm, uploadFiles |-> UploadFiles, createHeading |-> CreateHeading,
      removeHeading |-> RemoveHeading, reorderHeading |-> ReorderHeading,
      saveMobileResponse |-> SaveMobileResponse, updateMitigation |-> UpdateMitigation,
      discussMitigation |-> DiscussMitigation, createExemptProduct |-> CreateExemptProduct,
      updateExemptProduct |-> UpdateExemptProduct,
      deleteExemptProduct |-> DeleteExemptProduct, deleteProduct |-> DeleteProduct,
      uploadBlendSettings |-> UploadBlendSettings, requestInformation |-> RequestInformation,
      addSupplier |-> AddSupplier, removeInformationRequests |-> RemoveInformationRequests,
      attachOperator |-> AttachOperator, addPlaces |-> AddPlaces,
      requestReports |-> RequestReports, storeReports |-> StoreReports,
      detectBulk |-> DetectBulk ]

\* mutant: the catch of another method forgets its rollback
BareWhenUpdated == {"duplicateReport", "editPlace", "bulkApproveShipments", "bulkApproveReports",
                    "createPasture", "updateFlowSetting"}

\* no catch, or a catch that does not end the transaction
Bare == {"duplicateReport", "editPlace", "bulkApproveShipments", "bulkApproveReports",
         "createPasture"}

\* a catch that calls rollback() without awaiting it
Unawaited == {"createFarm", "updateFarm", "createSegment", "createEnquiry",
              "createDeforestation"}

\* mutant: the catch of another method logs the error and answers
SilentWhenUpdated == {"updateOverdue", "updateFlowSetting"}

\* a catch that rolls back, logs and returns
Silent == {"updateOverdue"}

\* a catch that rolls back and looks once more for what it wanted to create
Again == {"findEudrSetting"}

\* an inner catch after which the method goes on, commits if it has a transaction,
\* and has nothing to answer: the caller is answered an error
Empty == {"createEudrSetting", "importGeoJson"}
====
