------------------------------- MODULE Access -------------------------------
(***************************************************************************)
(* What the HTTP API lets whom see (internal/auth/middleware.go, the route *)
(* table of internal/httpapi/router.go and the handlers that scope their   *)
(* answer themselves). A route is named by its handler; claims are what    *)
(* the caller's session token carries: user, role, site. The target of a   *)
(* request is the site it is about: the one in its path, or of the device, *)
(* connection or export job in it; None for a request about no one site.   *)
(***************************************************************************)
CONSTANTS
  Site,
  None

\* authed routes behind RequireRole(operator).
OperatorRoutes ==
  {"createUser", "listUsers", "setUserDisabled", "createInvite",
   "createSite", "listCohorts", "fleetAlerts",
   "updateSiteCountry", "updateSiteLocation", "setSitePrimary",
   "registerDevice", "revokeDevice", "rotateDeviceSecret", "issueCloudImportToken",
   "fleetSummary", "fleetHealth",
   "currentGeneration", "currentFlow", "topSitesToday", "ingestionStatus",
   "fleetPowerCurve", "fleetEnergy", "fleetSpecificYield", "fleetPerformanceRatio",
   "fleetEmissions", "compareFleet", "benchmarkSegments", "fleetTrends", "fleetCohort",
   "fleetAnomalies", "fleetSummaryCSV", "fleetSummaryPDF",
   "setEmissionFactor", "listAuditActions", "verifyAuditActions", "verifyIngestionAudit"}

\* authed routes behind RequireSiteAccess: the site is in the path, or is
\* that of the device in the path.
SiteRoutes ==
  {"getSite", "listTelemetry",
   "siteEnergy", "siteSpecificYield", "sitePerformanceRatio", "sitePeak",
   "siteCapacityFactor", "siteEmissions", "compareHistory", "siteAnomalies",
   "siteTelemetryCSV", "siteSummaryCSV", "siteSummaryPDF",
   "createVendorConnection", "listVendorConnections", "revokeVendorConnection",
   "startVendorOAuth",
   "getDevice", "deviceStatus"}

\* authed routes whose handler does the scoping.
ScopedRoutes == {"listSites", "listDevices", "listIngestionAudit", "createExportJob", "getExportJob"}

Routes == OperatorRoutes \cup SiteRoutes \cup ScopedRoutes

RequireRole(claims) == claims.role = "operator"

OwnSite(claims, target) == claims.site # None /\ claims.site = target

RequireSiteAccess(claims, target) == claims.role = "operator" \/ OwnSite(claims, target)

\* siteFilter: None is no filter.
SiteFilter(route, claims, target) ==
  IF claims.role = "restricted" THEN claims.site
  ELSE IF route = "listDevices" THEN target ELSE None

\* listDevices refuses a restricted caller who asks for another site's.
ListDevicesAllowed(claims, target) ==
  claims.role = "operator" \/ target = None \/ OwnSite(claims, target)

\* createExportJob: a job about a site, or one about the fleet (None).
CreateExportAllowed(claims, target) ==
  claims.role = "operator" \/ OwnSite(claims, target)

\* Exports.Get
GetExportAllowed(claims, target) ==
  claims.role = "restricted" => OwnSite(claims, target)

Admits(route, claims, target) ==
  CASE route \in OperatorRoutes -> RequireRole(claims)
    [] route \in SiteRoutes -> target # None /\ RequireSiteAccess(claims, target)
    [] route = "listDevices" -> ListDevicesAllowed(claims, target)
    [] route = "createExportJob" -> CreateExportAllowed(claims, target)
    [] route = "getExportJob" -> GetExportAllowed(claims, target)
    [] OTHER -> TRUE

\* The sites whose data an admitted request may read or change.
Reaches(route, claims, target) ==
  LET about == IF route \in {"listSites", "listDevices", "listIngestionAudit"}
               THEN SiteFilter(route, claims, target)
               ELSE target
  IN IF about = None THEN Site ELSE {about}
=============================================================================
