SPECIFICATION Spec
CONSTANTS
  r1 = r1  r2 = r2  r3 = r3
  t1 = t1  t2 = t2
  whatsapp = whatsapp  whatsapp2 = whatsapp2
  admin = admin  aaron = aaron  ada = ada  gina = gina
  lena = lena  rafi = rafi
  d1 = d1  d2 = d2
  NoOne = NoOne
  MaxOpenConns = 2
  Reseeding = FALSE
  MaxSecond = 0
  Requests <- ThreeRequests
  Tenants <- OneTenant
  Channels <- OneChannel
  Users <- Staff
  Externals <- OneCustomer
  TenantOf <- StaffTenant
  RoleOf <- StaffRole
  Demo <- OpenDemo
INVARIANTS
  OneActiveConversation
